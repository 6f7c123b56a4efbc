------------------------ MODULE CursorParser_proofs -------------------------
(* What holds of every parser built from the reads of CursorParser, for any  *)
(* buffer, any length words and any width of usize.                          *)
EXTENDS CursorParser, Induction_proofs, TLAPS

\* The cut of a value to usize is a usize.
LEMMA UsizeRange == ASSUME NEW v \in Nat PROVE Usize(v) \in 0 .. UsizeMax
  BY Sizes DEF Usize

\* A value that fits is not cut.
LEMMA UsizeFits == ASSUME NEW v \in 0 .. UsizeMax PROVE Usize(v) = v
  BY Sizes DEF Usize

\* The read at the cursor is one of the instructions.
LEMMA InstrShape ==
  ASSUME TypeOK, ip <= Len(Code[fn])
  PROVE  /\ Code[fn] \in Seq(Instrs)
         /\ Instr \in Instrs
         /\ Instr.op \in Ops /\ Instr.n \in 0 .. MaxStep /\ Instr.f \in Fields
         /\ ip \in 1 .. Len(Code[fn])
<1>1. Code[fn] \in Seq(Instrs)
  BY CodeShape DEF TypeOK
<1>2. ip \in 1 .. Len(Code[fn])
  BY <1>1 DEF TypeOK
<1>3. Instr \in Instrs
  BY <1>1, <1>2 DEF Instr
<1> QED
  BY <1>1, <1>2, <1>3 DEF Instrs

\* The width of a read and the cursor it leads to are usizes.
LEMMA WidthShape ==
  ASSUME TypeOK, ip <= Len(Code[fn])
  PROVE  Width \in 0 .. UsizeMax \/ Width \in 0 .. MaxStep
<1>1. CASE Instr.op \in Takes
  <2>1. declared[Instr.f] \in Nat
    BY InstrShape DEF TypeOK
  <2> QED
    BY <1>1, <2>1, UsizeRange DEF Width
<1>2. CASE Instr.op \notin Takes
  BY <1>2, InstrShape DEF Width
<1> QED
  BY <1>1, <1>2

LEMMA SumShape ==
  ASSUME TypeOK, ip <= Len(Code[fn])
  PROVE  Width \in Nat /\ pos \in Nat /\ len \in Nat /\ Sum \in 0 .. UsizeMax
<1>1. Width \in Nat /\ pos \in Nat /\ len \in Nat
  BY WidthShape, Sizes DEF TypeOK
<1> QED
  BY <1>1, UsizeRange DEF Sum

-----------------------------------------------------------------------------
LEMMA InitTyped == Init => TypeOK
<1> SUFFICES ASSUME Init PROVE TypeOK
  OBVIOUS
<1>1. Code[fn] \in Seq(Instrs)
  BY CodeShape DEF Init
<1>2. ip \in 1 .. Len(Code[fn]) + 1
  BY <1>1 DEF Init
<1>3. pos \in 0 .. UsizeMax
  BY Sizes DEF Init
<1>4. declared \in [Fields -> Nat] /\ span \in [Fields -> Nat \X Nat]
  BY DEF Init
<1> QED
  BY <1>2, <1>3, <1>4 DEF Init, TypeOK, Outcomes

\* What a step may do to the cursor, in the terms the proofs below use: it
\* returns; or it takes a bounded read that ends inside the buffer; or it takes
\* a read that moves the cursor on without looking at the end; or it stays.
Returns == /\ UNCHANGED <<fn, len, ip, pos, fellBack>>
           /\ outcome' \in Outcomes
           /\ outcome' = "ok" => outcome = "ok" \/ ip > Len(Code[fn])
Steps == /\ ip <= Len(Code[fn]) /\ ip' = ip + 1
         /\ outcome = "running"
         /\ UNCHANGED <<fn, len, outcome>>
BoundedStep == /\ Steps /\ Instr.op \in Bounding
               /\ pos <= len /\ pos' \in 0 .. len
               /\ fellBack' = fellBack
LooseStep == /\ Steps /\ Instr.op \in {"skip", "word", "len32"}
             /\ pos' = IF Instr.op = "skip"
                         THEN IF pos + Instr.n > UsizeMax THEN UsizeMax ELSE pos + Instr.n
                         ELSE Usize(pos + Instr.n)
             /\ fellBack' \in BOOLEAN
             /\ fellBack' => fellBack \/ ~(pos <= pos' /\ pos' <= len)
StillStep == /\ Steps /\ Instr.op \in Still
             /\ pos' = pos /\ fellBack' = fellBack

LEMMA StepShapes ==
  ASSUME TypeOK, [Next]_vars
  PROVE  Returns \/ BoundedStep \/ LooseStep \/ StillStep
<1>1. CASE Overflow
  BY <1>1 DEF Overflow, At, Return, Returns, Outcomes
<1>2. CASE Need
  BY <1>2 DEF Need, At, Return, Returns, Outcomes, Moves, StillStep, Steps, Still
<1>3. CASE Check
  BY <1>3 DEF Check, At, Return, Returns, Outcomes, Moves, StillStep, Steps, Still
<1>4. CASE Index
  <2>1. CASE Return("oob")
    BY <2>1, <1>4 DEF Index, At, Return, Returns, Outcomes
  <2>2. CASE Gets(Sum) /\ Moves(Sum) /\ UNCHANGED fellBack
    BY <2>2, <1>4, SumShape DEF Index, At, Moves, Gets, BoundedStep, Steps, Bounding
  <2> QED
    BY <1>4, <2>1, <2>2 DEF Index
<1>5. CASE Skip
  <2>1. ip <= Len(Code[fn]) /\ Width = Instr.n
    BY <1>5 DEF Skip, At, Width, Takes
  <2> QED
    BY <1>5, <2>1 DEF Skip, At, Moves, LooseStep, Steps, TypeOK
<1>6. CASE Word
  <2>1. ip <= Len(Code[fn]) /\ Width = Instr.n
    BY <1>6 DEF Word, At, Width, Takes
  <2> QED
    BY <1>6, <2>1 DEF Word, At, Moves, Gets, Sum, LooseStep, Steps, TypeOK
<1>7. CASE LenWord
  <2>1. ip <= Len(Code[fn]) /\ Width = Instr.n
    BY <1>7 DEF LenWord, At, Width, Takes
  <2> QED
    BY <1>7, <2>1 DEF LenWord, At, Moves, Gets, Sum, LooseStep, Steps, TypeOK
<1>8. CASE WordOrErr
  <2>1. CASE Return("tooShort")
    BY <2>1, <1>8 DEF WordOrErr, At, Return, Returns, Outcomes
  <2>2. CASE Gets(Sum) /\ Moves(Sum) /\ UNCHANGED fellBack
    BY <2>2, <1>8, SumShape DEF WordOrErr, At, Moves, Gets, BoundedStep, Steps, Bounding
  <2> QED
    BY <1>8, <2>1, <2>2 DEF WordOrErr
<1>9. CASE LenOrErr
  <2>1. CASE Return("tooShort")
    BY <2>1, <1>9 DEF LenOrErr, At, Return, Returns, Outcomes
  <2>2. CASE Gets(Sum) /\ Moves(Sum) /\ UNCHANGED fellBack
    BY <2>2, <1>9, SumShape DEF LenOrErr, At, Moves, Gets, BoundedStep, Steps, Bounding
  <2> QED
    BY <1>9, <2>1, <2>2 DEF LenOrErr
<1>10. CASE Take
  <2>1. CASE Return("tooShort")
    BY <2>1, <1>10 DEF Take, At, Return, Returns, Outcomes
  <2>2. CASE Gets(Sum) /\ Moves(Sum) /\ UNCHANGED fellBack
    BY <2>2, <1>10, SumShape DEF Take, At, Moves, Gets, BoundedStep, Steps, Bounding
  <2> QED
    BY <1>10, <2>1, <2>2 DEF Take
<1>11. CASE CheckedTake
  <2> DEFINE end == pos + Width
  <2>1. CASE Return("tooShort")
    BY <2>1, <1>11 DEF CheckedTake, At, Return, Returns, Outcomes
  <2>2. CASE Gets(end) /\ Moves(end) /\ UNCHANGED fellBack
    BY <2>2, <1>11, SumShape DEF CheckedTake, At, Moves, Gets, BoundedStep, Steps, Bounding
  <2> QED
    BY <1>11, <2>1, <2>2 DEF CheckedTake
<1>12. CASE Advance
  <2> DEFINE end == pos + Width
  <2>1. CASE Return("tooShort")
    BY <2>1, <1>12 DEF Advance, At, Return, Returns, Outcomes
  <2>2. CASE end <= len /\ Moves(end) /\ UNCHANGED fellBack
    BY <2>2, <1>12, SumShape DEF Advance, At, Moves, BoundedStep, Steps, Bounding
  <2> QED
    BY <1>12, <2>1, <2>2 DEF Advance
<1>13. CASE Mark
  BY <1>13 DEF Mark, At, Moves, StillStep, Steps, Still
<1>14. CASE Region
  BY <1>14 DEF Region, At, Return, Returns, Outcomes, Moves, StillStep, Steps, Still
<1>15. CASE Rest
  <2>1. CASE Return("oob")
    BY <2>1, <1>15 DEF Rest, At, Return, Returns, Outcomes
  <2>2. CASE pos <= len /\ Moves(len) /\ UNCHANGED fellBack
    BY <2>2, <1>15, SumShape DEF Rest, At, Moves, BoundedStep, Steps, Bounding
  <2> QED
    BY <1>15, <2>1, <2>2 DEF Rest
<1>16. CASE Finish
  BY <1>16 DEF Finish, Return, Returns, Outcomes
<1>17. CASE Returned \/ UNCHANGED vars
  BY <1>17 DEF Returned, vars, Returns, TypeOK
<1> QED
  BY <1>1, <1>2, <1>3, <1>4, <1>5, <1>6, <1>7, <1>8, <1>9, <1>10, <1>11, <1>12,
     <1>13, <1>14, <1>15, <1>16, <1>17 DEF Next

\* The two records of what was read keep their types.
LEMMA RecordsTyped ==
  ASSUME TypeOK, [Next]_vars
  PROVE  declared' \in [Fields -> Nat] /\ span' \in [Fields -> Nat \X Nat]
<1> DEFINE Typed == declared' \in [Fields -> Nat] /\ span' \in [Fields -> Nat \X Nat]
<1>1. ASSUME NEW e \in Nat, Keeps(e), UNCHANGED declared, ip <= Len(Code[fn])
      PROVE  Typed
  <2>1. <<pos, e>> \in Nat \X Nat
    BY <1>1 DEF TypeOK
  <2> QED
    BY <1>1, <2>1, InstrShape DEF TypeOK, Keeps
<1>2. ASSUME NEW v \in Nat, declared' = [declared EXCEPT ![Instr.f] = v],
             UNCHANGED span, ip <= Len(Code[fn])
      PROVE  Typed
  BY <1>2, InstrShape DEF TypeOK
<1>3. ASSUME UNCHANGED <<declared, span>> PROVE Typed
  BY <1>3 DEF TypeOK
<1>4. CASE Index \/ Word \/ WordOrErr \/ Take
  <2>1. CASE UNCHANGED <<declared, span>>
    BY <2>1, <1>3
  <2>2. CASE Keeps(Sum) /\ UNCHANGED declared
    <3>1. ip <= Len(Code[fn])
      BY <1>4 DEF Index, Word, WordOrErr, Take, At
    <3>2. Sum \in Nat
      BY <3>1, SumShape, Sizes
    <3> QED
      BY <2>2, <3>1, <3>2, <1>1
  <2> QED
    BY <1>4, <2>1, <2>2 DEF Index, Word, WordOrErr, Take, Return
<1>5. CASE LenWord \/ LenOrErr
  <2>1. CASE UNCHANGED <<declared, span>>
    BY <2>1, <1>3
  <2>2. CASE \E v \in U32s \cup {0} \cup U64s :
               declared' = [declared EXCEPT ![Instr.f] = v] /\ UNCHANGED span
    <3>1. ip <= Len(Code[fn])
      BY <1>5 DEF LenWord, LenOrErr, At
    <3>2. U32s \cup {0} \cup U64s \subseteq Nat
      BY Sizes
    <3> QED
      BY <2>2, <3>1, <3>2, <1>2
  <2> QED
    BY <1>5, <2>1, <2>2 DEF LenWord, LenOrErr, Return
<1>6. CASE CheckedTake
  <2> DEFINE end == pos + Width
  <2>1. CASE UNCHANGED <<declared, span>>
    BY <2>1, <1>3
  <2>2. CASE Keeps(end) /\ UNCHANGED declared
    <3>1. ip <= Len(Code[fn])
      BY <1>6 DEF CheckedTake, At
    <3>2. end \in Nat
      BY <3>1, SumShape
    <3> QED
      BY <2>2, <3>1, <3>2, <1>1
  <2> QED
    BY <1>6, <2>1, <2>2 DEF CheckedTake, Return
<1>7. CASE Rest \/ Mark
  <2>1. CASE UNCHANGED <<declared, span>>
    BY <2>1, <1>3
  <2>2. CASE (Keeps(len) \/ Keeps(pos)) /\ UNCHANGED declared
    <3>1. ip <= Len(Code[fn])
      BY <1>7 DEF Rest, Mark, At
    <3>2. len \in Nat /\ pos \in Nat
      BY <3>1, SumShape
    <3> QED
      BY <2>2, <3>1, <3>2, <1>1
  <2> QED
    BY <1>7, <2>1, <2>2 DEF Rest, Mark, Return
<1>8. CASE Region
  <2>1. CASE UNCHANGED <<declared, span>>
    BY <2>1, <1>3
  <2>2. CASE span' = [span EXCEPT ![Instr.f] = <<Instr.n, span[Instr.f][2]>>]
             /\ UNCHANGED declared
    <3>1. Instr.n \in Nat /\ Instr.f \in Fields
      BY <1>8, InstrShape, Sizes DEF Region, At
    <3>2. <<Instr.n, span[Instr.f][2]>> \in Nat \X Nat
      BY <3>1 DEF TypeOK
    <3> QED
      BY <2>2, <3>1, <3>2 DEF TypeOK
  <2> QED
    BY <1>8, <2>1, <2>2 DEF Region, Return
<1>9. CASE Overflow \/ Need \/ Check \/ Skip \/ Advance \/ Finish \/ Returned
           \/ UNCHANGED vars
  <2>1. UNCHANGED <<declared, span>>
    BY <1>9 DEF Overflow, Need, Check, Skip, Advance, Finish, Returned, Return, vars
  <2> QED
    BY <2>1, <1>3
<1> QED
  BY <1>4, <1>5, <1>6, <1>7, <1>8, <1>9 DEF Next

LEMMA StepTyped == TypeOK /\ [Next]_vars => TypeOK'
<1> SUFFICES ASSUME TypeOK, [Next]_vars PROVE TypeOK'
  OBVIOUS
<1>1. declared' \in [Fields -> Nat] /\ span' \in [Fields -> Nat \X Nat]
  BY RecordsTyped
<1>2. Code[fn] \in Seq(Instrs) /\ len \in Nat /\ len <= UsizeMax
  BY CodeShape, Sizes DEF TypeOK
<1>3. fn' = fn /\ len' = len
  BY StepShapes DEF Returns, BoundedStep, LooseStep, StillStep, Steps
<1>4. ip' \in 1 .. Len(Code[fn]) + 1
  BY StepShapes, <1>2 DEF Returns, BoundedStep, LooseStep, StillStep, Steps, TypeOK
<1>5. pos' \in 0 .. UsizeMax
  <2>1. CASE Returns \/ BoundedStep \/ StillStep
    BY <2>1, <1>2, Sizes DEF Returns, BoundedStep, StillStep, TypeOK
  <2>2. CASE LooseStep
    <3>1. pos + Instr.n \in Nat
      BY <2>2, InstrShape, Sizes DEF LooseStep, Steps, TypeOK
    <3> QED
      BY <2>2, <3>1, UsizeRange, Sizes DEF LooseStep
  <2> QED
    BY <2>1, <2>2, StepShapes
<1>6. fellBack' \in BOOLEAN /\ outcome' \in Outcomes
  BY StepShapes DEF Returns, BoundedStep, LooseStep, StillStep, Steps, TypeOK
<1> QED
  BY <1>1, <1>3, <1>4, <1>5, <1>6 DEF TypeOK

\* The cursor of every parser is a usize and its records keep their types.
THEOREM TypeCorrect == Spec => []TypeOK
<1>1. Init => TypeOK
  BY InitTyped
<1>2. TypeOK /\ [Next]_vars => TypeOK'
  BY StepTyped
<1> QED
  BY <1>1, <1>2, PTL DEF Spec

-----------------------------------------------------------------------------
(* NoSilentZero.  The inductive invariant says where the cursor can be: a    *)
(* fallback read leaves it past the end, from where no bounded read succeeds *)
(* and, as the buffer is shorter than usize by the room all the fixed-width  *)
(* reads need, no addition brings it back.                                   *)

\* The cursor outruns the buffer by at most the fixed-width reads done.
CursorBound == pos <= len + MaxStep * (ip - 1)
\* After a bounded read the cursor is inside the buffer.
Settled == BoundsAt(Code[fn], ip - 1) => pos <= len
\* Once a read fell back, the cursor stays past the end.
PastEnd == fellBack => pos > len
\* Ok is returned after the last read.
OkAtEnd == outcome = "ok" => ip = Len(Code[fn]) + 1

Inv == TypeOK /\ CursorBound /\ Settled /\ PastEnd /\ OkAtEnd

\* A read of fixed width never leaves usize.
LEMMA PlainFits ==
  ASSUME TypeOK, CursorBound, ip <= Len(Code[fn])
  PROVE  pos + Instr.n \in 0 .. UsizeMax
<1>1. /\ Instr.n \in 0 .. MaxStep /\ MaxStep \in Nat /\ UsizeMax \in Nat
      /\ Len(Code[fn]) \in Nat /\ ip \in 1 .. Len(Code[fn])
      /\ pos \in 0 .. UsizeMax /\ len \in Nat
  BY InstrShape, Sizes DEF TypeOK
<1>2. len + MaxStep * (Len(Code[fn]) + 1) <= UsizeMax
  BY Roomy DEF TypeOK
<1>3. MaxStep * ip = MaxStep * (ip - 1) + MaxStep
  BY <1>1
<1>4. MaxStep * ip <= MaxStep * (Len(Code[fn]) + 1)
  <2>1. \A a, b, m \in Nat : a <= b => m * a <= m * b
    OBVIOUS
  <2> QED
    BY <1>1, <2>1
<1>5. pos + Instr.n <= UsizeMax
  BY <1>1, <1>2, <1>3, <1>4 DEF CursorBound
<1> QED
  BY <1>1, <1>5

\* A read that does not look at the end moves the cursor on, never back.
LEMMA LooseAdvances ==
  ASSUME TypeOK, CursorBound, LooseStep
  PROVE  /\ pos' = pos + Instr.n
         /\ Instr.n \in 0 .. MaxStep
         /\ MaxStep * ip = MaxStep * (ip - 1) + MaxStep
<1>1. ip <= Len(Code[fn])
  BY DEF LooseStep, Steps
<1>2. Instr.n \in 0 .. MaxStep /\ MaxStep \in Nat /\ UsizeMax \in Nat /\ ip \in Nat
  BY <1>1, InstrShape, Sizes
<1>3. pos + Instr.n \in 0 .. UsizeMax
  BY <1>1, PlainFits
<1> QED
  BY <1>2, <1>3, UsizeFits DEF LooseStep

LEMMA InitInv == Init => Inv
<1> SUFFICES ASSUME Init PROVE Inv
  OBVIOUS
<1>1. TypeOK
  BY InitTyped
<1>2. len \in Nat /\ MaxStep \in Nat
  BY Sizes DEF Init
<1>3. CursorBound
  BY <1>2 DEF Init, CursorBound
<1> QED
  BY <1>1, <1>2, <1>3 DEF Init, Inv, Settled, PastEnd, OkAtEnd

LEMMA StepInv == Inv /\ [Next]_vars => Inv'
<1> SUFFICES ASSUME Inv, [Next]_vars PROVE Inv'
  OBVIOUS
<1>1. TypeOK /\ TypeOK'
  BY StepTyped DEF Inv
<1>2. /\ len \in Nat /\ pos \in Nat /\ MaxStep \in Nat /\ Len(Code[fn]) \in Nat
      /\ ip \in 1 .. Len(Code[fn]) + 1
  BY <1>1, CodeShape, Sizes DEF TypeOK
<1>3. CASE Returns
  <2>1. fn' = fn /\ len' = len /\ ip' = ip /\ pos' = pos /\ fellBack' = fellBack
    BY <1>3 DEF Returns
  <2>2. CursorBound' /\ Settled' /\ PastEnd'
    BY <2>1 DEF Inv, CursorBound, Settled, PastEnd
  <2>3. OkAtEnd'
    BY <1>2, <1>3, <2>1 DEF Inv, Returns, OkAtEnd
  <2> QED
    BY <1>1, <2>2, <2>3 DEF Inv
<1>4. CASE BoundedStep
  <2>1. MaxStep * (ip' - 1) \in Nat
    BY <1>2, <1>4 DEF BoundedStep, Steps
  <2>2. CursorBound' /\ Settled'
    BY <1>2, <1>4, <2>1 DEF BoundedStep, Steps, CursorBound, Settled
  <2>3. PastEnd' /\ OkAtEnd'
    BY <1>2, <1>4 DEF BoundedStep, Steps, Inv, PastEnd, OkAtEnd
  <2> QED
    BY <1>1, <2>2, <2>3 DEF Inv
<1>5. CASE LooseStep
  <2>1. /\ pos' = pos + Instr.n /\ Instr.n \in 0 .. MaxStep
        /\ MaxStep * ip = MaxStep * (ip - 1) + MaxStep
    BY <1>1, <1>5, LooseAdvances DEF Inv
  <2>2. MaxStep * ip \in Nat /\ MaxStep * (ip - 1) \in Nat
    BY <1>2
  <2>3. CursorBound'
    <3>1. ip' - 1 = ip /\ len' = len
      BY <1>2, <1>5 DEF LooseStep, Steps
    <3>2. pos' <= len + MaxStep * ip
      BY <1>2, <2>1, <2>2 DEF Inv, CursorBound
    <3> QED
      BY <3>1, <3>2 DEF CursorBound
  <2>4. Settled'
    <3>1. ip' - 1 = ip /\ fn' = fn /\ Code[fn][ip].op \in {"skip", "word", "len32"}
      BY <1>2, <1>5 DEF LooseStep, Steps, Instr
    <3>2. ~BoundsAt(Code[fn], ip)
      BY <3>1 DEF BoundsAt, Bounding, Still
    <3> QED
      BY <3>1, <3>2 DEF Settled
  <2>5. PastEnd' /\ OkAtEnd'
    BY <1>2, <1>5, <2>1 DEF LooseStep, Steps, Inv, PastEnd, OkAtEnd
  <2> QED
    BY <1>1, <2>3, <2>4, <2>5 DEF Inv
<1>6. CASE StillStep
  <2>1. /\ ip' - 1 = ip /\ fn' = fn /\ len' = len /\ pos' = pos
        /\ Code[fn][ip].op \in Still
    BY <1>2, <1>6 DEF StillStep, Steps, Instr
  <2>2. CursorBound'
    <3>1. MaxStep * ip = MaxStep * (ip - 1) + MaxStep
          /\ MaxStep * ip \in Nat /\ MaxStep * (ip - 1) \in Nat
      BY <1>2
    <3>2. pos <= len + MaxStep * ip
      BY <1>2, <3>1 DEF Inv, CursorBound
    <3> QED
      BY <2>1, <3>2 DEF CursorBound
  <2>3. Settled'
    <3>1. BoundsAt(Code[fn], ip) => BoundsAt(Code[fn], ip - 1)
      BY <1>2, <2>1 DEF BoundsAt, Bounding, Still
    <3> QED
      BY <2>1, <3>1 DEF Settled, Inv
  <2>4. PastEnd' /\ OkAtEnd'
    BY <1>2, <1>6 DEF StillStep, Steps, Inv, PastEnd, OkAtEnd
  <2> QED
    BY <1>1, <2>2, <2>3, <2>4 DEF Inv
<1> QED
  BY <1>1, <1>3, <1>4, <1>5, <1>6, StepShapes

\* No parser returns a value that a read past the end made up, whatever the
\* buffer, its length words and the width of usize.
THEOREM NoSilentZeroHolds == Spec => []NoSilentZero
<1>1. Init => Inv
  BY InitInv
<1>2. Inv /\ [Next]_vars => Inv'
  BY StepInv
<1>3. Inv => NoSilentZero
  <2> SUFFICES ASSUME Inv, outcome = "ok" PROVE ~fellBack
    BY DEF NoSilentZero
  <2>1. ip - 1 = Len(Code[fn])
    BY CodeShape DEF Inv, OkAtEnd, TypeOK
  <2>2. pos <= len
    BY <2>1, EndsBounded DEF Inv, Settled, TypeOK
  <2>3. pos \in Nat /\ len \in Nat
    BY Sizes DEF Inv, TypeOK
  <2> QED
    BY <2>2, <2>3 DEF Inv, PastEnd
<1> QED
  BY <1>1, <1>2, <1>3, PTL DEF Spec

-----------------------------------------------------------------------------
(* The layout of a buffer: where each read starts.                           *)

LEMMA BytesNat ==
  ASSUME NEW r \in Instrs, NEW d \in [Fields -> Nat]
  PROVE  Bytes(r, d) \in Nat
BY Sizes DEF Bytes, Instrs

LEMMA ExtentUnfolds ==
  ASSUME NEW c \in Seq(Instrs), NEW d \in [Fields -> Nat]
  PROVE  \A i \in 1 .. Len(c) + 1 :
           Extent(c, d)[i] = IF i = 1 THEN 0 ELSE Extent(c, d)[i - 1] + Bytes(c[i - 1], d)
<1> DEFINE n == Len(c) + 1
           bytes == [j \in 1 .. Len(c) |-> Bytes(c[j], d)]
           Is(at) == at = [i \in 1 .. n |-> IF i = 1 THEN 0 ELSE at[i - 1] + Bytes(c[i - 1], d)]
<1>1. n \in Nat
  OBVIOUS
<1>2. /\ bytes \in [1 .. Len(c) -> Nat]
      /\ \A i \in 1 .. Len(c) : bytes[i] = Bytes(c[i], d)
  BY BytesNat
<1> DEFINE at == Sums(0, bytes, Len(c))
<1>3. /\ at \in [1 .. n -> Nat]
      /\ \A i \in 1 .. n : at[i] = IF i = 1 THEN 0 ELSE at[i - 1] + bytes[i - 1]
  <2> DEFINE m == Len(c)
  <2>1. m \in Nat /\ bytes \in [1 .. m -> Nat]
    BY <1>2
  <2> HIDE DEF m, bytes
  <2>2. /\ Sums(0, bytes, m) \in [1 .. m + 1 -> Nat]
        /\ AreSums(Sums(0, bytes, m), 0, bytes, m + 1)
    BY <2>1, SumsExist
  <2> QED
    BY <2>2 DEF m, AreSums
<1> HIDE DEF at
<1>4. Is(at)
  <2> DEFINE g == [i \in 1 .. n |-> IF i = 1 THEN 0 ELSE at[i - 1] + Bytes(c[i - 1], d)]
  <2> HIDE DEF bytes, n
  <2>1. \A i \in 1 .. n : i # 1 => i - 1 \in 1 .. Len(c)
    BY DEF n
  <2>2. \A i \in 1 .. n : at[i] = g[i]
    BY <1>2, <1>3, <2>1
  <2>3. at = g
    BY <1>3, <2>2
  <2> QED
    BY <2>3
<1>5. Extent(c, d) = CHOOSE x : Is(x)
  BY DEF Extent
<1>6. Is(Extent(c, d))
  <2> HIDE DEF Is, at
  <2> QED
    BY <1>4, <1>5
<1> DEFINE e == Extent(c, d)
<1>7. e = [i \in 1 .. n |-> IF i = 1 THEN 0 ELSE e[i - 1] + Bytes(c[i - 1], d)]
  BY <1>6
<1> HIDE DEF e
<1>8. \A i \in 1 .. n : e[i] = IF i = 1 THEN 0 ELSE e[i - 1] + Bytes(c[i - 1], d)
  BY <1>7
<1> QED
  BY <1>8 DEF e

LEMMA ExtentNat ==
  ASSUME NEW c \in Seq(Instrs), NEW d \in [Fields -> Nat]
  PROVE  \A i \in 1 .. Len(c) + 1 : Extent(c, d)[i] \in Nat
<1> DEFINE n == Len(c) + 1
           e == Extent(c, d)
           S == {i \in 1 .. n : e[i] \in Nat}
<1>1. n \in Nat
  OBVIOUS
<1>2. \A i \in 1 .. n : e[i] = IF i = 1 THEN 0 ELSE e[i - 1] + Bytes(c[i - 1], d)
  BY ExtentUnfolds
<1>3. \A i \in 1 .. n : i + 1 <= n => Bytes(c[i], d) \in Nat /\ i + 1 \in 1 .. n /\ (i + 1) - 1 = i
  BY BytesNat
<1> HIDE DEF e, n
<1>4. 1 <= n => 1 \in S
  BY <1>1, <1>2
<1>5. \A i \in 1 .. n : i + 1 <= n /\ i \in S => i + 1 \in S
  <2> SUFFICES ASSUME NEW i \in 1 .. n, i + 1 <= n, e[i] \in Nat
               PROVE  e[i + 1] \in Nat /\ i + 1 \in 1 .. n
    OBVIOUS
  <2>1. e[i + 1] = e[i] + Bytes(c[i], d)
    BY <1>2, <1>3
  <2> QED
    BY <1>3, <2>1
<1> HIDE DEF S
<1>6. 1 .. n \subseteq S
  BY <1>1, <1>4, <1>5, Induct
<1> QED
  BY <1>6 DEF S, e, n

LEMMA ExtentGrows ==
  ASSUME NEW c \in Seq(Instrs), NEW d \in [Fields -> Nat], NEW k \in 1 .. Len(c) + 1,
         NEW m \in 1 .. Len(c) + 1, k <= m
  PROVE  Extent(c, d)[k] <= Extent(c, d)[m]
<1> DEFINE n == Len(c) + 1
           e == Extent(c, d)
           S == {i \in 1 .. n : k <= i => e[k] <= e[i]}
<1>1. n \in Nat /\ k \in 1 .. n
  OBVIOUS
<1>2. \A i \in 1 .. n : e[i] = IF i = 1 THEN 0 ELSE e[i - 1] + Bytes(c[i - 1], d)
  BY ExtentUnfolds
<1>3. \A i \in 1 .. n : i + 1 <= n => Bytes(c[i], d) \in Nat /\ i + 1 \in 1 .. n /\ (i + 1) - 1 = i
  BY BytesNat
<1>4. \A i \in 1 .. n : e[i] \in Nat
  BY ExtentNat
<1> HIDE DEF e, n
<1>5. 1 <= n => 1 \in S
  BY <1>1, <1>4
<1>6. \A i \in 1 .. n : i + 1 <= n /\ i \in S => i + 1 \in S
  <2> SUFFICES ASSUME NEW i \in 1 .. n, i + 1 <= n, k <= i => e[k] <= e[i], k <= i + 1
               PROVE  e[k] <= e[i + 1] /\ i + 1 \in 1 .. n
    BY <1>3
  <2>1. i + 1 \in 1 .. n /\ e[i + 1] = e[i] + Bytes(c[i], d)
    BY <1>2, <1>3
  <2>2. e[i] \in Nat /\ e[k] \in Nat /\ Bytes(c[i], d) \in Nat
    BY <1>1, <1>3, <1>4
  <2>3. e[i] <= e[i + 1]
    BY <2>1, <2>2
  <2>4. CASE k <= i
    BY <2>1, <2>2, <2>3, <2>4
  <2>5. CASE k = i + 1
    BY <2>1, <2>2, <2>5
  <2> QED
    BY <1>1, <2>4, <2>5
<1> HIDE DEF S
<1>7. 1 .. n \subseteq S
  BY <1>1, <1>5, <1>6, Induct
<1>8. m \in S
  BY <1>7 DEF n
<1> QED
  BY <1>8 DEF S, e, n

\* The start of a read depends on no length word but those of the fields taken
\* before it.
LEMMA ExtentDepends ==
  ASSUME NEW c \in Seq(Instrs), NEW d \in [Fields -> Nat], NEW dd \in [Fields -> Nat],
         NEW k \in 1 .. Len(c) + 1,
         \A i \in 1 .. k - 1 : c[i].op \in Takes => d[c[i].f] = dd[c[i].f]
  PROVE  Extent(c, d)[k] = Extent(c, dd)[k]
<1> DEFINE e == Extent(c, d)
           ee == Extent(c, dd)
           S == {i \in 1 .. k : e[i] = ee[i]}
<1>1. k \in Nat
  OBVIOUS
<1>2. \A i \in 1 .. k : e[i] = IF i = 1 THEN 0 ELSE e[i - 1] + Bytes(c[i - 1], d)
  BY ExtentUnfolds
<1>3. \A i \in 1 .. k : ee[i] = IF i = 1 THEN 0 ELSE ee[i - 1] + Bytes(c[i - 1], dd)
  BY ExtentUnfolds
<1>4. \A i \in 1 .. k - 1 : Bytes(c[i], d) = Bytes(c[i], dd)
  BY DEF Bytes
<1> HIDE DEF e, ee
<1>5. 1 <= k => 1 \in S
  BY <1>1, <1>2, <1>3
<1>6. \A i \in 1 .. k : i + 1 <= k /\ i \in S => i + 1 \in S
  <2> SUFFICES ASSUME NEW i \in 1 .. k, i + 1 <= k, e[i] = ee[i]
               PROVE  e[i + 1] = ee[i + 1] /\ i + 1 \in 1 .. k
    OBVIOUS
  <2>1. i + 1 \in 1 .. k /\ (i + 1) - 1 = i /\ i + 1 # 1 /\ i \in 1 .. k - 1
    BY <1>1
  <2>2. e[i + 1] = e[i] + Bytes(c[i], d)
    BY <1>2, <2>1
  <2>3. ee[i + 1] = ee[i] + Bytes(c[i], dd)
    BY <1>3, <2>1
  <2> QED
    BY <1>4, <2>1, <2>2, <2>3
<1> HIDE DEF S
<1>7. 1 .. k \subseteq S
  BY <1>1, <1>5, <1>6, Induct
<1>8. k \in S
  BY <1>1, <1>7
<1> QED
  BY <1>8 DEF S, e, ee

\* Lengths only push the reads further on.
LEMMA FixedLeast ==
  ASSUME NEW c \in Seq(Instrs), NEW d \in [Fields -> Nat], NEW k \in 1 .. Len(c) + 1
  PROVE  Fixed(c)[k] <= Extent(c, d)[k]
<1> DEFINE n == Len(c) + 1
           e == Extent(c, d)
           z == Extent(c, NoLengths)
           S == {i \in 1 .. n : z[i] <= e[i]}
<1>1. n \in Nat /\ k \in 1 .. n
  OBVIOUS
<1>2. NoLengths \in [Fields -> Nat]
  BY DEF NoLengths
<1>3. \A i \in 1 .. n : e[i] = IF i = 1 THEN 0 ELSE e[i - 1] + Bytes(c[i - 1], d)
  BY ExtentUnfolds
<1>4. \A i \in 1 .. n : z[i] = IF i = 1 THEN 0 ELSE z[i - 1] + Bytes(c[i - 1], NoLengths)
  BY <1>2, ExtentUnfolds
<1>5. \A i \in 1 .. n : i + 1 <= n =>
        /\ i + 1 \in 1 .. n /\ (i + 1) - 1 = i
        /\ Bytes(c[i], d) \in Nat
        /\ Bytes(c[i], NoLengths) \in Nat
        /\ Bytes(c[i], NoLengths) <= Bytes(c[i], d)
  <2> SUFFICES ASSUME NEW i \in 1 .. n, i + 1 <= n
               PROVE  /\ i + 1 \in 1 .. n /\ (i + 1) - 1 = i
                      /\ Bytes(c[i], d) \in Nat
                      /\ Bytes(c[i], NoLengths) \in Nat
                      /\ Bytes(c[i], NoLengths) <= Bytes(c[i], d)
    OBVIOUS
  <2>1. c[i] \in Instrs
    OBVIOUS
  <2>2. Bytes(c[i], d) \in Nat /\ Bytes(c[i], NoLengths) \in Nat
    BY <1>2, <2>1, BytesNat
  <2>3. c[i].f \in Fields /\ d[c[i].f] \in Nat
    BY <2>1 DEF Instrs
  <2>4. Bytes(c[i], NoLengths) <= Bytes(c[i], d)
    BY <2>2, <2>3 DEF Bytes, NoLengths
  <2> QED
    BY <2>2, <2>4
<1>6. \A i \in 1 .. n : e[i] \in Nat /\ z[i] \in Nat
  BY <1>2, ExtentNat
<1> HIDE DEF e, z, n
<1>7. 1 <= n => 1 \in S
  BY <1>1, <1>3, <1>4
<1>8. \A i \in 1 .. n : i + 1 <= n /\ i \in S => i + 1 \in S
  <2> SUFFICES ASSUME NEW i \in 1 .. n, i + 1 <= n, z[i] <= e[i]
               PROVE  z[i + 1] <= e[i + 1] /\ i + 1 \in 1 .. n
    OBVIOUS
  <2>1. e[i + 1] = e[i] + Bytes(c[i], d) /\ z[i + 1] = z[i] + Bytes(c[i], NoLengths)
    BY <1>3, <1>4, <1>5
  <2> QED
    BY <1>5, <1>6, <2>1
<1> HIDE DEF S
<1>9. 1 .. n \subseteq S
  BY <1>1, <1>7, <1>8, Induct
<1>10. k \in S
  BY <1>1, <1>9
<1> QED
  BY <1>10 DEF S, e, z, Fixed
-----------------------------------------------------------------------------
(* What a read does to the cursor and to the records of what was read.       *)

\* Cutting a value to usize never makes it longer.
LEMMA UsizeCuts == ASSUME NEW v \in Nat PROVE Usize(v) <= v
<1>1. CASE v <= UsizeMax
  BY <1>1, UsizeFits, Sizes
<1>2. CASE v > UsizeMax
  BY <1>2, UsizeRange, Sizes
<1> QED
  BY <1>1, <1>2, Sizes

LEMMA WidthBytes ==
  ASSUME TypeOK, ip <= Len(Code[fn]), Instr.op \notin Still \cup {"rest"}
  PROVE  /\ Width \in Nat /\ Bytes(Instr, declared) \in Nat
         /\ Width <= Bytes(Instr, declared)
         /\ Instr.op \in Takes => Width <= UsizeMax /\ Bytes(Instr, declared) = declared[Instr.f]
         /\ Instr.op \notin Takes => Width = Instr.n
         /\ Instr.op \notin Takes \/ declared[Instr.f] <= UsizeMax =>
              Width = Bytes(Instr, declared)
<1>1. declared[Instr.f] \in Nat /\ Instr.n \in Nat
  BY InstrShape, Sizes DEF TypeOK
<1>2. CASE Instr.op \in Takes
  <2>1. Width = Usize(declared[Instr.f]) /\ Bytes(Instr, declared) = declared[Instr.f]
    BY <1>2 DEF Width, Bytes
  <2>2. Usize(declared[Instr.f]) \in 0 .. UsizeMax /\ Usize(declared[Instr.f]) <= declared[Instr.f]
    BY <1>1, UsizeRange, UsizeCuts
  <2>3. declared[Instr.f] <= UsizeMax => Usize(declared[Instr.f]) = declared[Instr.f]
    BY <1>1, UsizeFits, Sizes
  <2> QED
    BY <1>1, <1>2, <2>1, <2>2, <2>3, Sizes
<1>3. CASE Instr.op \notin Takes
  BY <1>1, <1>3 DEF Width, Bytes
<1> QED
  BY <1>2, <1>3

\* An end that is not behind the cursor did not wrap.
LEMMA Unwrapped ==
  ASSUME TypeOK, CursorBound, ip <= Len(Code[fn]), Instr.op \notin Still \cup {"rest"},
         Instr.op \notin Takes \/ pos <= Sum
  PROVE  Sum = pos + Width /\ pos + Width <= UsizeMax
<1>1. CASE Instr.op \notin Takes
  <2>1. Width = Instr.n
    BY <1>1, WidthBytes
  <2> QED
    BY <2>1, PlainFits, UsizeFits DEF Sum
<1>2. CASE Instr.op \in Takes
  <2>1. /\ pos \in 0 .. UsizeMax /\ Width \in 0 .. UsizeMax /\ UsizeMax \in Nat
        /\ pos <= Sum
    BY <1>2, WidthBytes, Sizes DEF TypeOK
  <2>2. CASE pos + Width <= UsizeMax
    BY <2>1, <2>2, UsizeFits DEF Sum
  <2>3. CASE pos + Width > UsizeMax
    <3>1. \A a, m \in Nat : 0 < m /\ m <= a /\ a < m + m => a % m = a - m
      OBVIOUS
    <3>2. (pos + Width) % (UsizeMax + 1) = pos + Width - (UsizeMax + 1)
      BY <2>1, <2>3, <3>1
    <3> QED
      BY <2>1, <3>2 DEF Sum, Usize
  <2> QED
    BY <2>1, <2>2, <2>3
<1> QED
  BY <1>1, <1>2
\* A read that goes through moves the cursor by its own width.
LEMMA MovedCursor ==
  ASSUME TypeOK, CursorBound, [Next]_vars, ip' # ip
  PROVE  /\ Steps
         /\ Instr.op \in Still => pos' = pos
         /\ Instr.op = "rest" => pos <= len /\ pos' = len
         /\ Instr.op \notin Still \cup {"rest"} => pos' = pos + Width
         /\ Instr.op \in Takes => pos' <= len
         /\ Instr.op = "need" => Instr.n <= len
<1>1. Steps
  BY StepShapes DEF Returns, BoundedStep, LooseStep, StillStep
<1>2. ip <= Len(Code[fn]) /\ pos \in Nat /\ len \in Nat
  BY <1>1, SumShape DEF Steps
<1>3. CASE Need
  <2>1. Instr.op = "need"
    BY <1>3 DEF Need, At
  <2>2. Instr.n <= len /\ pos' = pos
    BY <1>2, <1>3, InstrShape, Sizes DEF Need, Return, Moves
  <2> QED
    BY <1>1, <2>1, <2>2 DEF Still, Takes
<1>4. CASE Check \/ Mark \/ Region
  <2>1. Instr.op \in {"check", "mark", "region"} /\ pos' = pos
    BY <1>4 DEF Check, Mark, Region, At, Return, Moves
  <2> QED
    BY <1>1, <2>1 DEF Still, Takes
<1>5. CASE Index \/ Word \/ LenWord \/ WordOrErr \/ LenOrErr
  <2>1. Instr.op \in {"index", "word", "len32", "wordE", "len64"}
    BY <1>5 DEF Index, Word, LenWord, WordOrErr, LenOrErr, At
  <2>2. pos' = Sum
    BY <1>5 DEF Index, Word, LenWord, WordOrErr, LenOrErr, Return, Moves
  <2>3. Instr.op \notin Still \cup {"rest", "need"} \cup Takes
    BY <2>1 DEF Still, Takes
  <2>4. Sum = pos + Width
    BY <1>2, <2>3, Unwrapped
  <2> QED
    BY <1>1, <2>2, <2>3, <2>4
<1>6. CASE Skip
  <2>1. Instr.op = "skip"
    BY <1>6 DEF Skip, At
  <2>2. Instr.op \notin Still \cup {"rest", "need"} \cup Takes
    BY <2>1 DEF Still, Takes
  <2>3. pos + Width <= UsizeMax
    BY <1>2, <2>2, Unwrapped
  <2>4. pos' = pos + Width
    BY <1>2, <1>6, <2>3, SumShape, Sizes DEF Skip, Moves
  <2> QED
    BY <1>1, <2>2, <2>4
<1>7. CASE Take
  <2>1. Instr.op = "take" /\ Gets(Sum) /\ pos' = Sum
    BY <1>7 DEF Take, At, Return, Moves
  <2>2. Instr.op \notin Still \cup {"rest", "need"}
    BY <2>1 DEF Still
  <2>3. Sum = pos + Width
    BY <1>2, <2>1, <2>2, Unwrapped DEF Gets
  <2> QED
    BY <1>1, <2>1, <2>2, <2>3 DEF Gets
<1>8. CASE CheckedTake
  <2>1. Instr.op = "ctake" /\ Gets(pos + Width) /\ pos' = pos + Width
    BY <1>8 DEF CheckedTake, At, Return, Moves
  <2> QED
    BY <1>1, <2>1 DEF Gets, Still
<1>9. CASE Advance
  <2>1. Instr.op = "adv" /\ pos' = pos + Width
    BY <1>9 DEF Advance, At, Return, Moves
  <2> QED
    BY <1>1, <2>1 DEF Still, Takes
<1>10. CASE Rest
  <2>1. Instr.op = "rest" /\ pos <= len /\ pos' = len
    BY <1>2, <1>10 DEF Rest, At, Return, Moves
  <2> QED
    BY <1>1, <2>1 DEF Still, Takes
<1>11. CASE Overflow \/ Finish \/ Returned \/ UNCHANGED vars
  BY <1>11 DEF Overflow, Finish, Returned, Return, vars
<1> QED
  BY <1>3, <1>4, <1>5, <1>6, <1>7, <1>8, <1>9, <1>10, <1>11 DEF Next

LengthOps == {"len32", "len64"}
\* Reads whose bytes are kept as they are passed.
Keeping == {"index", "word", "wordE", "take", "ctake", "mark"}

\* ... and touches no record but that of its own field.
LEMMA MovedRecords ==
  ASSUME TypeOK, [Next]_vars, ip' # ip
  PROVE  /\ \A g \in Fields : g # Instr.f => span'[g] = span[g] /\ declared'[g] = declared[g]
         /\ Instr.op \notin LengthOps => declared' = declared
         /\ Instr.op \in LengthOps =>
              span' = span /\ declared'[Instr.f] \in U32s \cup {0} \cup U64s
         /\ Instr.op = "len32" => declared'[Instr.f] \in U32s \cup {0}
         /\ Instr.op \in Keeping => span'[Instr.f] = <<pos, pos'>>
         /\ Instr.op \in {"need", "check", "skip", "adv"} => span' = span
         /\ Instr.op = "region" =>
              /\ span[Instr.f][2] <= len
              /\ span'[Instr.f] = <<Instr.n, span[Instr.f][2]>>
<1>1. ip <= Len(Code[fn]) /\ Instr.f \in Fields
  BY InstrShape, StepShapes DEF Returns, BoundedStep, LooseStep, StillStep, Steps
<1>2. declared \in [Fields -> Nat] /\ span \in [Fields -> Nat \X Nat]
  BY DEF TypeOK
<1>3. CASE Need \/ Check \/ Skip \/ Advance
  <2>1. Instr.op \in {"need", "check", "skip", "adv"} /\ UNCHANGED <<declared, span>>
    BY <1>3 DEF Need, Check, Skip, Advance, At, Return, Moves
  <2> QED
    BY <2>1 DEF LengthOps, Keeping
<1>4. CASE Index \/ Word \/ WordOrErr
  <2>1. Instr.op \in {"index", "word", "wordE"} /\ declared' = declared
        /\ Keeps(Sum) /\ pos' = Sum
    BY <1>4 DEF Index, Word, WordOrErr, At, Return, Moves
  <2> QED
    BY <1>1, <1>2, <2>1 DEF LengthOps, Keeping, Keeps
<1>5. CASE LenWord \/ LenOrErr
  <2>1. Instr.op \in LengthOps /\ span' = span
    BY <1>5 DEF LenWord, LenOrErr, At, Return, Moves, LengthOps
  <2>2. \E v \in U32s \cup {0} \cup U64s : declared' = [declared EXCEPT ![Instr.f] = v]
    BY <1>5 DEF LenWord, LenOrErr, Return
  <2>3. Instr.op = "len32" => \E v \in U32s \cup {0} : declared' = [declared EXCEPT ![Instr.f] = v]
    BY <1>5 DEF LenWord, LenOrErr, At, Return
  <2> QED
    BY <1>1, <1>2, <2>1, <2>2, <2>3 DEF LengthOps, Keeping
<1>6. CASE Take \/ CheckedTake
  <2>1. Instr.op \in {"take", "ctake"} /\ declared' = declared /\ Keeps(pos')
    BY <1>6 DEF Take, CheckedTake, At, Return, Moves, Keeps
  <2> QED
    BY <1>1, <1>2, <2>1 DEF LengthOps, Keeping, Keeps
<1>7. CASE Mark
  <2>1. Instr.op = "mark" /\ declared' = declared /\ Keeps(pos) /\ pos' = pos
    BY <1>7 DEF Mark, At, Moves
  <2> QED
    BY <1>1, <1>2, <2>1 DEF LengthOps, Keeping, Keeps
<1>8. CASE Region
  <2>1. /\ Instr.op = "region" /\ declared' = declared
        /\ span[Instr.f][2] <= len
        /\ span' = [span EXCEPT ![Instr.f] = <<Instr.n, span[Instr.f][2]>>]
    BY <1>8 DEF Region, At, Return
  <2> QED
    BY <1>1, <1>2, <2>1 DEF LengthOps, Keeping
<1>9. CASE Rest
  <2>1. Instr.op = "rest" /\ declared' = declared /\ Keeps(len)
    BY <1>9 DEF Rest, At, Return
  <2> QED
    BY <1>1, <1>2, <2>1 DEF LengthOps, Keeping, Keeps
<1>10. CASE Overflow \/ Finish \/ Returned \/ UNCHANGED vars
  BY <1>10 DEF Overflow, Finish, Returned, Return, vars
<1> QED
  BY <1>3, <1>4, <1>5, <1>6, <1>7, <1>8, <1>9, <1>10 DEF Next

\* A step that does not move to the next read changes nothing but the outcome.
LEMMA Stopped ==
  ASSUME TypeOK, [Next]_vars, ip' = ip
  PROVE  UNCHANGED <<fn, len, ip, pos, declared, span>>
<1>1. ip \in Nat
  BY CodeShape DEF TypeOK
<1>2. fn' = fn /\ len' = len /\ pos' = pos
  BY <1>1, StepShapes DEF Returns, BoundedStep, LooseStep, StillStep, Steps
<1>3. \A e : ~Moves(e)
  BY <1>1 DEF Moves
<1>4. declared' = declared /\ span' = span
  <2>1. CASE Overflow \/ Need \/ Check \/ Index \/ Skip \/ Word
    BY <1>3, <2>1 DEF Overflow, Need, Check, Index, Skip, Word, Return
  <2>2. CASE LenWord \/ WordOrErr \/ LenOrErr \/ Take \/ CheckedTake \/ Advance
    BY <1>3, <2>2 DEF LenWord, WordOrErr, LenOrErr, Take, CheckedTake, Advance, Return
  <2>3. CASE Mark \/ Region \/ Rest \/ Finish \/ Returned \/ UNCHANGED vars
    BY <1>3, <2>3 DEF Mark, Region, Rest, Finish, Returned, Return, vars
  <2> QED
    BY <2>1, <2>2, <2>3 DEF Next
<1> QED
  BY <1>2, <1>4
-----------------------------------------------------------------------------
(* Exact refusals, whole fields and no panic.  The inductive invariant ties  *)
(* the cursor to the layout the length words read so far describe: never     *)
(* past the start of the next read; never before it where every length word  *)
(* fits in usize; and never before the part of the layout that is fixed.     *)

\* No u64 length word is cut: the target is 64 bits wide, or the lengths small.
Fits == U64s \subseteq 0 .. UsizeMax
\* ... or the parser at hand reads no such word.
ReadsNoU64(f) == \A i \in DOMAIN Code[f] : Code[f][i].op # "len64"
Uncut == Fits \/ ReadsNoU64(fn)
\* A release build, or a parser that adds lengths with checked_add only.
AddsChecked(f) == \A i \in DOMAIN Code[f] : Code[f][i].op # "take"
Untrapped == OverflowChecks => AddsChecked(fn)

AtMost == ip <= Len(Code[fn]) => pos <= Extent(Code[fn], declared)[ip]
AtLeast == Uncut => Extent(Code[fn], declared)[ip] <= pos
PastFixed == Fixed(Code[fn])[ip] <= pos
\* A size check that is behind the cursor was passed.
HeaderThere == \A j \in 1 .. ip - 1 : Code[fn][j].op = "need" => Code[fn][j].n <= len
\* Where a region will end, or ended: inside the buffer, and once it is noted
\* not before the start of the region.
MarkedFor(i) == \E j \in 1 .. ip - 1 : /\ Code[fn][j].op = "mark"
                                      /\ Code[fn][j].f = Code[fn][i].f
Marked == \A i \in DOMAIN Code[fn] : Code[fn][i].op = "region" =>
            /\ span[Code[fn][i].f][2] <= len
            /\ MarkedFor(i) => Code[fn][i].n <= span[Code[fn][i].f][2]
Narrow == Uncut => \A f \in Fields : declared[f] <= UsizeMax
TakenWhole ==
  Uncut => \A i \in 1 .. ip - 1 : Code[fn][i].op \in Takes =>
            /\ span[Code[fn][i].f][1] + declared[Code[fn][i].f] = span[Code[fn][i].f][2]
            /\ span[Code[fn][i].f][2] <= len
RefusedShort == outcome \in {"tooShort", "overflow"} => Needed > len
NeverPanics == Untrapped => NoPanic

Cursor == AtMost /\ AtLeast /\ PastFixed
Records == HeaderThere /\ Marked /\ Narrow /\ TakenWhole
Layout == Cursor /\ Records /\ RefusedShort /\ NeverPanics

\* The layout at the cursor and one read further on.
LEMMA LayoutShape ==
  ASSUME TypeOK
  PROVE  /\ Code[fn] \in Seq(Instrs) /\ Len(Code[fn]) \in Nat
         /\ ip \in 1 .. Len(Code[fn]) + 1 /\ pos \in Nat /\ len \in Nat
         /\ declared \in [Fields -> Nat] /\ NoLengths \in [Fields -> Nat]
         /\ \A i \in 1 .. Len(Code[fn]) + 1 :
              /\ Extent(Code[fn], declared)[i] \in Nat
              /\ Fixed(Code[fn])[i] \in Nat
              /\ Fixed(Code[fn])[i] <= Extent(Code[fn], declared)[i]
              /\ Extent(Code[fn], declared)[i] <= Needed
<1>1. Code[fn] \in Seq(Instrs) /\ Len(Code[fn]) \in Nat
  BY CodeShape DEF TypeOK
<1>2. declared \in [Fields -> Nat] /\ NoLengths \in [Fields -> Nat]
  BY DEF TypeOK, NoLengths
<1>3. pos \in Nat /\ len \in Nat
  BY Sizes DEF TypeOK
<1>4. ASSUME NEW i \in 1 .. Len(Code[fn]) + 1
      PROVE  /\ Extent(Code[fn], declared)[i] \in Nat
             /\ Fixed(Code[fn])[i] \in Nat
             /\ Fixed(Code[fn])[i] <= Extent(Code[fn], declared)[i]
             /\ Extent(Code[fn], declared)[i] <= Needed
  <2>1. Extent(Code[fn], declared)[i] \in Nat
    BY <1>1, <1>2, ExtentNat
  <2>2. Fixed(Code[fn])[i] \in Nat
    BY <1>1, <1>2, ExtentNat DEF Fixed
  <2>3. Fixed(Code[fn])[i] <= Extent(Code[fn], declared)[i]
    BY <1>1, <1>2, FixedLeast
  <2>4. Extent(Code[fn], declared)[i] <= Needed
    <3>1. Len(Code[fn]) + 1 \in 1 .. Len(Code[fn]) + 1 /\ i <= Len(Code[fn]) + 1
      BY <1>1
    <3> QED
      BY <1>1, <1>2, <3>1, ExtentGrows DEF Needed
  <2> QED
    BY <2>1, <2>2, <2>3, <2>4
<1> QED
  BY <1>1, <1>2, <1>3, <1>4 DEF TypeOK

LEMMA ExtentNext ==
  ASSUME TypeOK, ip <= Len(Code[fn])
  PROVE  /\ Extent(Code[fn], declared)[ip + 1]
              = Extent(Code[fn], declared)[ip] + Bytes(Instr, declared)
         /\ Fixed(Code[fn])[ip + 1] = Fixed(Code[fn])[ip] + Bytes(Instr, NoLengths)
         /\ Bytes(Instr, declared) \in Nat /\ Bytes(Instr, NoLengths) \in Nat
         /\ Bytes(Instr, NoLengths) <= Bytes(Instr, declared)
<1>1. /\ Code[fn] \in Seq(Instrs) /\ Len(Code[fn]) \in Nat
      /\ ip \in 1 .. Len(Code[fn]) + 1
      /\ declared \in [Fields -> Nat] /\ NoLengths \in [Fields -> Nat]
  BY LayoutShape
<1>2. ip + 1 \in 1 .. Len(Code[fn]) + 1 /\ (ip + 1) - 1 = ip /\ ip + 1 # 1
  BY <1>1
<1>3. \A i \in 1 .. Len(Code[fn]) + 1 : Extent(Code[fn], declared)[i] =
        IF i = 1 THEN 0
                 ELSE Extent(Code[fn], declared)[i - 1] + Bytes(Code[fn][i - 1], declared)
  BY <1>1, ExtentUnfolds
<1>4. \A i \in 1 .. Len(Code[fn]) + 1 : Fixed(Code[fn])[i] =
        IF i = 1 THEN 0
                 ELSE Fixed(Code[fn])[i - 1] + Bytes(Code[fn][i - 1], NoLengths)
  BY <1>1, ExtentUnfolds DEF Fixed
<1>5. Bytes(Instr, declared) \in Nat /\ Bytes(Instr, NoLengths) \in Nat
  BY <1>1, InstrShape, BytesNat
<1>6. Bytes(Instr, NoLengths) <= Bytes(Instr, declared)
  <2>1. Instr.f \in Fields /\ declared[Instr.f] \in Nat /\ Instr.n \in Nat
    BY <1>1, InstrShape, Sizes
  <2> QED
    BY <2>1 DEF Bytes, NoLengths
<1> QED
  BY <1>2, <1>3, <1>4, <1>5, <1>6 DEF Instr

\* Reading a length word does not move what was read before it.
LEMMA ExtentKept ==
  ASSUME TypeOK, [Next]_vars, ip' # ip
  PROVE  \A k \in 1 .. ip + 1 :
           Extent(Code[fn], declared')[k] = Extent(Code[fn], declared)[k]
<1>1. /\ Code[fn] \in Seq(Instrs) /\ Len(Code[fn]) \in Nat
      /\ ip \in 1 .. Len(Code[fn]) + 1
      /\ declared \in [Fields -> Nat]
  BY LayoutShape
<1>2. declared' \in [Fields -> Nat]
  BY RecordsTyped
<1>3. ip <= Len(Code[fn])
  BY StepShapes DEF Returns, BoundedStep, LooseStep, StillStep, Steps
<1>4. CASE Instr.op \notin LengthOps
  BY <1>4, MovedRecords
<1>5. CASE Instr.op \in LengthOps
  <2>1. \A i \in 1 .. ip : Code[fn][i].op \in Takes =>
          declared[Code[fn][i].f] = declared'[Code[fn][i].f]
    <3> SUFFICES ASSUME NEW i \in 1 .. ip, Code[fn][i].op \in Takes
                 PROVE  declared[Code[fn][i].f] = declared'[Code[fn][i].f]
      OBVIOUS
    <3>1. i \in DOMAIN Code[fn] /\ ip \in DOMAIN Code[fn] /\ fn \in Fns
      BY <1>1, <1>3 DEF TypeOK
    <3>2. Code[fn][i].f # Instr.f
      BY <1>1, <1>5, <3>1, TakenOnce DEF Instr, LengthOps, Takes
    <3>3. Code[fn][i] \in Instrs
      BY <1>1, <3>1
    <3>4. Code[fn][i].f \in Fields
      BY <3>3 DEF Instrs
    <3> QED
      BY <3>2, <3>4, MovedRecords
  <2> SUFFICES ASSUME NEW k \in 1 .. ip + 1
               PROVE  Extent(Code[fn], declared)[k] = Extent(Code[fn], declared')[k]
    OBVIOUS
  <2>2. k \in 1 .. Len(Code[fn]) + 1 /\ \A i \in 1 .. k - 1 : i \in 1 .. ip
    BY <1>1, <1>3
  <2>3. \A i \in 1 .. k - 1 : Code[fn][i].op \in Takes =>
          declared[Code[fn][i].f] = declared'[Code[fn][i].f]
    BY <2>1, <2>2
  <2> QED
    BY <1>1, <1>2, <2>2, <2>3, ExtentDepends
<1> QED
  BY <1>4, <1>5
LEMMA StepCursor ==
  ASSUME Inv, Layout, [Next]_vars, ip' # ip
  PROVE  Cursor'
<1> USE DEF Inv, Layout, Cursor
<1>1. Steps /\ ip <= Len(Code[fn]) /\ ip' = ip + 1 /\ fn' = fn
  BY MovedCursor DEF Steps
<1>2. /\ pos \in Nat /\ len \in Nat /\ ip \in 1 .. Len(Code[fn]) + 1
      /\ Code[fn] \in Seq(Instrs) /\ Len(Code[fn]) \in Nat
      /\ Extent(Code[fn], declared)[ip] \in Nat /\ Fixed(Code[fn])[ip] \in Nat
  BY LayoutShape
<1> DEFINE bytes == Bytes(Instr, declared)
           fixed == Bytes(Instr, NoLengths)
<1>3. /\ Extent(Code[fn], declared)[ip + 1] = Extent(Code[fn], declared)[ip] + bytes
      /\ Fixed(Code[fn])[ip + 1] = Fixed(Code[fn])[ip] + fixed
      /\ bytes \in Nat /\ fixed \in Nat
  BY <1>1, ExtentNext
<1>4. Extent(Code[fn], declared')[ip + 1] = Extent(Code[fn], declared)[ip + 1]
  BY <1>1, <1>2, ExtentKept
<1>5. /\ pos <= Extent(Code[fn], declared)[ip]
      /\ Uncut => Extent(Code[fn], declared)[ip] <= pos
      /\ Fixed(Code[fn])[ip] <= pos
  BY <1>1 DEF AtMost, AtLeast, PastFixed
<1>6. /\ ip + 1 <= Len(Code[fn]) => pos' <= Extent(Code[fn], declared)[ip] + bytes
      /\ Uncut => Extent(Code[fn], declared)[ip] + bytes <= pos'
      /\ Fixed(Code[fn])[ip] + fixed <= pos'
  <2>1. CASE Instr.op \in Still
    <3>1. bytes = 0 /\ fixed = 0
      BY <2>1 DEF Bytes, Still, Takes
    <3>2. pos' = pos
      BY <2>1, MovedCursor
    <3> HIDE DEF bytes, fixed
    <3> QED
      BY <1>2, <1>5, <3>1, <3>2
  <2>2. CASE Instr.op = "rest"
    <3>1. bytes = 0 /\ fixed = 0
      BY <2>2 DEF Bytes, Still, Takes
    <3>2. pos <= len /\ pos' = len
      BY <2>2, MovedCursor
    <3>3. ip = Len(Code[fn])
      BY <1>1, <1>2, <2>2, EndsChecked DEF TypeOK, Instr
    <3> HIDE DEF bytes, fixed
    <3> QED
      BY <1>2, <1>5, <3>1, <3>2, <3>3
  <2>3. CASE Instr.op \notin Still \cup {"rest"}
    <3>1. pos' = pos + Width
      BY <2>3, MovedCursor
    <3>2. Width \in Nat /\ Width <= bytes
      BY <1>1, <2>3, WidthBytes
    <3>3. Uncut => Width = bytes
      <4>1. Uncut => declared[Instr.f] <= UsizeMax
        BY <1>1, InstrShape DEF Records, Narrow
      <4> QED
        BY <1>1, <2>3, <4>1, WidthBytes
    <3>4. fixed <= Width
      <4>1. CASE Instr.op \in Takes
        BY <1>1, <3>2, <4>1, InstrShape DEF Bytes, NoLengths
      <4>2. CASE Instr.op \notin Takes
        BY <1>1, <2>3, <4>2, WidthBytes, <1>3, <3>2 DEF Bytes
      <4> QED
        BY <4>1, <4>2
    <3> HIDE DEF bytes, fixed
    <3> QED
      BY <1>2, <1>3, <1>5, <3>1, <3>2, <3>3, <3>4
  <2> QED
    BY <2>1, <2>2, <2>3
<1> QED
  BY <1>1, <1>3, <1>4, <1>6 DEF AtMost, AtLeast, PastFixed, Uncut, ReadsNoU64

LEMMA StepRecords ==
  ASSUME Inv, Layout, [Next]_vars, ip' # ip
  PROVE  Records'
<1> USE DEF Inv, Layout, Cursor, Records
<1>1. ip <= Len(Code[fn]) /\ ip' = ip + 1 /\ fn' = fn /\ len' = len
  BY MovedCursor DEF Steps
<1>2. /\ pos \in Nat /\ len \in Nat /\ ip \in 1 .. Len(Code[fn])
      /\ Code[fn] \in Seq(Instrs) /\ Len(Code[fn]) \in Nat
      /\ DOMAIN Code[fn] = 1 .. Len(Code[fn]) /\ fn \in Fns
  BY <1>1, LayoutShape DEF TypeOK
<1>3. \A j \in 1 .. ip' - 1 : j \in 1 .. ip - 1 \/ j = ip
  BY <1>1, <1>2
<1>4. \A i \in 1 .. Len(Code[fn]) : Code[fn][i].f \in Fields
  <2>1. \A i \in 1 .. Len(Code[fn]) : Code[fn][i] \in Instrs
    BY <1>2
  <2> QED
    BY <2>1 DEF Instrs
<1>5. HeaderThere'
  BY <1>1, <1>3, MovedCursor DEF HeaderThere, Instr
<1>6. Narrow'
  <2> SUFFICES ASSUME Uncut, NEW g \in Fields PROVE declared'[g] <= UsizeMax
    BY <1>1 DEF Narrow, Uncut, ReadsNoU64
  <2>1. declared[g] <= UsizeMax
    BY DEF Narrow
  <2>2. U32s \cup {0} \subseteq 0 .. UsizeMax /\ (Fits => U64s \subseteq 0 .. UsizeMax)
    BY Sizes DEF Fits
  <2>3. Instr.op \in LengthOps => Instr.op = "len32" \/ Fits
    BY <1>2 DEF Uncut, ReadsNoU64, Instr, LengthOps
  <2> QED
    BY <2>1, <2>2, <2>3, MovedRecords
<1>7. TakenWhole'
  <2> SUFFICES ASSUME Uncut, NEW i \in 1 .. ip' - 1, Code[fn][i].op \in Takes
               PROVE  /\ span'[Code[fn][i].f][1] + declared'[Code[fn][i].f]
                           = span'[Code[fn][i].f][2]
                      /\ span'[Code[fn][i].f][2] <= len
    BY <1>1 DEF TakenWhole, Uncut, ReadsNoU64
  <2>1. CASE i = ip
    <3>1. Instr.op \in Takes /\ Instr = Code[fn][i]
      BY <2>1 DEF Instr
    <3>2. Instr.op \notin Still \cup {"rest"} \cup LengthOps
      BY <3>1 DEF Still, Takes, LengthOps
    <3>3. pos' = pos + Width /\ pos' <= len
      BY <3>1, <3>2, MovedCursor
    <3>4. Width = declared[Instr.f] /\ declared' = declared /\ span'[Instr.f] = <<pos, pos'>>
      <4>1. declared[Instr.f] <= UsizeMax
        BY <1>1, InstrShape DEF Narrow
      <4> QED
        BY <1>1, <3>1, <3>2, <4>1, WidthBytes, MovedRecords DEF Takes, Keeping
    <3> QED
      BY <3>1, <3>3, <3>4
  <2>2. CASE i \in 1 .. ip - 1
    <3>1. i \in DOMAIN Code[fn] /\ ip \in DOMAIN Code[fn] /\ i < ip
      BY <1>2, <2>2
    <3>2. Code[fn][ip].f # Code[fn][i].f
      BY <1>2, <3>1, TakenOnce
    <3>3. span'[Code[fn][i].f] = span[Code[fn][i].f]
          /\ declared'[Code[fn][i].f] = declared[Code[fn][i].f]
      BY <1>2, <1>4, <3>1, <3>2, MovedRecords DEF Instr
    <3> QED
      BY <2>2, <3>3 DEF TakenWhole
  <2> QED
    BY <1>3, <2>1, <2>2
<1>8. Marked'
  <2> SUFFICES ASSUME NEW i \in DOMAIN Code[fn], Code[fn][i].op = "region"
               PROVE  /\ span'[Code[fn][i].f][2] <= len
                      /\ MarkedFor(i)' => Code[fn][i].n <= span'[Code[fn][i].f][2]
    BY <1>1 DEF Marked
  <2>1. /\ span[Code[fn][i].f][2] <= len
        /\ MarkedFor(i) => Code[fn][i].n <= span[Code[fn][i].f][2]
    BY DEF Marked
  <2>2. MarkedFor(i)' => MarkedFor(i) \/ (Instr.op = "mark" /\ Instr.f = Code[fn][i].f)
    BY <1>1, <1>3 DEF MarkedFor, Instr
  <2>3. CASE Instr.f # Code[fn][i].f
    <3>1. span'[Code[fn][i].f] = span[Code[fn][i].f]
      BY <1>2, <1>4, <2>3, MovedRecords
    <3> QED
      BY <2>1, <2>2, <2>3, <3>1
  <2>4. CASE Instr.f = Code[fn][i].f /\ Instr.op = "region"
    <3>1. span'[Code[fn][i].f][2] = span[Code[fn][i].f][2]
      BY <2>4, MovedRecords
    <3> QED
      BY <2>1, <2>2, <2>4, <3>1
  <2>5. CASE Instr.f = Code[fn][i].f /\ Instr.op = "mark"
    <3>1. BoundsAt(Code[fn], ip) /\ Code[fn][i].n <= Fixed(Code[fn])[ip]
      BY <1>2, <2>5, EndsChecked DEF Instr
    <3>2. pos <= len
      BY <1>2, <2>5, <3>1 DEF Settled, BoundsAt, Instr, Bounding
    <3>3. span'[Code[fn][i].f][2] = pos
      <4>1. pos' = pos
        BY <2>5, MovedCursor DEF Still
      <4> QED
        BY <2>5, <4>1, MovedRecords DEF Keeping
    <3>4. Code[fn][i].n <= pos
      <4>1. Code[fn][i] \in Instrs
        BY <1>2
      <4>2. Code[fn][i].n \in Nat
        BY <4>1, Sizes DEF Instrs
      <4>3. Fixed(Code[fn])[ip] \in Nat
        BY <1>2, LayoutShape
      <4> QED
        BY <1>2, <3>1, <4>2, <4>3 DEF PastFixed
    <3> QED
      BY <3>2, <3>3, <3>4
  <2>6. Instr.f = Code[fn][i].f => Instr.op \in {"region", "mark"}
    BY <1>2, EndsChecked DEF Instr
  <2> QED
    BY <2>3, <2>4, <2>5, <2>6
<1> QED
  BY <1>5, <1>6, <1>7, <1>8
\* A read that asks for more than the buffer holds shows the layout to.
LEMMA ShortBy ==
  ASSUME Inv, Layout, ip <= Len(Code[fn]), Instr.op \notin Still \cup {"rest"},
         pos + Width > len
  PROVE  Needed > len
<1>1. TypeOK /\ pos <= Extent(Code[fn], declared)[ip]
  BY DEF Inv, Layout, Cursor, AtMost
<1>2. /\ pos \in Nat /\ len \in Nat
      /\ Extent(Code[fn], declared)[ip] \in Nat
      /\ Needed \in Nat
      /\ Extent(Code[fn], declared)[ip + 1] <= Needed
  <2>1. ip \in 1 .. Len(Code[fn]) + 1 /\ ip + 1 \in 1 .. Len(Code[fn]) + 1
        /\ Len(Code[fn]) + 1 \in 1 .. Len(Code[fn]) + 1
    BY <1>1, LayoutShape
  <2> QED
    BY <1>1, <2>1, LayoutShape DEF Needed
<1>3. /\ Extent(Code[fn], declared)[ip + 1]
           = Extent(Code[fn], declared)[ip] + Bytes(Instr, declared)
      /\ Bytes(Instr, declared) \in Nat
  BY <1>1, ExtentNext
<1>4. Width \in Nat /\ Width <= Bytes(Instr, declared)
  BY <1>1, WidthBytes
<1> QED
  BY <1>1, <1>2, <1>3, <1>4

LEMMA Refuses ==
  ASSUME Inv, Layout, [Next]_vars, outcome' \in {"tooShort", "overflow"},
         outcome' # outcome
  PROVE  Needed > len
<1>1. TypeOK /\ CursorBound /\ len \in Nat /\ pos \in Nat /\ UsizeMax \in Nat /\ len <= UsizeMax
  BY Sizes DEF Inv, TypeOK
<1>2. ASSUME ip <= Len(Code[fn]), Instr.op \notin Still \cup {"rest"}, ~Gets(Sum)
      PROVE  Needed > len
  <2>1. Width \in Nat
    BY <1>1, <1>2, WidthBytes
  <2>2. pos + Width > len
    <3>1. CASE pos + Width <= UsizeMax
      <4>1. Sum = pos + Width
        BY <1>1, <2>1, <3>1, UsizeFits DEF Sum
      <4> QED
        BY <1>1, <1>2, <2>1, <4>1 DEF Gets
    <3>2. CASE pos + Width > UsizeMax
      BY <1>1, <2>1, <3>2
    <3> QED
      BY <1>1, <2>1, <3>1, <3>2
  <2> QED
    BY <1>2, <2>2, ShortBy
<1>3. CASE Overflow
  <2>1. /\ ip <= Len(Code[fn]) /\ pos + Width > UsizeMax
        /\ Instr.op \notin Still \cup {"rest"}
    BY <1>3 DEF Overflow, At, Traps, PlainAdds, Still
  <2>2. Width \in Nat
    BY <1>1, <2>1, WidthBytes
  <2> QED
    BY <1>1, <2>1, <2>2, ShortBy
<1>4. CASE Need
  <2>1. Instr.op = "need" /\ ip <= Len(Code[fn]) /\ len < Instr.n
    BY <1>4 DEF Need, At, Moves
  <2>2. /\ ip \in DOMAIN Code[fn] /\ fn \in Fns
        /\ Len(Code[fn]) + 1 \in 1 .. Len(Code[fn]) + 1
    BY <1>1, <2>1, LayoutShape DEF TypeOK
  <2>3. Instr.n <= Fixed(Code[fn])[Len(Code[fn]) + 1]
    BY <2>1, <2>2, SizesChecked DEF Instr
  <2>4. /\ Fixed(Code[fn])[Len(Code[fn]) + 1] <= Needed
        /\ Fixed(Code[fn])[Len(Code[fn]) + 1] \in Nat /\ Needed \in Nat
    BY <1>1, <2>2, LayoutShape DEF Needed
  <2>5. Instr.n \in Nat
    BY <1>1, <2>1, InstrShape, Sizes
  <2> QED
    BY <1>1, <2>1, <2>3, <2>4, <2>5
<1>5. CASE WordOrErr \/ LenOrErr \/ Take
  <2>1. /\ ip <= Len(Code[fn]) /\ ~Gets(Sum)
        /\ Instr.op \notin Still \cup {"rest"}
    BY <1>5 DEF WordOrErr, LenOrErr, Take, At, Still, Moves
  <2> QED
    BY <2>1, <1>2
<1>6. CASE CheckedTake \/ Advance
  <2>1. /\ ip <= Len(Code[fn])
        /\ Instr.op \notin Still \cup {"rest"}
    BY <1>6 DEF CheckedTake, Advance, At, Still
  <2>2. Width \in Nat
    BY <1>1, <2>1, WidthBytes
  <2>3. pos + Width > UsizeMax \/ ~(pos <= pos + Width) \/ pos + Width > len
        \/ ~(pos + Width <= len)
    BY <1>6 DEF CheckedTake, Advance, Moves, Gets
  <2>4. pos + Width > len
    BY <1>1, <2>2, <2>3
  <2> QED
    BY <2>1, <2>4, ShortBy
<1>7. CASE Region
  <2>1. Instr.op = "region" /\ ip <= Len(Code[fn]) /\ span[Instr.f][2] < Instr.n
    BY <1>7 DEF Region, At, Return, Moves
  <2>2. ip \in DOMAIN Code[fn] /\ fn \in Fns
    BY <1>1, <2>1, LayoutShape DEF TypeOK
  <2>3. Instr.n <= span[Instr.f][2]
    BY <2>1, <2>2, EndsChecked DEF Layout, Records, Marked, MarkedFor, Instr
  <2>4. Instr.n \in Nat /\ span[Instr.f][2] \in Nat
    BY <1>1, <2>1, InstrShape, Sizes DEF TypeOK
  <2> QED
    BY <2>1, <2>3, <2>4
<1>8. CASE Index \/ Word \/ LenWord \/ Skip \/ Check \/ Mark \/ Rest \/ Finish \/ Returned
           \/ UNCHANGED vars
  BY <1>8 DEF Index, Word, LenWord, Skip, Check, Mark, Rest, Finish, Returned, Return, Moves, vars
<1> QED
  BY <1>3, <1>4, <1>5, <1>6, <1>7, <1>8 DEF Next

LEMMA Unpanicked ==
  ASSUME Inv, Layout, [Next]_vars, outcome' \in {"overflow", "oob"}, outcome' # outcome
  PROVE  ~Untrapped
<1>1. TypeOK /\ CursorBound /\ len \in Nat /\ pos \in Nat /\ len <= UsizeMax
  BY Sizes DEF Inv, TypeOK
<1>2. CASE Overflow
  <2>1. /\ ip <= Len(Code[fn]) /\ pos + Width > UsizeMax /\ OverflowChecks
        /\ Instr.op \in PlainAdds
    BY <1>2 DEF Overflow, At, Traps
  <2>2. Instr.op \notin Still \cup {"rest"}
    BY <2>1 DEF PlainAdds, Still
  <2>3. Instr.op = "take"
    <3>1. CASE Instr.op \notin Takes
      <4>1. Width = Instr.n
        BY <1>1, <2>1, <2>2, <3>1, WidthBytes
      <4>2. pos + Instr.n <= UsizeMax
        BY <1>1, <2>1, PlainFits
      <4>3. pos + Instr.n \in Nat /\ UsizeMax \in Nat
        BY <1>1, <2>1, PlainFits, Sizes
      <4> QED
        BY <2>1, <4>1, <4>2, <4>3
    <3> QED
      BY <2>1, <3>1 DEF PlainAdds, Takes
  <2>4. ip \in DOMAIN Code[fn] /\ fn \in Fns
    BY <1>1, <2>1, LayoutShape DEF TypeOK
  <2> QED
    BY <2>1, <2>3, <2>4 DEF Untrapped, AddsChecked, Instr
<1>3. CASE Index
  <2>1. Instr.op = "index" /\ ip <= Len(Code[fn]) /\ ~Gets(Sum)
    BY <1>3 DEF Index, At, Moves
  <2>2. Instr.op \notin Still \cup {"rest"} \cup Takes
    BY <2>1 DEF Still, Takes
  <2>3. Sum = pos + Instr.n /\ Bytes(Instr, NoLengths) = Instr.n /\ Instr.n \in Nat
    BY <1>1, <2>1, <2>2, Unwrapped, WidthBytes, InstrShape, Sizes DEF Bytes
  <2>4. /\ ip \in 1 .. Len(Code[fn]) /\ ip \in DOMAIN Code[fn] /\ fn \in Fns
        /\ Code[fn] \in Seq(Instrs)
        /\ declared \in [Fields -> Nat] /\ NoLengths \in [Fields -> Nat]
        /\ ip \in 1 .. Len(Code[fn]) + 1
    BY <1>1, <2>1, LayoutShape DEF TypeOK
  <2>5. \A k \in 1 .. ip : Code[fn][k].op \notin Takes
    BY <2>1, <2>4, SizesChecked DEF Instr
  <2>6. PICK j \in 1 .. ip - 1 : Code[fn][j].op = "need" /\ Fixed(Code[fn])[ip + 1] <= Code[fn][j].n
    BY <2>1, <2>4, SizesChecked DEF Instr
  <2>7. Code[fn][j].n <= len
    BY <2>6 DEF Layout, Records, HeaderThere
  <2>8. pos <= Fixed(Code[fn])[ip]
    <3>1. \A k \in 1 .. ip - 1 : Code[fn][k].op \notin Takes
      <4>1. \A k \in 1 .. ip - 1 : k \in 1 .. ip
        BY <2>4
      <4> QED
        BY <2>5, <4>1
    <3>2. Extent(Code[fn], declared)[ip] = Extent(Code[fn], NoLengths)[ip]
      BY <2>4, <3>1, ExtentDepends
    <3> QED
      BY <2>1, <3>2 DEF Layout, Cursor, AtMost, Fixed
  <2>9. Fixed(Code[fn])[ip + 1] = Fixed(Code[fn])[ip] + Instr.n /\ Fixed(Code[fn])[ip] \in Nat
    BY <1>1, <2>1, <2>3, <2>4, ExtentNext, LayoutShape
  <2>10. Code[fn][j].n \in Nat
    <3>1. j \in 1 .. Len(Code[fn])
      BY <2>4, <2>6
    <3>2. Code[fn][j] \in Instrs
      BY <2>4, <3>1
    <3> QED
      BY <3>2, Sizes DEF Instrs
  <2>11. pos <= pos + Instr.n /\ pos + Instr.n <= len
    BY <1>1, <2>3, <2>6, <2>7, <2>8, <2>9, <2>10
  <2> QED
    BY <2>1, <2>3, <2>11 DEF Gets
<1>4. CASE Region
  <2>1. Instr.op = "region" /\ ip <= Len(Code[fn]) /\ span[Instr.f][2] > len
    BY <1>4 DEF Region, At, Return, Moves
  <2>2. ip \in DOMAIN Code[fn]
    BY <1>1, <2>1, LayoutShape
  <2>3. span[Instr.f][2] <= len /\ span[Instr.f][2] \in Nat
    BY <1>1, <2>1, <2>2, InstrShape DEF Layout, Records, Marked, Instr, TypeOK
  <2> QED
    BY <1>1, <2>1, <2>3
<1>5. CASE Rest
  <2>1. Instr.op = "rest" /\ ip <= Len(Code[fn]) /\ pos > len
    BY <1>5 DEF Rest, At, Moves
  <2>2. ip \in DOMAIN Code[fn] /\ fn \in Fns
    BY <1>1, <2>1, LayoutShape DEF TypeOK
  <2>3. BoundsAt(Code[fn], ip - 1)
    BY <2>1, <2>2, EndsChecked DEF Instr
  <2>4. pos <= len
    BY <2>3 DEF Inv, Settled
  <2> QED
    BY <1>1, <2>1, <2>4
<1>6. CASE Need \/ Check \/ Skip \/ Word \/ LenWord \/ WordOrErr \/ LenOrErr
           \/ Take \/ CheckedTake \/ Advance
  BY <1>6 DEF Need, Check, Skip, Word, LenWord, WordOrErr, LenOrErr,
              Take, CheckedTake, Advance, Return, Moves
<1>7. CASE Mark \/ Finish \/ Returned \/ UNCHANGED vars
  BY <1>7 DEF Mark, Finish, Returned, Return, Moves, vars
<1> QED
  BY <1>2, <1>3, <1>4, <1>5, <1>6, <1>7 DEF Next
LEMMA InitLayout == Init => Layout
<1> SUFFICES ASSUME Init PROVE Layout
  OBVIOUS
<1>1. TypeOK /\ ip = 1 /\ pos = 0 /\ outcome = "running" /\ len \in Nat
  BY InitTyped, Sizes DEF Init
<1>2. Code[fn] \in Seq(Instrs) /\ Len(Code[fn]) \in Nat /\ declared \in [Fields -> Nat]
      /\ NoLengths \in [Fields -> Nat] /\ 1 \in 1 .. Len(Code[fn]) + 1
  BY <1>1, LayoutShape
<1>3. Extent(Code[fn], declared)[1] = 0 /\ Extent(Code[fn], NoLengths)[1] = 0
  BY <1>2, ExtentUnfolds
<1>4. Cursor
  BY <1>1, <1>3 DEF Cursor, AtMost, AtLeast, PastFixed, Fixed
<1>5. HeaderThere /\ TakenWhole
  BY <1>1 DEF HeaderThere, TakenWhole
<1>6. Narrow
  BY Sizes DEF Init, Narrow
<1>7. Marked
  <2> SUFFICES ASSUME NEW i \in DOMAIN Code[fn]
               PROVE  span[Code[fn][i].f][2] <= len /\ ~MarkedFor(i)
    BY DEF Marked
  <2>1. Code[fn][i] \in Instrs
    BY <1>2
  <2>2. span[Code[fn][i].f] = <<0, 0>>
    BY <2>1 DEF Init, Instrs
  <2> QED
    BY <1>1, <2>2 DEF MarkedFor
<1>8. RefusedShort /\ NeverPanics
  BY <1>1 DEF RefusedShort, NeverPanics, NoPanic
<1> QED
  BY <1>4, <1>5, <1>6, <1>7, <1>8 DEF Layout, Records

LEMMA StepLayout == Inv /\ Layout /\ [Next]_vars => Layout'
<1> SUFFICES ASSUME Inv, Layout, [Next]_vars PROVE Layout'
  OBVIOUS
<1>1. TypeOK /\ CursorBound
  BY DEF Inv
<1>2. CASE ip' = ip
  <2>1. UNCHANGED <<fn, len, ip, pos, declared, span>>
    BY <1>1, <1>2, Stopped
  <2>2. Needed' = Needed
    BY <2>1 DEF Needed
  <2>3. Cursor' /\ Records'
    BY <2>1 DEF Layout, Cursor, AtMost, AtLeast, PastFixed,
                Records, HeaderThere, Marked, MarkedFor, Narrow, TakenWhole, Uncut, ReadsNoU64
  <2>4. RefusedShort'
    <3>1. outcome' # outcome /\ outcome' \in {"tooShort", "overflow"} => Needed > len
      BY Refuses
    <3> QED
      BY <2>1, <2>2, <3>1 DEF Layout, RefusedShort
  <2>5. NeverPanics'
    BY <2>1, Unpanicked DEF Layout, NeverPanics, NoPanic, Untrapped, AddsChecked
  <2> QED
    BY <2>3, <2>4, <2>5 DEF Layout
<1>3. CASE ip' # ip
  <2>1. outcome = "running" /\ outcome' = outcome
    BY <1>1, <1>3, MovedCursor DEF Steps
  <2>2. RefusedShort' /\ NeverPanics'
    BY <2>1 DEF RefusedShort, NeverPanics, NoPanic
  <2> QED
    BY <1>3, <2>2, StepCursor, StepRecords DEF Layout
<1> QED
  BY <1>2, <1>3

LEMMA LayoutAlways == Spec => [](Inv /\ Layout)
<1>1. Init => Inv /\ Layout
  BY InitInv, InitLayout
<1>2. Inv /\ Layout /\ [Next]_vars => (Inv /\ Layout)'
  BY StepInv, StepLayout
<1> QED
  BY <1>1, <1>2, PTL DEF Spec

LEMMA NoPanicWhere == Spec => [](Untrapped => NoPanic)
<1>1. Inv /\ Layout => (Untrapped => NoPanic)
  BY DEF Layout, NeverPanics
<1> QED
  BY <1>1, LayoutAlways, PTL

LEMMA AsDeclaredWhere == Spec => [](Uncut => AsDeclared)
<1>1. Inv /\ Layout => (Uncut => AsDeclared)
  <2> SUFFICES ASSUME Inv, Layout, Uncut, outcome = "ok",
                      NEW i \in DOMAIN Code[fn], Code[fn][i].op \in Takes
               PROVE  /\ span[Code[fn][i].f][1] + declared[Code[fn][i].f]
                           = span[Code[fn][i].f][2]
                      /\ span[Code[fn][i].f][2] <= len
    BY DEF AsDeclared, LengthFields
  <2>1. ip = Len(Code[fn]) + 1 /\ Code[fn] \in Seq(Instrs)
    BY LayoutShape DEF Inv, OkAtEnd
  <2>2. i \in 1 .. ip - 1
    BY <2>1
  <2> QED
    BY <2>2 DEF Layout, Records, TakenWhole
<1> QED
  BY <1>1, LayoutAlways, PTL

LEMMA ExactWhere == Spec => [](Uncut => ExactRefusal)
<1>1. Inv /\ Layout => (Uncut => ExactRefusal)
  <2> SUFFICES ASSUME Inv, Layout, Uncut, outcome = "ok" PROVE Needed <= len
    BY DEF Layout, RefusedShort, ExactRefusal
  <2>1. ip = Len(Code[fn]) + 1 /\ pos \in Nat /\ len \in Nat /\ Len(Code[fn]) \in Nat
        /\ fn \in Fns /\ ip \in 1 .. Len(Code[fn]) + 1
    BY LayoutShape DEF Inv, OkAtEnd, TypeOK
  <2>2. Needed <= pos /\ Needed \in Nat
    BY <2>1, LayoutShape DEF Inv, Layout, Cursor, AtLeast, Needed
  <2>3. pos <= len
    <3>1. ip - 1 = Len(Code[fn])
      BY <2>1
    <3> QED
      BY <2>1, <3>1, EndsBounded DEF Inv, Settled
  <2> QED
    BY <2>1, <2>2, <2>3
<1> QED
  BY <1>1, LayoutAlways, PTL

\* In a release build, or where lengths are added with checked_add only, no
\* parser panics, whatever the buffer and its length words, on any target.
THEOREM NoPanicHolds ==
  ASSUME OverflowChecks => \A f \in Fns : AddsChecked(f)
  PROVE  Spec => []NoPanic
<1>1. Inv => Untrapped
  BY DEF Inv, TypeOK, Untrapped
<1> QED
  BY <1>1, LayoutAlways, NoPanicWhere, PTL

\* Where every length word fits in usize, a parser that returns Ok took each
\* field at the length the buffer declares, inside the buffer.
THEOREM AsDeclaredHolds == ASSUME Fits PROVE Spec => []AsDeclared
<1>1. Uncut
  BY DEF Uncut
<1> QED
  BY <1>1, AsDeclaredWhere, PTL

\* Where every length word fits in usize, the buffers refused as too short are
\* exactly those that cannot hold the layout they declare.
THEOREM ExactRefusalHolds == ASSUME Fits PROVE Spec => []ExactRefusal
<1>1. Uncut
  BY DEF Uncut
<1> QED
  BY <1>1, ExactWhere, PTL

\* In a build that checks for overflow, on any target, the panic only replaces
\* the refusal of a buffer that is too short.
THEOREM OverflowOnlyWhenShortHolds == Spec => []OverflowOnlyWhenShort
<1>1. Inv /\ Layout => OverflowOnlyWhenShort
  BY DEF Layout, RefusedShort, OverflowOnlyWhenShort
<1> QED
  BY <1>1, LayoutAlways, PTL
=============================================================================
