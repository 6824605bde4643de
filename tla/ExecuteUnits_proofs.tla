------------------------- MODULE ExecuteUnits_proofs -------------------------
(***************************************************************************)
(* Proofs about the execute stage and its units, for any menus of           *)
(* instructions, any width of the dividers and any values of the operands.  *)
(***************************************************************************)
EXTENDS ExecuteUnits, TLAPS

-----------------------------------------------------------------------------
(* Each unit by itself: at rest it stays at rest until it is started, and    *)
(* then it serves until it has answered.                                     *)

MulTypes == [state : {"StIdle", "StWaitForSubMul"}, valid : BOOLEAN, data : Worth,
             enable : BOOLEAN, large : BOOLEAN, sub : Unit]
DivTypes == [state : {"Idle", "Starting", "Loading", "Working", "Ending", "Ended"},
             counter : Nat, ready : BOOLEAN, work : Worth, data : Worth]
FpuTypes(fpu) == /\ {fpu.add, fpu.slt, fpu.mul, fpu.div, fpu.long_div} \subseteq Unit
                 /\ fpu.div.left <= 3 /\ fpu.slt.left = 0

LEMMA WorthTypes ==
    /\ \A datum \in Worth : Finished(datum) \in Worth /\ Aged(datum) \in Worth
    /\ Finished("part") = "whole"
  BY DEF Worth, Finished, Aged

LEMMA SubMulStep ==
    ASSUME NEW sub \in Unit, NEW enable \in BOOLEAN, NEW large \in BOOLEAN,
           NEW after, after = NextSubMul(sub, enable, large)
    PROVE  /\ after \in Unit
           /\ sub.left = 0 /\ ~enable => after.left = 0 /\ ~after.valid
           /\ sub.left = 0 /\ enable => AtWork(after)
           /\ AtWork(sub) => AtWork(after) \/ Done(after)
<1>1. sub.left \in Nat /\ sub.valid \in BOOLEAN /\ sub.data \in Worth
  BY DEF Unit
<1>2. CASE sub.left = 0 /\ enable
  <2>1. after = [left |-> IF large THEN 4 ELSE 1, valid |-> FALSE, data |-> "part"]
    BY <1>2 DEF NextSubMul
  <2>2. QED
    <3>1. after.left > 0 /\ ~after.valid /\ after.data = "part"
      BY <2>1
    <3>2. after \in Unit
      BY <2>1 DEF Unit, Worth
    <3>3. QED
      BY <1>1, <1>2, <3>1, <3>2 DEF AtWork
<1>3. CASE sub.left = 0 /\ ~enable
  <2>1. after = [sub EXCEPT !.valid = FALSE]
    BY <1>3 DEF NextSubMul
  <2>2. QED
    BY <1>3, <2>1 DEF Unit, AtWork
<1>4. CASE sub.left = 1
  <2>1. after = [left |-> 0, valid |-> TRUE, data |-> Finished(sub.data)]
    BY <1>4 DEF NextSubMul
  <2>2. QED
    BY <1>1, <1>4, <2>1, WorthTypes DEF Unit, AtWork, Done
<1>5. CASE sub.left > 1
  <2>1. after = [sub EXCEPT !.left = @ - 1]
    BY <1>1, <1>5 DEF NextSubMul
  <2>2. QED
    BY <1>1, <1>5, <2>1 DEF Unit, AtWork
<1>6. QED
  BY <1>1, <1>2, <1>3, <1>4, <1>5

LEMMA MulStep ==
    ASSUME NEW mul \in MulTypes, NEW start \in BOOLEAN, NEW size \in Nat
    PROVE  LET after == NextMul(mul, start, size) IN
           /\ after \in MulTypes
           /\ MulRests(mul) => IF start THEN MulServes(after) ELSE MulRests(after)
           /\ MulServes(mul) /\ ~start =>
                  /\ mul.valid => MulRests(after) /\ mul.data = "whole"
                  /\ ~mul.valid => MulServes(after)
<1> DEFINE sub == NextSubMul(mul.sub, mul.enable, mul.large)
           after == NextMul(mul, start, size)
           moved == [mul EXCEPT !.sub = sub]
<1>1. /\ mul.sub \in Unit /\ mul.enable \in BOOLEAN /\ mul.large \in BOOLEAN
      /\ mul.valid \in BOOLEAN /\ mul.data \in Worth /\ mul.state \in {"StIdle", "StWaitForSubMul"}
  BY DEF MulTypes
<1>2. /\ sub \in Unit
      /\ mul.sub.left = 0 /\ ~mul.enable => sub.left = 0 /\ ~sub.valid
      /\ mul.sub.left = 0 /\ mul.enable => AtWork(sub)
      /\ AtWork(mul.sub) => AtWork(sub) \/ Done(sub)
  BY <1>1, SubMulStep
<1>3. moved \in MulTypes /\ moved.sub = sub
  BY <1>1, <1>2 DEF MulTypes
<1> HIDE DEF sub
<1>4. mul.sub.data \in Worth /\ mul.sub.valid \in BOOLEAN
  BY <1>1 DEF Unit
<1>5. CASE mul.state = "StIdle" /\ start /\ size <= 16
  <2>1. after = [moved EXCEPT !.valid = TRUE, !.data = "whole"]
    BY <1>5 DEF NextMul, sub
  <2>2. after \in MulTypes
    BY <1>3, <2>1 DEF MulTypes, Worth
  <2>3. MulRests(mul) => MulServes(after)
    BY <1>2, <1>3, <1>5, <2>1 DEF MulRests, MulServes, MulTypes
  <2>4. QED
    BY <1>5, <2>2, <2>3
<1>6. CASE mul.state = "StIdle" /\ start /\ ~(size <= 16)
  <2>1. after = [moved EXCEPT !.state = "StWaitForSubMul", !.enable = TRUE,
                              !.large = (size = 64), !.valid = FALSE]
    BY <1>6 DEF NextMul, sub
  <2>2. after \in MulTypes
    BY <1>3, <2>1 DEF MulTypes
  <2>3. MulRests(mul) => MulServes(after)
    BY <1>2, <1>3, <1>6, <2>1 DEF MulRests, MulServes, MulTypes
  <2>4. QED
    BY <1>6, <2>2, <2>3
<1>7. CASE mul.state = "StIdle" /\ ~start
  <2>1. after = [moved EXCEPT !.valid = FALSE]
    BY <1>7 DEF NextMul, sub
  <2>2. after \in MulTypes
    BY <1>3, <2>1 DEF MulTypes
  <2>3. MulRests(mul) => MulRests(after)
    BY <1>2, <1>3, <1>7, <2>1 DEF MulRests, MulTypes
  <2>4. MulServes(mul) => mul.valid /\ mul.data = "whole" /\ MulRests(mul)
    BY <1>7 DEF MulServes
  <2>5. QED
    BY <1>7, <2>2, <2>3, <2>4
<1>8. CASE mul.state = "StWaitForSubMul" /\ mul.sub.valid
  <2>1. after = [moved EXCEPT !.state = "StIdle", !.enable = FALSE,
                              !.valid = TRUE, !.data = mul.sub.data]
    BY <1>8 DEF NextMul, sub
  <2>2. after \in MulTypes
    BY <1>3, <1>4, <2>1 DEF MulTypes
  <2>3. MulServes(mul) => Done(mul.sub) /\ ~mul.enable /\ ~mul.valid
    BY <1>8 DEF MulServes, MulRests, AtWork
  <2>4. MulServes(mul) => MulServes(after)
    BY <1>2, <1>3, <2>1, <2>3 DEF MulServes, MulRests, Done, MulTypes
  <2>5. QED
    BY <1>8, <2>2, <2>3, <2>4 DEF MulRests
<1>9. CASE mul.state = "StWaitForSubMul" /\ ~mul.sub.valid
  <2>1. after = [moved EXCEPT !.enable = FALSE]
    BY <1>9 DEF NextMul, sub
  <2>2. after \in MulTypes
    BY <1>3, <2>1 DEF MulTypes
  <2>3. MulServes(mul) => AtWork(sub) \/ Done(sub)
    BY <1>2, <1>9 DEF MulServes, MulRests, Done
  <2>4. MulServes(mul) => MulServes(after) /\ ~mul.valid
    BY <1>3, <1>9, <2>1, <2>3 DEF MulServes, MulRests, MulTypes
  <2>5. QED
    BY <1>9, <2>2, <2>4 DEF MulRests
<1>10. QED
  BY <1>1, <1>5, <1>6, <1>7, <1>8, <1>9

LEMMA DivStep ==
    ASSUME NEW div \in DivTypes, NEW start \in BOOLEAN, NEW early \in BOOLEAN
    PROVE  LET after == NextDiv(div, start, early) IN
           /\ after \in DivTypes
           /\ DivRests(div) => IF start THEN DivServes(after) ELSE DivRests(after)
           /\ DivServes(div) /\ ~start =>
                  /\ div.ready => DivRests(after) /\ div.data = "whole"
                  /\ ~div.ready => DivServes(after)
<1> DEFINE after == NextDiv(div, start, early)
<1> USE DEF DivRests, DivServes
<1>1. /\ div.state \in {"Idle", "Starting", "Loading", "Working", "Ending", "Ended"}
      /\ div.counter \in Nat /\ div.ready \in BOOLEAN /\ div.work \in Worth /\ div.data \in Worth
  BY DEF DivTypes
<1>2. CASE div.state = "Idle"
  <2>1. after = IF start THEN [div EXCEPT !.state = "Starting", !.ready = FALSE, !.work = "part"]
                ELSE div
    BY <1>2 DEF NextDiv
  <2>2. QED
    BY <1>2, <2>1 DEF DivTypes, Worth
<1>3. CASE div.state = "Starting"
  <2>1. after = [div EXCEPT !.state = "Loading"]
    BY <1>3 DEF NextDiv
  <2>2. QED
    BY <1>3, <2>1 DEF DivTypes
<1>4. CASE div.state = "Loading"
  <2>1. after = [div EXCEPT !.state = "Working", !.counter = WidthArgs - 1]
    BY <1>4 DEF NextDiv
  <2>2. WidthArgs - 1 \in Nat
    BY WidthArgsAssumption
  <2>3. after \in DivTypes
    BY <2>1, <2>2 DEF DivTypes
  <2>4. after.state = "Working" /\ after.ready = div.ready /\ after.work = div.work
    BY <2>1 DEF DivTypes
  <2>5. QED
    BY <1>4, <2>3, <2>4
<1>5. CASE div.state = "Working" /\ div.counter > 0
  <2>1. after = [div EXCEPT !.counter = @ - 1]
    BY <1>5 DEF NextDiv
  <2>2. QED
    BY <1>1, <1>5, <2>1 DEF DivTypes
<1>6. CASE div.state = "Working" /\ ~(div.counter > 0)
  <2>1. after = [div EXCEPT !.state = IF early THEN "Ended" ELSE "Ending"]
    BY <1>6 DEF NextDiv
  <2>2. QED
    BY <1>6, <2>1 DEF DivTypes
<1>7. CASE div.state = "Ending"
  <2>1. after = [div EXCEPT !.state = "Ended"]
    BY <1>7 DEF NextDiv
  <2>2. QED
    BY <1>7, <2>1 DEF DivTypes
<1>8. CASE div.state = "Ended"
  <2>1. after = [div EXCEPT !.state = "Idle", !.ready = TRUE, !.data = Finished(div.work)]
    BY <1>8 DEF NextDiv
  <2>2. QED
    BY <1>1, <1>8, <2>1, WorthTypes DEF DivTypes
<1>9. QED
  BY <1>1, <1>2, <1>3, <1>4, <1>5, <1>6, <1>7, <1>8

LEMMA SteppedStep ==
    ASSUME NEW unit \in Unit, NEW start \in BOOLEAN, NEW steps \in {1, 2, 4},
           NEW after, after = NextStepped(unit, start, steps)
    PROVE  /\ after \in Unit
           /\ unit.left = 0 => IF start THEN AtWork(after) ELSE after = unit
           /\ AtWork(unit) => AtWork(after) \/ Done(after)
  BY WorthTypes DEF NextStepped, Unit, Worth, AtWork, Done

LEMMA SltStep ==
    ASSUME NEW unit \in Unit, NEW start \in BOOLEAN,
           NEW after, after = NextSlt(unit, start)
    PROVE  /\ after \in Unit /\ after.left = unit.left
           /\ unit.left = 0 => IF start THEN Done(after) ELSE after = unit
  BY DEF NextSlt, Unit, Worth, Done

LEMMA BFloat16DivStarts ==
    ASSUME NEW div \in Unit, NEW long_div \in Unit, div.left = 0,
           NEW after, after = NextBFloat16Div(div, long_div, TRUE)
    PROVE  after \in Unit /\ after.left = 3 /\ AtWork(after)
<1>1. after = [left |-> 3, valid |-> FALSE, data |-> "part"]
  BY DEF NextBFloat16Div
<1>2. after.left = 3 /\ ~after.valid /\ after.data = "part"
  BY ONLY <1>1
<1>3. after \in Unit
  BY ONLY <1>1 DEF Unit, Worth
<1>4. QED
  BY ONLY <1>2, <1>3 DEF AtWork

BFloat16DivMoved(div, long_div, after) ==
    /\ after \in Unit /\ after.left \in {0, 1, 2, 3}
    /\ div.left = 0 => after = div
    /\ div.left = 3 /\ AtWork(div) =>
          /\ ~long_div.valid => after = div
          /\ Done(long_div) => after.left = 2 /\ AtWork(after)
    /\ div.left \in {1, 2} /\ AtWork(div) =>
           after.left # 3 /\ (AtWork(after) \/ Done(after))

LEMMA BFloat16DivStep ==
    ASSUME NEW div \in Unit, NEW long_div \in Unit, div.left \in {0, 1, 2, 3},
           NEW after, after = NextBFloat16Div(div, long_div, FALSE)
    PROVE  BFloat16DivMoved(div, long_div, after)
<1>1. /\ div \in Unit /\ div.left \in {0, 1, 2, 3} /\ div.valid \in BOOLEAN
      /\ div.data \in Worth /\ long_div.valid \in BOOLEAN /\ long_div.data \in Worth
  BY DEF Unit
<1>2. CASE div.left = 0
  <2>1. after = div
    BY <1>2 DEF NextBFloat16Div
  <2>2. QED
    BY ONLY <1>1, <1>2, <2>1 DEF BFloat16DivMoved
<1>3. CASE div.left = 3 /\ ~long_div.valid
  <2>1. after = div
    BY <1>3 DEF NextBFloat16Div
  <2>2. QED
    BY ONLY <1>1, <1>3, <2>1 DEF BFloat16DivMoved, Done
<1>4. CASE div.left = 3 /\ long_div.valid
  <2> DEFINE d == IF long_div.data = "whole" THEN "part" ELSE long_div.data
  <2>1. after = [div EXCEPT !.left = 2, !.data = d]
    BY <1>4 DEF NextBFloat16Div
  <2>2. d \in Worth /\ (long_div.data = "whole" => d = "part")
    BY <1>1 DEF Worth
  <2> HIDE DEF d
  <2>3. after \in Unit
    BY ONLY <1>1, <2>1, <2>2 DEF Unit
  <2>4. after.left = 2 /\ after.valid = div.valid /\ after.data = d
    BY ONLY <1>1, <2>1 DEF Unit
  <2>5. QED
    BY ONLY <1>1, <1>4, <2>2, <2>3, <2>4 DEF BFloat16DivMoved, AtWork, Done
<1>5. CASE div.left = 2
  <2>1. after = [div EXCEPT !.left = 1]
    BY <1>5 DEF NextBFloat16Div
  <2>2. after \in Unit /\ after.left = 1 /\ after.valid = div.valid /\ after.data = div.data
    BY ONLY <1>1, <2>1 DEF Unit
  <2>3. QED
    BY ONLY <1>1, <1>5, <2>2 DEF BFloat16DivMoved, AtWork
<1>6. CASE div.left = 1
  <2>1. after = [left |-> 0, valid |-> TRUE, data |-> Finished(div.data)]
    BY <1>6 DEF NextBFloat16Div
  <2>2. Finished(div.data) \in Worth /\ Finished("part") = "whole"
    BY <1>1, WorthTypes
  <2>3. after \in Unit
    BY ONLY <2>1, <2>2 DEF Unit
  <2>4. after.left = 0 /\ after.valid /\ after.data = Finished(div.data)
    BY ONLY <2>1
  <2>5. QED
    BY ONLY <1>1, <1>6, <2>2, <2>3, <2>4 DEF BFloat16DivMoved, AtWork, Done
<1>7. QED
  BY ONLY <1>1, <1>2, <1>3, <1>4, <1>5, <1>6

FpuIsDone(fpu) == Serving(fpu.oper) # "none" /\ fpu[Serving(fpu.oper)].valid

LEMMA ServingTypes ==
    ASSUME NEW oper
    PROVE  Serving(oper) \in {"add", "slt", "mul", "div", "none"}
  BY DEF Serving

LEMMA FpuStarts ==
    ASSUME NEW fpu, FpuTypes(fpu), FpuRests(fpu), NEW oper
    PROVE  LET after == NextFpu(fpu, TRUE, oper) IN
           FpuTypes(after) /\ FpuServes(after, oper)
<1> DEFINE after == NextFpu(fpu, TRUE, oper)
           serving == Serving(oper)
<1>1. /\ fpu.add \in Unit /\ fpu.slt \in Unit /\ fpu.mul \in Unit /\ fpu.div \in Unit
      /\ fpu.long_div \in Unit /\ fpu.slt.left = 0
      /\ fpu.add.left = 0 /\ fpu.mul.left = 0 /\ fpu.div.left = 0 /\ fpu.long_div.left = 0
      /\ fpu.div.left \in {0, 1, 2, 3}
  BY DEF FpuTypes, FpuRests, FpuCanAccept
<1>2. /\ after.oper = oper
      /\ after.add = NextStepped(fpu.add, serving = "add", 2)
      /\ after.slt = NextSlt(fpu.slt, serving = "slt")
      /\ after.mul = NextStepped(fpu.mul, serving = "mul", 1)
      /\ after.div = NextBFloat16Div(fpu.div, fpu.long_div, serving = "div")
      /\ after.long_div = NextStepped(fpu.long_div, serving = "div", 4)
  BY DEF FpuRests, NextFpu
<1>3. serving \in {"add", "slt", "mul", "div", "none"}
  BY ServingTypes
<1> HIDE DEF after, serving
<1>4. after.add \in Unit /\ (IF serving = "add" THEN AtWork(after.add) ELSE after.add.left = 0)
  BY <1>1, <1>2, SteppedStep
<1>5. after.mul \in Unit /\ (IF serving = "mul" THEN AtWork(after.mul) ELSE after.mul.left = 0)
  BY <1>1, <1>2, SteppedStep
<1>6. /\ after.long_div \in Unit
      /\ IF serving = "div" THEN AtWork(after.long_div) ELSE after.long_div.left = 0
  BY <1>1, <1>2, SteppedStep
<1>7. /\ after.div \in Unit /\ after.div.left \in {0, 1, 2, 3}
      /\ IF serving = "div" THEN after.div.left = 3 /\ AtWork(after.div) ELSE after.div.left = 0
  <2>1. CASE serving = "div"
    <3>1. after.div = NextBFloat16Div(fpu.div, fpu.long_div, TRUE)
      BY <1>2, <2>1
    <3>2. after.div \in Unit /\ after.div.left = 3 /\ AtWork(after.div)
      BY <1>1, <3>1, BFloat16DivStarts
    <3>3. QED
      BY <2>1, <3>2
  <2>2. CASE serving # "div"
    <3>1. after.div = NextBFloat16Div(fpu.div, fpu.long_div, FALSE)
      BY <1>2, <2>2
    <3>2. BFloat16DivMoved(fpu.div, fpu.long_div, after.div)
      BY <1>1, <3>1, BFloat16DivStep
    <3>3. QED
      BY <1>1, <2>2, <3>2 DEF BFloat16DivMoved
  <2>3. QED
    BY <2>1, <2>2
<1>8. after.slt \in Unit /\ after.slt.left = 0 /\ (serving = "slt" => Done(after.slt))
  <2> DEFINE slt_starts == serving = "slt"
  <2>1. after.slt = NextSlt(fpu.slt, slt_starts) /\ slt_starts \in BOOLEAN
    BY <1>2
  <2> HIDE DEF slt_starts
  <2>2. /\ after.slt \in Unit /\ after.slt.left = fpu.slt.left
        /\ slt_starts => Done(after.slt)
    BY <1>1, <2>1, SltStep
  <2>3. QED
    BY <1>1, <2>2 DEF slt_starts
<1>9. FpuTypes(after)
  BY <1>4, <1>5, <1>6, <1>7, <1>8 DEF FpuTypes
<1>10. FpuServes(after, oper)
  BY <1>2, <1>3, <1>4, <1>5, <1>6, <1>7, <1>8 DEF FpuServes, serving
<1>11. QED
  BY <1>9, <1>10 DEF after

LEMMA FpuMoves ==
    ASSUME NEW fpu, FpuTypes(fpu), NEW oper
    PROVE  LET after == NextFpu(fpu, FALSE, oper) IN
           /\ FpuTypes(after) /\ after.oper = fpu.oper
           /\ FpuRests(fpu) => FpuRests(after)
           /\ \A served : FpuServes(fpu, served) =>
                 IF FpuIsDone(fpu) THEN FpuRests(after) ELSE FpuServes(after, served)
<1> DEFINE after == NextFpu(fpu, FALSE, oper)
<1>1. /\ fpu.add \in Unit /\ fpu.slt \in Unit /\ fpu.mul \in Unit /\ fpu.div \in Unit
      /\ fpu.long_div \in Unit /\ fpu.slt.left = 0 /\ fpu.div.left \in {0, 1, 2, 3}
  BY DEF FpuTypes, Unit
<1>2. /\ after.oper = fpu.oper
      /\ after.add = NextStepped(fpu.add, FALSE, 2)
      /\ after.slt = NextSlt(fpu.slt, FALSE)
      /\ after.mul = NextStepped(fpu.mul, FALSE, 1)
      /\ after.div = NextBFloat16Div(fpu.div, fpu.long_div, FALSE)
      /\ after.long_div = NextStepped(fpu.long_div, FALSE, 4)
  BY DEF NextFpu
<1> HIDE DEF after
<1>3. /\ after.add \in Unit /\ (fpu.add.left = 0 => after.add = fpu.add)
      /\ AtWork(fpu.add) => AtWork(after.add) \/ Done(after.add)
  BY <1>1, <1>2, SteppedStep
<1>4. /\ after.mul \in Unit /\ (fpu.mul.left = 0 => after.mul = fpu.mul)
      /\ AtWork(fpu.mul) => AtWork(after.mul) \/ Done(after.mul)
  BY <1>1, <1>2, SteppedStep
<1>5. /\ after.long_div \in Unit /\ (fpu.long_div.left = 0 => after.long_div = fpu.long_div)
      /\ AtWork(fpu.long_div) => AtWork(after.long_div) \/ Done(after.long_div)
  BY <1>1, <1>2, SteppedStep
<1>6. BFloat16DivMoved(fpu.div, fpu.long_div, after.div)
  BY <1>1, <1>2, BFloat16DivStep
<1>7. after.slt \in Unit /\ after.slt = fpu.slt
  BY <1>1, <1>2, SltStep
<1>8. fpu.div.left = 0 => after.div = fpu.div
  BY <1>6 DEF BFloat16DivMoved
<1>9. FpuTypes(after)
  BY <1>1, <1>3, <1>4, <1>5, <1>6, <1>7 DEF FpuTypes, BFloat16DivMoved, Unit
<1>10. FpuRests(fpu) => FpuRests(after)
  BY <1>3, <1>4, <1>5, <1>8 DEF FpuRests, FpuCanAccept
<1>11. ASSUME NEW served, FpuServes(fpu, served)
       PROVE  IF FpuIsDone(fpu) THEN FpuRests(after) ELSE FpuServes(after, served)
  <2> DEFINE serving == Serving(served)
  <2>1. /\ fpu.oper = served /\ after.oper = served
        /\ serving # "none" => AtWork(fpu[serving]) \/ Done(fpu[serving])
        /\ \A other \in {"add", "mul", "div"} \ {serving} : fpu[other].left = 0
        /\ IF serving = "div" /\ fpu.div.left = 3
           THEN AtWork(fpu.long_div) \/ Done(fpu.long_div) ELSE fpu.long_div.left = 0
        /\ serving = "slt" => Done(fpu.slt)
    BY <1>2, <1>11 DEF FpuServes
  <2>2. serving \in {"add", "slt", "mul", "div", "none"}
    BY ServingTypes
  <2>3. FpuIsDone(fpu) <=> serving # "none" /\ fpu[serving].valid
    BY <2>1 DEF FpuIsDone
  <2>4. SUFFICES IF serving # "none" /\ fpu[serving].valid THEN FpuRests(after)
                 ELSE FpuServes(after, served)
    BY <2>3
  <2>5. FpuServes(after, served) <=>
            /\ serving # "none" => AtWork(after[serving]) \/ Done(after[serving])
            /\ \A other \in {"add", "mul", "div"} \ {serving} : after[other].left = 0
            /\ IF serving = "div" /\ after.div.left = 3
               THEN AtWork(after.long_div) \/ Done(after.long_div) ELSE after.long_div.left = 0
            /\ serving = "slt" => Done(after.slt)
    BY <2>1 DEF FpuServes
  <2> HIDE DEF serving
  <2>6. CASE serving = "none"
    BY <1>3, <1>4, <1>5, <1>8, <2>1, <2>5, <2>6
  <2>7. CASE serving = "slt"
    BY <1>3, <1>4, <1>5, <1>7, <1>8, <2>1, <2>5, <2>7 DEF FpuRests, FpuCanAccept, Done
  <2>8. CASE serving = "add"
    <3>1. CASE Done(fpu.add)
      BY <1>3, <1>4, <1>5, <1>8, <2>1, <2>8, <3>1 DEF FpuRests, FpuCanAccept, Done
    <3>2. CASE AtWork(fpu.add)
      BY <1>3, <1>4, <1>5, <1>8, <2>1, <2>5, <2>8, <3>2 DEF AtWork
    <3>3. QED
      BY <2>1, <2>8, <3>1, <3>2
  <2>9. CASE serving = "mul"
    <3>1. CASE Done(fpu.mul)
      BY <1>3, <1>4, <1>5, <1>8, <2>1, <2>9, <3>1 DEF FpuRests, FpuCanAccept, Done
    <3>2. CASE AtWork(fpu.mul)
      BY <1>3, <1>4, <1>5, <1>8, <2>1, <2>5, <2>9, <3>2 DEF AtWork
    <3>3. QED
      BY <2>1, <2>9, <3>1, <3>2
  <2>10. CASE serving = "div"
    <3>1. CASE Done(fpu.div)
      BY <1>3, <1>4, <1>5, <1>8, <2>1, <2>10, <3>1 DEF FpuRests, FpuCanAccept, Done
    <3>2. CASE AtWork(fpu.div) /\ fpu.div.left = 3 /\ Done(fpu.long_div)
      <4>1. after.div.left = 2 /\ AtWork(after.div) /\ ~fpu.div.valid
        BY <1>6, <3>2 DEF BFloat16DivMoved, AtWork
      <4>2. after.long_div.left = 0
        BY <1>5, <3>2 DEF Done
      <4>3. QED
        BY <1>3, <1>4, <2>1, <2>5, <2>10, <4>1, <4>2
    <3>3. CASE AtWork(fpu.div) /\ fpu.div.left = 3 /\ AtWork(fpu.long_div)
      <4>1. after.div = fpu.div /\ ~fpu.div.valid
        BY <1>6, <3>3 DEF BFloat16DivMoved, AtWork
      <4>2. AtWork(after.long_div) \/ Done(after.long_div)
        BY <1>5, <3>3
      <4>3. QED
        BY <1>3, <1>4, <2>1, <2>5, <2>10, <3>3, <4>1, <4>2
    <3>4. CASE AtWork(fpu.div) /\ fpu.div.left # 3
      <4>1. fpu.div.left \in {1, 2} /\ ~fpu.div.valid
        BY <1>1, <3>4 DEF AtWork, Unit
      <4>2. after.div.left # 3 /\ (AtWork(after.div) \/ Done(after.div))
        BY <1>6, <3>4, <4>1 DEF BFloat16DivMoved
      <4>3. after.long_div.left = 0
        BY <1>5, <2>1, <3>4
      <4>4. QED
        BY <1>3, <1>4, <2>1, <2>5, <2>10, <4>1, <4>2, <4>3
    <3>5. QED
      BY <2>1, <2>10, <3>1, <3>2, <3>3, <3>4
  <2>11. QED
    BY <2>2, <2>6, <2>7, <2>8, <2>9, <2>10
<1>12. QED
  BY <1>2, <1>9, <1>10, <1>11 DEF after

\* What a unit shows when it says that it is done.
LEMMA FpuAnswers ==
    ASSUME FpuTypes(vector_fpu), NEW oper, FpuServes(vector_fpu, oper), FpuValid
    PROVE  FpuData = "whole"
<1> DEFINE serving == Serving(oper)
<1>1. /\ serving # "none" /\ serving = Serving(vector_fpu.oper) /\ vector_fpu[serving].valid
      /\ serving \in {"add", "slt", "mul", "div"}
  BY ServingTypes DEF FpuValid, FpuServes
<1>2. Done(vector_fpu[serving])
  BY <1>1 DEF FpuServes, AtWork
<1>3. FpuCanAccept(vector_fpu)
  BY <1>1, <1>2 DEF FpuCanAccept, FpuServes, Done
<1>4. QED
  BY <1>1, <1>2, <1>3 DEF FpuData, Done

-----------------------------------------------------------------------------
(* An instruction that leaves makes every datum worthless to the next, and   *)
(* changes nothing else.                                                     *)

LEMMA AgedUnitIs ==
    ASSUME NEW unit \in Unit
    PROVE  AgedUnit(unit) \in Unit /\ AgedUnit(unit).left = unit.left
                                 /\ AgedUnit(unit).valid = unit.valid
  BY WorthTypes DEF AgedUnit, Unit

LEMMA AgedMulIs ==
    ASSUME NEW mul \in MulTypes, MulRests(mul)
    PROVE  AgedMul(mul) \in MulTypes /\ MulRests(AgedMul(mul))
<1>1. AgedMul(mul) = [mul EXCEPT !.data = Aged(@), !.sub = AgedUnit(@)]
  BY DEF AgedMul, AgedUnit, MulTypes
<1>2. mul.sub \in Unit /\ mul.data \in Worth
  BY DEF MulTypes
<1>3. AgedUnit(mul.sub) \in Unit /\ Aged(mul.data) \in Worth
  BY <1>2, AgedUnitIs, WorthTypes
<1>4. AgedMul(mul) \in MulTypes
  BY <1>1, <1>3 DEF MulTypes
<1>5. MulRests(AgedMul(mul))
  BY <1>1, <1>2, AgedUnitIs DEF MulTypes, MulRests
<1>6. QED
  BY <1>4, <1>5

LEMMA AgedDivIs ==
    ASSUME NEW div \in DivTypes, DivRests(div)
    PROVE  AgedDiv(div) \in DivTypes /\ DivRests(AgedDiv(div))
<1>1. AgedDiv(div) = [div EXCEPT !.data = Aged(@), !.work = Aged(@)]
  BY DEF AgedDiv, AgedUnit, DivTypes
<1>2. QED
  BY <1>1, WorthTypes DEF DivTypes, DivRests

LEMMA AgedFpuIs ==
    ASSUME NEW fpu, FpuTypes(fpu), FpuRests(fpu),
           DOMAIN fpu = {"oper", "add", "slt", "mul", "div", "long_div"}
    PROVE  FpuTypes(AgedFpu(fpu)) /\ FpuRests(AgedFpu(fpu))
<1>1. /\ AgedFpu(fpu).add = AgedUnit(fpu.add) /\ AgedFpu(fpu).slt = AgedUnit(fpu.slt)
      /\ AgedFpu(fpu).mul = AgedUnit(fpu.mul) /\ AgedFpu(fpu).div = AgedUnit(fpu.div)
      /\ AgedFpu(fpu).long_div = AgedUnit(fpu.long_div)
  BY DEF AgedFpu
<1>2. /\ fpu.add \in Unit /\ fpu.slt \in Unit /\ fpu.mul \in Unit /\ fpu.div \in Unit
      /\ fpu.long_div \in Unit
  BY DEF FpuTypes
<1>3. /\ AgedFpu(fpu).add \in Unit /\ AgedFpu(fpu).slt \in Unit /\ AgedFpu(fpu).mul \in Unit
      /\ AgedFpu(fpu).div \in Unit /\ AgedFpu(fpu).long_div \in Unit
      /\ AgedFpu(fpu).add.left = fpu.add.left /\ AgedFpu(fpu).slt.left = fpu.slt.left
      /\ AgedFpu(fpu).mul.left = fpu.mul.left /\ AgedFpu(fpu).div.left = fpu.div.left
      /\ AgedFpu(fpu).long_div.left = fpu.long_div.left
  BY <1>1, <1>2, AgedUnitIs
<1>4. QED
  BY <1>3 DEF FpuTypes, FpuRests, FpuCanAccept

LEMMA FpuDomain ==
    ASSUME NEW fpu, NEW start, NEW oper
    PROVE  DOMAIN NextFpu(fpu, start, oper) = {"oper", "add", "slt", "mul", "div", "long_div"}
  BY DEF NextFpu

-----------------------------------------------------------------------------
(* The casters of scalars. *)

CastTypes == [state : {"CastStNoWait", "CastStWaitForBFloat16Caster"},
              valid : BOOLEAN, captured : SUBSET Units, units : [Units -> CastUnit]]
FromInt(k) == <<k, "IntToBFloat16">>
CastsRest(cs) ==
    cs.state = "CastStNoWait" /\ \A k \in Dsrcs : cs.units[FromInt(k)].state = "StIdle"
CastsServe(cs, casts) ==
    /\ cs.state = "CastStWaitForBFloat16Caster" => ~cs.valid
    /\ \A k \in Dsrcs :
          IF cs.units[FromInt(k)].state = "StIdle"
          THEN casts[k] = "IntToBFloat16" => cs.units[FromInt(k)].data = "whole"
          ELSE /\ cs.units[FromInt(k)] = [state |-> "StFinishing", data |-> "part"]
               /\ cs.state = "CastStWaitForBFloat16Caster"

LEMMA CastUnitStep ==
    ASSUME NEW u \in Units, NEW unit \in CastUnit, NEW start \in BOOLEAN,
           NEW after, after = NextUnit(u, unit, start)
    PROVE  /\ after \in CastUnit
           /\ unit.state = "StIdle" /\ ~start => after = unit
           /\ unit.state = "StIdle" /\ start /\ u[2] = "IntToBFloat16"
                  => after = [state |-> "StFinishing", data |-> "part"]
           /\ unit = [state |-> "StFinishing", data |-> "part"]
                  => after = [state |-> "StIdle", data |-> "whole"]
<1>1. unit.state \in {"StIdle", "StInner", "StFinishing"} /\ unit.data \in Worth
  BY DEF CastUnit
<1>2. Finished(unit.data) \in Worth /\ Finished("part") = "whole" /\ "part" \in Worth
  BY <1>1, WorthTypes DEF Worth
<1>3. CASE unit.state = "StIdle" /\ start
  <2>1. after = [state |-> IF u[2] = "IntToBFloat16" THEN "StFinishing" ELSE "StInner",
                 data |-> "part"]
    BY <1>3 DEF NextUnit
  <2>2. after \in CastUnit
    BY ONLY <1>2, <2>1 DEF CastUnit
  <2>3. u[2] = "IntToBFloat16" => after = [state |-> "StFinishing", data |-> "part"]
    BY ONLY <2>1
  <2>4. unit # [state |-> "StFinishing", data |-> "part"]
    BY ONLY <1>3
  <2>5. QED
    BY <1>3, <2>2, <2>3, <2>4
<1>4. CASE unit.state = "StIdle" /\ ~start
  <2>1. after = unit
    BY <1>4 DEF NextUnit
  <2>2. QED
    BY <1>4, <2>1
<1>5. CASE unit.state = "StInner"
  <2>1. after = [unit EXCEPT !.state = "StFinishing"]
    BY <1>5 DEF NextUnit
  <2>2. QED
    BY <1>5, <2>1 DEF CastUnit
<1>6. CASE unit.state = "StFinishing"
  <2>1. after = [state |-> "StIdle", data |-> Finished(unit.data)]
    BY <1>6 DEF NextUnit
  <2>2. QED
    BY <1>2, <1>6, <2>1 DEF CastUnit
<1>7. QED
  BY <1>1, <1>3, <1>4, <1>5, <1>6

LEMMA CastUnitsStep ==
    ASSUME NEW units \in [Units -> CastUnit], NEW starting \in SUBSET Units,
           NEW after, after = NextUnits(units, starting)
    PROVE  /\ after \in [Units -> CastUnit]
           /\ \A k \in Dsrcs :
                 /\ units[FromInt(k)].state = "StIdle" /\ FromInt(k) \notin starting
                        => after[FromInt(k)] = units[FromInt(k)]
                 /\ units[FromInt(k)].state = "StIdle" /\ FromInt(k) \in starting
                        => after[FromInt(k)] = [state |-> "StFinishing", data |-> "part"]
                 /\ units[FromInt(k)] = [state |-> "StFinishing", data |-> "part"]
                        => after[FromInt(k)] = [state |-> "StIdle", data |-> "whole"]
<1>1. ASSUME NEW u \in Units
      PROVE  /\ after[u] = NextUnit(u, units[u], u \in starting)
             /\ units[u] \in CastUnit
  BY DEF NextUnits
<1>2. ASSUME NEW u \in Units
      PROVE  /\ after[u] \in CastUnit
             /\ units[u].state = "StIdle" /\ u \notin starting => after[u] = units[u]
             /\ units[u].state = "StIdle" /\ u \in starting /\ u[2] = "IntToBFloat16"
                    => after[u] = [state |-> "StFinishing", data |-> "part"]
             /\ units[u] = [state |-> "StFinishing", data |-> "part"]
                    => after[u] = [state |-> "StIdle", data |-> "whole"]
  <2> DEFINE start == u \in starting
  <2>1. start \in BOOLEAN
    OBVIOUS
  <2>2. after[u] = NextUnit(u, units[u], start) /\ units[u] \in CastUnit
    BY <1>1
  <2> HIDE DEF start
  <2>3. /\ after[u] \in CastUnit
        /\ units[u].state = "StIdle" /\ ~start => after[u] = units[u]
        /\ units[u].state = "StIdle" /\ start /\ u[2] = "IntToBFloat16"
               => after[u] = [state |-> "StFinishing", data |-> "part"]
        /\ units[u] = [state |-> "StFinishing", data |-> "part"]
               => after[u] = [state |-> "StIdle", data |-> "whole"]
    BY <2>1, <2>2, CastUnitStep
  <2>4. QED
    BY <2>3 DEF start
<1>3. after \in [Units -> CastUnit]
  BY <1>2 DEF NextUnits
<1>4. \A k \in Dsrcs : FromInt(k) \in Units /\ FromInt(k)[2] = "IntToBFloat16"
  BY DEF Units, Ways, Dsrcs, FromInt
<1>5. QED
  BY <1>2, <1>3, <1>4

LEMMA NeedingFromInt ==
    ASSUME NEW casts
    PROVE  /\ Needing(casts) \in SUBSET Units
           /\ \A k \in Dsrcs : FromInt(k) \in Needing(casts) <=> casts[k] = "IntToBFloat16"
  BY DEF Needing, Units, Ways, Dsrcs, FromInt

LEMMA CastersStart ==
    ASSUME NEW cs \in CastTypes, NEW casts, NEW nonzero \in BOOLEAN, CastsRest(cs),
           NEW after, after = NextCastScalars(cs, TRUE, casts, nonzero)
    PROVE  CastsServe(after, casts)
<1>1. cs.units \in [Units -> CastUnit]
  BY DEF CastTypes
<1> DEFINE units == NextUnits(cs.units, Needing(casts))
<1>2. \A k \in Dsrcs : IF casts[k] = "IntToBFloat16"
                       THEN units[FromInt(k)] = [state |-> "StFinishing", data |-> "part"]
                       ELSE units[FromInt(k)].state = "StIdle"
  BY <1>1, CastUnitsStep, NeedingFromInt DEF CastsRest
<1>3. CASE Needing(casts) = {}
  <2>1. after = [cs EXCEPT !.valid = TRUE, !.captured = {}, !.units = units]
    BY <1>3 DEF CastsRest, NextCastScalars
  <2>2. after.state = "CastStNoWait" /\ after.units = units
    BY ONLY <2>1, cs \in CastTypes, CastsRest(cs) DEF CastTypes, CastsRest
  <2>3. \A k \in Dsrcs : casts[k] # "IntToBFloat16"
    BY <1>3, NeedingFromInt
  <2> HIDE DEF units
  <2>4. QED
    BY ONLY <1>2, <2>2, <2>3 DEF CastsServe
<1>4. CASE Needing(casts) # {}
  <2>1. after = [state |-> "CastStWaitForBFloat16Caster", valid |-> FALSE,
                 captured |-> Needing(casts), units |-> units]
    BY <1>4 DEF CastsRest, NextCastScalars
  <2> HIDE DEF units
  <2>2. /\ after.state = "CastStWaitForBFloat16Caster" /\ ~after.valid /\ after.units = units
    BY ONLY <2>1
  <2>3. QED
    BY ONLY <1>2, <2>2 DEF CastsServe
<1>5. QED
  BY <1>3, <1>4

LEMMA CastersMove ==
    ASSUME NEW cs \in CastTypes, NEW casts, NEW nonzero \in BOOLEAN,
           NEW after, after = NextCastScalars(cs, FALSE, casts, nonzero)
    PROVE  /\ CastsRest(cs) => CastsRest(after)
           /\ \A served : CastsServe(cs, served) =>
                 IF cs.valid THEN CastsRest(after) ELSE CastsServe(after, served)
<1> DEFINE units == NextUnits(cs.units, {})
<1>1. /\ cs.units \in [Units -> CastUnit] /\ cs.valid \in BOOLEAN
      /\ cs.state \in {"CastStNoWait", "CastStWaitForBFloat16Caster"}
  BY DEF CastTypes
<1>2. \A k \in Dsrcs :
         /\ cs.units[FromInt(k)].state = "StIdle" => units[FromInt(k)] = cs.units[FromInt(k)]
         /\ cs.units[FromInt(k)] = [state |-> "StFinishing", data |-> "part"]
                => units[FromInt(k)].state = "StIdle" /\ units[FromInt(k)].data = "whole"
  BY <1>1, CastUnitsStep
<1>3. /\ after.units = units
      /\ cs.state = "CastStNoWait" => after.state = "CastStNoWait"
      /\ cs.state = "CastStWaitForBFloat16Caster" =>
             (after.state = "CastStWaitForBFloat16Caster" => after.valid = cs.valid)
  <2>1. CASE cs.state = "CastStNoWait"
    <3>1. after = [cs EXCEPT !.valid = FALSE, !.captured = cs.captured, !.units = units]
      BY <2>1 DEF NextCastScalars
    <3>2. QED
      BY ONLY <2>1, <3>1, cs \in CastTypes DEF CastTypes
  <2>2. CASE cs.state = "CastStWaitForBFloat16Caster"
    <3>1. after = IF ScalarsSeen(cs.units, cs.captured, nonzero)
                  THEN [cs EXCEPT !.state = "CastStNoWait", !.valid = TRUE, !.units = units]
                  ELSE [cs EXCEPT !.units = units]
      BY <2>2 DEF NextCastScalars
    <3>2. QED
      BY ONLY <2>2, <3>1, cs \in CastTypes DEF CastTypes
  <2>3. QED
    BY <1>1, <2>1, <2>2
<1> HIDE DEF units
<1>4. CastsRest(cs) => CastsRest(after)
  BY ONLY <1>2, <1>3 DEF CastsRest
<1>5. ASSUME NEW served, CastsServe(cs, served), cs.valid
      PROVE  CastsRest(after)
  BY ONLY <1>1, <1>2, <1>3, <1>5 DEF CastsRest, CastsServe
<1>6. ASSUME NEW served, CastsServe(cs, served), ~cs.valid
      PROVE  CastsServe(after, served)
  BY ONLY <1>1, <1>2, <1>3, <1>6 DEF CastsServe
<1>7. QED
  BY <1>1, <1>4, <1>5, <1>6

LEMMA CastersTypes ==
    ASSUME NEW cs \in CastTypes, NEW start \in BOOLEAN, NEW casts, NEW nonzero \in BOOLEAN,
           NEW after, after = NextCastScalars(cs, start, casts, nonzero)
    PROVE  after \in CastTypes
<1> DEFINE starting_any_cast == start /\ cs.state = "CastStNoWait"
           starting == IF starting_any_cast THEN Needing(casts) ELSE {}
           units == NextUnits(cs.units, starting)
           captured == IF starting_any_cast THEN starting ELSE cs.captured
           seen == ScalarsSeen(cs.units, cs.captured, nonzero)
<1>1. /\ cs.units \in [Units -> CastUnit] /\ cs.captured \in SUBSET Units /\ cs.valid \in BOOLEAN
      /\ cs.state \in {"CastStNoWait", "CastStWaitForBFloat16Caster"}
  BY DEF CastTypes
<1>2. starting \in SUBSET Units
  BY NeedingFromInt
<1>3. units \in [Units -> CastUnit]
  BY <1>1, <1>2, CastUnitsStep
<1>4. captured \in SUBSET Units /\ starting_any_cast \in BOOLEAN
  BY <1>1, <1>2
<1>5. \/ after = [cs EXCEPT !.valid = starting_any_cast, !.captured = captured, !.units = units]
      \/ after = [state |-> "CastStWaitForBFloat16Caster", valid |-> FALSE,
                  captured |-> captured, units |-> units]
      \/ after = [cs EXCEPT !.state = "CastStNoWait", !.valid = TRUE, !.units = units]
      \/ after = [cs EXCEPT !.units = units]
  BY <1>1 DEF NextCastScalars
<1> HIDE DEF starting_any_cast, starting, units, captured
<1>6. CASE after = [cs EXCEPT !.valid = starting_any_cast, !.captured = captured,
                              !.units = units]
  BY ONLY <1>3, <1>4, <1>6, cs \in CastTypes DEF CastTypes
<1>7. CASE after = [state |-> "CastStWaitForBFloat16Caster", valid |-> FALSE,
                    captured |-> captured, units |-> units]
  BY ONLY <1>3, <1>4, <1>7 DEF CastTypes
<1>8. CASE after = [cs EXCEPT !.state = "CastStNoWait", !.valid = TRUE, !.units = units]
  BY ONLY <1>3, <1>8, cs \in CastTypes DEF CastTypes
<1>9. CASE after = [cs EXCEPT !.units = units]
  BY ONLY <1>3, <1>9, cs \in CastTypes DEF CastTypes
<1>10. QED
  BY <1>5, <1>6, <1>7, <1>8, <1>9

LEMMA AgedScalarsIs ==
    ASSUME NEW cs \in CastTypes
    PROVE  /\ AgedScalars(cs) \in CastTypes
           /\ CastsRest(cs) => CastsRest(AgedScalars(cs))
<1> DEFINE units == [u \in Units |-> [cs.units[u] EXCEPT !.data = Aged(@)]]
<1>1. AgedScalars(cs) = [cs EXCEPT !.units = units]
  BY DEF AgedScalars
<1>2. ASSUME NEW u \in Units
      PROVE  units[u] \in CastUnit /\ units[u].state = cs.units[u].state
  <2>1. cs.units[u] \in CastUnit
    BY DEF CastTypes
  <2>2. QED
    BY <2>1, WorthTypes DEF CastUnit
<1>3. units \in [Units -> CastUnit]
  BY <1>2
<1> HIDE DEF units
<1>4. AgedScalars(cs) \in CastTypes
  BY <1>1, <1>3 DEF CastTypes
<1>5. AgedScalars(cs).state = cs.state /\ AgedScalars(cs).units = units
  BY <1>1 DEF CastTypes
<1>6. \A k \in Dsrcs : FromInt(k) \in Units
  BY DEF Units, Ways, FromInt
<1>7. QED
  BY <1>2, <1>4, <1>5, <1>6 DEF CastsRest

-----------------------------------------------------------------------------
(* The stage: when it starts a unit, waits for it and lets the instruction   *)
(* go.                                                                       *)

Leaving == ex_state' = "StRegular"
UnitType(instr) == MultiCycleOpType(Ex!InstrToUse(instr))
Going == ex_state # "StWaitForMultiCycleOp" /\ ex_state' = "StWaitForMultiCycleOp"

\* A unit is started by an instruction that then waits for it, and an instruction
\* that waits leaves as soon as the unit is valid.
Follows(type, start, valid) ==
    IF start THEN ~Awaits(type) /\ Awaits(type)' /\ ~Leaving
    ELSE IF Awaits(type) THEN (Awaits(type)' <=> ~valid) /\ (Leaving <=> valid)
    ELSE ~Awaits(type)'

LEMMA BubbleIs == Bubble.kind = "bubble" /\ Bubble = [kind |-> "bubble"]
  BY DEF Bubble, Ex!Bubble

LEMMA BubbleNeedsNothing ==
    /\ MultiCycleOpType(Bubble) = "None" /\ AwaitedCast(Bubble) = "None" /\ ~NeedsAnyCast(Bubble)
<1>1. MultiCycleOpType(Bubble) = "None"
  BY BubbleIs DEF MultiCycleOpType
<1>2. AwaitedCast(Bubble) = "None"
  BY BubbleIs DEF AwaitedCast
<1>3. IsBubble(Bubble)
  BY BubbleIs DEF IsBubble
<1>4. \A k \in Dsrcs : NeededCasts(Bubble)[k] = "None"
  BY <1>3 DEF NeededCasts
<1>5. QED
  BY <1>1, <1>2, <1>4 DEF NeedsAnyCast

LEMMA OpTypes ==
    ASSUME NEW instr
    PROVE  MultiCycleOpType(instr) \in {"None", "Mul", "Div", "Fpu"}
  BY DEF MultiCycleOpType

LEMMA CastTypesOf ==
    ASSUME TypeOK, NEW instr \in menu
    PROVE  /\ instr.kind \in {"alu", "sim", "ctrl", "ldst", "nop"}
           /\ instr.op_type \in {"Scalar", "Vector"} /\ instr.dst \in Types
           /\ AwaitedCast(instr) \in {"None", "Scalar", "Vector"}
<1>1. menu \in Menus
  BY DEF TypeOK
<1>2. /\ instr.kind \in {"alu", "sim", "ctrl", "ldst", "nop"}
      /\ instr.op_type \in {"Scalar", "Vector"} /\ instr.dst \in Types
  BY <1>1, MenusAssumption
<1>3. QED
  BY <1>2 DEF AwaitedCast

\* The conjuncts of an edge, named.
LEMMA EdgeIs ==
    ASSUME NEW instr, NEW nonzero, NEW early, Edge(instr, nonzero, early)
    PROVE  LET to_use == Ex!InstrToUse(instr)
               type == UnitType(instr)
               need_any_cast == ex_state = "StRegular" /\ NeedsAnyCast(instr)
           IN  /\ \E caster_valid \in {cast_scalars.valid, cast_vectors.valid} :
                     /\ ex_state = "StWaitForScalarCaster" => caster_valid = cast_scalars.valid
                     /\ ex_state' = Ex!NextState(AwaitedCast(to_use), type # "None",
                                                 caster_valid, OpValid(type))
               /\ Ex!CaptureInstr(instr, type # "None", ex_state')
               /\ CastersClock(need_any_cast /\ instr.op_type = "Scalar",
                               need_any_cast /\ instr.op_type = "Vector",
                               NeededCasts(to_use), nonzero, Leaving)
               /\ UnitsClock(type, Going, IF type = "Mul" THEN Size(to_use.dst) ELSE 0,
                             IF type = "Fpu" THEN to_use.oper ELSE "None", early, Leaving)
               /\ menu' = menu
  BY DEF Edge, UnitType, Leaving, Going, Ex!Clock, Ex!Stall

Stage == {"StRegular", "StWaitForScalarCaster", "StWaitForVectorCaster",
          "StInjectCastedScalars", "StUseCastedDataSingleCycle",
          "StUseCastedDataMultiCycle", "StWaitForMultiCycleOp"}
StageTypes ==
    /\ ex_state \in Stage
    /\ IF ex_state = "StRegular" THEN captured_instr = Bubble /\ captured_multi = FALSE
       ELSE captured_instr \in menu /\ captured_multi = (TypeInStage # "None")
    /\ ex_state \in {"StUseCastedDataMultiCycle", "StWaitForMultiCycleOp"} => captured_multi

LEMMA AwaitsNext ==
    /\ TypeInStage' = MultiCycleOpType(captured_instr')
    /\ \A type \in {"Mul", "Div", "Fpu"} :
          Awaits(type)' <=> ex_state' = "StWaitForMultiCycleOp" /\ TypeInStage' = type
  BY DEF Awaits, TypeInStage

\* From StRegular: the instruction of this cycle.
LEMMA RegularStep ==
    ASSUME TypeOK, NEW instr \in Incoming, NEW nonzero, NEW early,
           Edge(instr, nonzero, early), ex_state = "StRegular"
    PROVE  /\ StageTypes' /\ Ex!InstrToUse(instr) = instr /\ UnitType(instr) = MultiCycleOpType(instr)
           /\ ~Leaving => instr \in menu /\ captured_instr' = instr
           /\ ex_state' = "StWaitForScalarCaster" <=> AwaitedCast(instr) = "Scalar"
           /\ Going => UnitType(instr) # "None"
           /\ Going <=> ex_state' = "StWaitForMultiCycleOp"
<1>1. /\ Ex!InstrToUse(instr) = instr /\ UnitType(instr) = MultiCycleOpType(instr)
  BY DEF Ex!InstrToUse, UnitType
<1>2. instr \in menu \cup {Bubble}
  BY DEF Incoming
<1>3. AwaitedCast(instr) \in {"None", "Scalar", "Vector"}
  BY <1>2, BubbleNeedsNothing, CastTypesOf
<1> DEFINE multi == MultiCycleOpType(instr) # "None"
<1>4. ex_state' = Ex!NextFromRegular(AwaitedCast(instr), multi)
  BY <1>1, EdgeIs DEF Ex!NextState
<1>5. Ex!CaptureInstr(instr, multi, ex_state') /\ menu' = menu
  BY <1>1, EdgeIs
<1>6. multi \in BOOLEAN
  OBVIOUS
<1>7. multi <=> MultiCycleOpType(instr) # "None"
  OBVIOUS
<1> HIDE DEF multi
<1>8. /\ AwaitedCast(instr) = "Scalar" => ex_state' = "StWaitForScalarCaster"
      /\ AwaitedCast(instr) = "Vector" => ex_state' = "StWaitForVectorCaster"
      /\ AwaitedCast(instr) = "None" /\ multi => ex_state' = "StWaitForMultiCycleOp"
      /\ AwaitedCast(instr) = "None" /\ ~multi => ex_state' = "StRegular"
  BY <1>4, <1>6 DEF Ex!NextFromRegular
<1>9. /\ ex_state' = "StRegular" => captured_instr' = Bubble /\ captured_multi' = FALSE
      /\ ex_state' # "StRegular" => captured_instr' = instr /\ captured_multi' = multi
  BY <1>5 DEF Ex!CaptureInstr, Ex!Stall, Bubble
<1>10. ex_state' # "StRegular" => instr \in menu
  BY <1>2, <1>7, <1>8, BubbleNeedsNothing
<1>11. StageTypes'
  <2>1. ex_state' \in Stage
    BY <1>3, <1>6, <1>8 DEF Stage
  <2>2. ex_state' # "StRegular" => captured_multi' = (TypeInStage' # "None")
    BY <1>6, <1>7, <1>9, AwaitsNext
  <2>3. ex_state' \in {"StUseCastedDataMultiCycle", "StWaitForMultiCycleOp"} => captured_multi'
    BY <1>3, <1>6, <1>8, <1>9
  <2>4. Bubble' = Bubble
    BY BubbleIs DEF Bubble
  <2>5. QED
    BY <1>5, <1>9, <1>10, <2>1, <2>2, <2>3, <2>4 DEF StageTypes, Stage
<1>12. QED
  BY <1>1, <1>3, <1>6, <1>7, <1>8, <1>9, <1>10, <1>11 DEF Leaving, Going

\* From the other states: the instruction that was captured.
LEMMA CapturedStep ==
    ASSUME TypeOK, NEW instr \in Incoming, NEW nonzero, NEW early,
           Edge(instr, nonzero, early), ex_state # "StRegular"
    PROVE  /\ StageTypes'
           /\ Ex!InstrToUse(instr) = captured_instr /\ UnitType(instr) = TypeInStage
           /\ ~Leaving => captured_instr' = captured_instr /\ TypeInStage' = TypeInStage
           /\ ex_state' = "StWaitForScalarCaster" => ex_state = "StWaitForScalarCaster"
           /\ ex_state = "StWaitForScalarCaster" =>
                 /\ ~Leaving
                 /\ cast_scalars.valid <=> ex_state' # "StWaitForScalarCaster"
           /\ IF ex_state = "StWaitForMultiCycleOp"
              THEN IF OpValid(TypeInStage) THEN Leaving ELSE ex_state' = ex_state
              ELSE Going => TypeInStage # "None"
<1>1. Ex!InstrToUse(instr) = captured_instr /\ UnitType(instr) = TypeInStage
  BY DEF Ex!InstrToUse, UnitType, TypeInStage
<1>2. PICK caster_valid \in {cast_scalars.valid, cast_vectors.valid} :
         /\ ex_state = "StWaitForScalarCaster" => caster_valid = cast_scalars.valid
         /\ ex_state' = Ex!NextState(AwaitedCast(captured_instr), TypeInStage # "None",
                                     caster_valid, OpValid(TypeInStage))
  BY <1>1, EdgeIs
<1>3. Ex!CaptureInstr(instr, TypeInStage # "None", ex_state') /\ menu' = menu
  BY <1>1, EdgeIs
<1>4. /\ ex_state \in Stage /\ captured_instr \in menu
      /\ captured_multi \in BOOLEAN /\ (captured_multi <=> TypeInStage # "None")
      /\ ex_state \in {"StUseCastedDataMultiCycle", "StWaitForMultiCycleOp"} => captured_multi
  BY DEF TypeOK, Stage
<1>5. /\ ex_state = "StWaitForScalarCaster" =>
             ex_state' = IF caster_valid THEN "StInjectCastedScalars" ELSE ex_state
      /\ ex_state = "StWaitForVectorCaster" =>
             ex_state' = IF caster_valid THEN Ex!UseCastedData ELSE ex_state
      /\ ex_state = "StInjectCastedScalars" => ex_state' = Ex!UseCastedData
      /\ ex_state = "StUseCastedDataSingleCycle" => ex_state' = "StRegular"
      /\ ex_state = "StUseCastedDataMultiCycle" => ex_state' = "StWaitForMultiCycleOp"
      /\ ex_state = "StWaitForMultiCycleOp" =>
             ex_state' = IF OpValid(TypeInStage) THEN "StRegular" ELSE ex_state
  BY <1>2 DEF Ex!NextState
<1>6. /\ captured_multi => Ex!UseCastedData = "StUseCastedDataMultiCycle"
      /\ ~captured_multi => Ex!UseCastedData = "StUseCastedDataSingleCycle"
  BY <1>4 DEF Ex!UseCastedData
<1>7. /\ ex_state' = "StRegular" => captured_instr' = Bubble /\ captured_multi' = FALSE
      /\ ex_state' # "StRegular" => captured_instr' = captured_instr
                                    /\ captured_multi' = captured_multi
  BY <1>3 DEF Ex!CaptureInstr, Ex!Stall, Bubble
<1>8. ex_state' # "StRegular" => TypeInStage' = TypeInStage
  BY <1>7, AwaitsNext DEF TypeInStage
<1>9. StageTypes'
  <2>1. ex_state' \in Stage
    BY <1>4, <1>5, <1>6 DEF Stage
  <2>2. ex_state' # "StRegular" => captured_multi' = (TypeInStage' # "None")
    BY <1>4, <1>7, <1>8
  <2>3. ex_state' \in {"StUseCastedDataMultiCycle", "StWaitForMultiCycleOp"} => captured_multi'
    BY <1>4, <1>5, <1>6, <1>7 DEF Stage
  <2>4. Bubble' = Bubble
    BY BubbleIs DEF Bubble
  <2>5. QED
    BY <1>3, <1>4, <1>7, <2>1, <2>2, <2>3, <2>4 DEF StageTypes, Stage
<1>10. /\ ex_state' = "StWaitForScalarCaster" => ex_state = "StWaitForScalarCaster"
       /\ ex_state = "StWaitForScalarCaster" =>
             /\ ~Leaving
             /\ cast_scalars.valid <=> ex_state' # "StWaitForScalarCaster"
  BY <1>2, <1>4, <1>5, <1>6 DEF Leaving, Stage
<1>11. IF ex_state = "StWaitForMultiCycleOp"
       THEN IF OpValid(TypeInStage) THEN Leaving ELSE ex_state' = ex_state
       ELSE Going => TypeInStage # "None"
  BY <1>4, <1>5, <1>6 DEF Leaving, Going, Stage
<1>12. QED
  BY <1>1, <1>7, <1>8, <1>9, <1>10, <1>11 DEF Leaving

LEMMA StageFollows ==
    ASSUME TypeOK, NEW instr \in Incoming, NEW nonzero, NEW early,
           Edge(instr, nonzero, early),
           NEW type \in {"Mul", "Div", "Fpu"}, NEW valid \in BOOLEAN, valid <=> OpValid(type),
           NEW start \in BOOLEAN, start <=> Going /\ UnitType(instr) = type
    PROVE  /\ Follows(type, start, valid)
           /\ start => captured_instr' = Ex!InstrToUse(instr)
           /\ Awaits(type) /\ ~Leaving => captured_instr' = captured_instr
<1>1. Awaits(type)' <=> ex_state' = "StWaitForMultiCycleOp" /\ TypeInStage' = type
  BY AwaitsNext
<1>2. Awaits(type) <=> ex_state = "StWaitForMultiCycleOp" /\ TypeInStage = type
  BY DEF Awaits
<1>3. CASE ex_state = "StRegular"
  <2>1. /\ Ex!InstrToUse(instr) = instr /\ UnitType(instr) = MultiCycleOpType(instr)
        /\ ~Leaving => captured_instr' = instr
        /\ Going <=> ex_state' = "StWaitForMultiCycleOp"
    BY <1>3, RegularStep
  <2>2. ~Leaving => TypeInStage' = UnitType(instr)
    BY <2>1, AwaitsNext
  <2>3. QED
    BY <1>1, <1>2, <1>3, <2>1, <2>2 DEF Follows, Leaving, Going
<1>4. CASE ex_state # "StRegular"
  <2>1. /\ Ex!InstrToUse(instr) = captured_instr /\ UnitType(instr) = TypeInStage
        /\ ~Leaving => captured_instr' = captured_instr /\ TypeInStage' = TypeInStage
        /\ IF ex_state = "StWaitForMultiCycleOp"
           THEN IF OpValid(TypeInStage) THEN Leaving ELSE ex_state' = ex_state
           ELSE Going => TypeInStage # "None"
    BY <1>4, CapturedStep
  <2>2. CASE Awaits(type)
    <3>1. ~start
      BY <1>2, <2>2 DEF Going
    <3>2. IF valid THEN Leaving ELSE ex_state' = ex_state
      BY <1>2, <2>1, <2>2
    <3>3. (Awaits(type)' <=> ~valid) /\ (Leaving <=> valid)
      BY <1>1, <1>2, <2>1, <2>2, <3>2 DEF Leaving
    <3>4. QED
      BY <2>1, <2>2, <3>1, <3>3 DEF Follows
  <2>3. CASE ~Awaits(type)
    <3>1. CASE start
      BY <1>1, <2>1, <2>3, <3>1 DEF Follows, Leaving, Going
    <3>2. CASE ~start
      <4>1. ~Awaits(type)'
        <5>1. SUFFICES ASSUME ex_state' = "StWaitForMultiCycleOp", TypeInStage' = type
                       PROVE  FALSE
          BY <1>1
        <5>2. TypeInStage = type /\ UnitType(instr) = type
          BY <2>1, <5>1 DEF Leaving
        <5>3. QED
          BY <1>2, <2>3, <3>2, <5>1, <5>2 DEF Going
      <4>2. QED
        BY <2>3, <3>2, <4>1 DEF Follows
    <3>3. QED
      BY <3>1, <3>2
  <2>4. QED
    BY <2>2, <2>3
<1>5. QED
  BY <1>3, <1>4

-----------------------------------------------------------------------------
(* The invariant, unit by unit. *)

MulInv == vector_mul \in MulTypes
          /\ IF Awaits("Mul") THEN MulServes(vector_mul) ELSE MulRests(vector_mul)
DivInv == vector_div \in DivTypes
          /\ IF Awaits("Div") THEN DivServes(vector_div) ELSE DivRests(vector_div)
FpuInv == /\ FpuTypes(vector_fpu)
          /\ IF Awaits("Fpu") THEN FpuServes(vector_fpu, captured_instr.oper)
             ELSE FpuRests(vector_fpu)
CastInv == /\ cast_scalars \in CastTypes
           /\ (\A instr \in menu : ~Unawaited(instr)) =>
                 IF ex_state = "StWaitForScalarCaster"
                 THEN CastsServe(cast_scalars, [k \in Dsrcs |-> NeededCast(captured_instr, k)])
                 ELSE CastsRest(cast_scalars)

LEMMA UnitsInvIs ==
    UnitsInv <=> menu \in Menus /\ StageTypes /\ MulInv /\ DivInv /\ FpuInv /\ CastInv
<1>1. TypeOK <=> /\ menu \in Menus /\ StageTypes
                 /\ vector_mul \in MulTypes /\ vector_div \in DivTypes
                 /\ FpuTypes(vector_fpu) /\ cast_scalars \in CastTypes
  BY DEF TypeOK, StageTypes, Stage, MulTypes, DivTypes, FpuTypes, CastTypes
<1>2. ScalarCastsServe <=>
         IF ex_state = "StWaitForScalarCaster"
         THEN CastsServe(cast_scalars, [k \in Dsrcs |-> NeededCast(captured_instr, k)])
         ELSE CastsRest(cast_scalars)
  BY DEF ScalarCastsServe, CastsServe, CastsRest, IntToBFloat16, FromInt
<1>3. QED
  BY <1>1, <1>2 DEF UnitsInv, MulInv, DivInv, FpuInv, CastInv

LEMMA MulKept ==
    ASSUME TypeOK, MulInv, NEW instr \in Incoming, NEW nonzero, NEW early,
           Edge(instr, nonzero, early)
    PROVE  MulInv'
<1> DEFINE start == Going /\ UnitType(instr) = "Mul"
           size == IF UnitType(instr) = "Mul" THEN Size(Ex!InstrToUse(instr).dst) ELSE 0
           after == NextMul(vector_mul, start, size)
<1>1. vector_mul' = IF Leaving THEN AgedMul(after) ELSE after
  BY EdgeIs DEF UnitsClock
<1>2. start \in BOOLEAN
  OBVIOUS
<1>3. size \in Nat
  <2>1. SUFFICES ASSUME UnitType(instr) = "Mul"
                 PROVE  Size(Ex!InstrToUse(instr).dst) \in Nat
    OBVIOUS
  <2>2. Ex!InstrToUse(instr) # Bubble
    BY <2>1, BubbleNeedsNothing DEF UnitType
  <2>3. Ex!InstrToUse(instr) \in menu
    BY <2>2 DEF Ex!InstrToUse, Incoming, TypeOK
  <2>4. Ex!InstrToUse(instr).dst \in Types
    BY <2>3, CastTypesOf
  <2>5. QED
    BY <2>4 DEF Types, Size
<1>4. vector_mul \in MulTypes /\ vector_mul.valid \in BOOLEAN
  BY DEF MulInv, MulTypes
<1>5. start <=> Going /\ UnitType(instr) = "Mul"
  OBVIOUS
<1> HIDE DEF start, size
<1>6. Follows("Mul", start, vector_mul.valid)
  BY <1>2, <1>4, <1>5, StageFollows DEF OpValid
<1>7. /\ after \in MulTypes
      /\ MulRests(vector_mul) => IF start THEN MulServes(after) ELSE MulRests(after)
      /\ MulServes(vector_mul) /\ ~start =>
             /\ vector_mul.valid => MulRests(after)
             /\ ~vector_mul.valid => MulServes(after)
  BY <1>2, <1>3, <1>4, MulStep
<1> HIDE DEF after
<1>8. MulRests(after) => AgedMul(after) \in MulTypes /\ MulRests(AgedMul(after))
  BY <1>7, AgedMulIs
<1>9. IF Awaits("Mul")' THEN MulServes(after) /\ ~Leaving ELSE MulRests(after)
  BY <1>4, <1>6, <1>7 DEF MulInv, Follows
<1>10. vector_mul' \in MulTypes
       /\ IF Awaits("Mul")' THEN MulServes(vector_mul') ELSE MulRests(vector_mul')
  BY <1>1, <1>7, <1>8, <1>9
<1>11. MulServes(vector_mul)' = MulServes(vector_mul') /\ MulRests(vector_mul)' = MulRests(vector_mul')
  BY DEF MulServes, MulRests
<1>12. QED
  BY <1>10, <1>11 DEF MulInv, MulTypes

LEMMA DivKept ==
    ASSUME TypeOK, DivInv, NEW instr \in Incoming, NEW nonzero, NEW early \in BOOLEAN,
           Edge(instr, nonzero, early)
    PROVE  DivInv'
<1> DEFINE start == Going /\ UnitType(instr) = "Div"
           after == NextDiv(vector_div, start, early)
<1>1. vector_div' = IF Leaving THEN AgedDiv(after) ELSE after
  BY EdgeIs DEF UnitsClock
<1>2. start \in BOOLEAN /\ (start <=> Going /\ UnitType(instr) = "Div")
  OBVIOUS
<1>3. vector_div \in DivTypes /\ vector_div.ready \in BOOLEAN
  BY DEF DivInv, DivTypes
<1> HIDE DEF start
<1>4. Follows("Div", start, vector_div.ready)
  BY <1>2, <1>3, StageFollows DEF OpValid
<1>5. /\ after \in DivTypes
      /\ DivRests(vector_div) => IF start THEN DivServes(after) ELSE DivRests(after)
      /\ DivServes(vector_div) /\ ~start =>
             /\ vector_div.ready => DivRests(after)
             /\ ~vector_div.ready => DivServes(after)
  BY <1>2, <1>3, DivStep
<1> HIDE DEF after
<1>6. DivRests(after) => AgedDiv(after) \in DivTypes /\ DivRests(AgedDiv(after))
  BY <1>5, AgedDivIs
<1>7. IF Awaits("Div")' THEN DivServes(after) /\ ~Leaving ELSE DivRests(after)
  BY <1>3, <1>4, <1>5 DEF DivInv, Follows
<1>8. vector_div' \in DivTypes
      /\ IF Awaits("Div")' THEN DivServes(vector_div') ELSE DivRests(vector_div')
  BY <1>1, <1>5, <1>6, <1>7
<1>9. DivServes(vector_div)' = DivServes(vector_div') /\ DivRests(vector_div)' = DivRests(vector_div')
  BY DEF DivServes, DivRests
<1>10. QED
  BY <1>8, <1>9 DEF DivInv, DivTypes

LEMMA FpuKept ==
    ASSUME TypeOK, FpuInv, NEW instr \in Incoming, NEW nonzero, NEW early,
           Edge(instr, nonzero, early)
    PROVE  FpuInv'
<1> DEFINE start == Going /\ UnitType(instr) = "Fpu"
           oper == IF UnitType(instr) = "Fpu" THEN Ex!InstrToUse(instr).oper ELSE "None"
           after == NextFpu(vector_fpu, start, oper)
<1>1. vector_fpu' = IF Leaving THEN AgedFpu(after) ELSE after
  BY EdgeIs DEF UnitsClock
<1>2. start \in BOOLEAN /\ (start <=> Going /\ UnitType(instr) = "Fpu")
      /\ (start => oper = Ex!InstrToUse(instr).oper)
  OBVIOUS
<1> HIDE DEF start, oper
<1> DEFINE valid == FpuIsDone(vector_fpu)
<1>3. FpuTypes(vector_fpu) /\ valid \in BOOLEAN
  <2>1. \A submodule \in {"add", "slt", "mul", "div"} : vector_fpu[submodule].valid \in BOOLEAN
    BY DEF FpuInv, FpuTypes, Unit
  <2>2. Serving(vector_fpu.oper) \in {"add", "slt", "mul", "div", "none"}
    BY ServingTypes
  <2>3. QED
    BY <2>1, <2>2 DEF FpuInv, FpuIsDone
<1>4. OpValid("Fpu") <=> valid
  BY DEF OpValid, FpuValid, FpuIsDone
<1> HIDE DEF valid
<1>5. /\ Follows("Fpu", start, valid)
      /\ start => captured_instr' = Ex!InstrToUse(instr)
      /\ Awaits("Fpu") /\ ~Leaving => captured_instr' = captured_instr
  BY <1>2, <1>3, <1>4, StageFollows
<1>6. DOMAIN after = {"oper", "add", "slt", "mul", "div", "long_div"}
  BY FpuDomain
<1>7. CASE start
  <2>1. after = NextFpu(vector_fpu, TRUE, oper)
    BY <1>2, <1>7
  <2>2. FpuRests(vector_fpu) /\ ~Leaving /\ Awaits("Fpu")' /\ oper = captured_instr'.oper
    BY <1>2, <1>5, <1>7 DEF FpuInv, Follows
  <2>3. FpuTypes(after) /\ FpuServes(after, oper)
    BY <1>3, <2>1, <2>2, FpuStarts
  <2>4. QED
    BY <1>1, <2>2, <2>3 DEF FpuInv, FpuTypes, FpuServes
<1>8. CASE ~start
  <2>1. after = NextFpu(vector_fpu, FALSE, oper)
    BY <1>2, <1>8
  <2>2. /\ FpuTypes(after)
        /\ FpuRests(vector_fpu) => FpuRests(after)
        /\ \A served : FpuServes(vector_fpu, served) =>
              IF valid THEN FpuRests(after) ELSE FpuServes(after, served)
    BY <1>3, <2>1, FpuMoves DEF valid
  <2> HIDE DEF after
  <2>3. IF Awaits("Fpu")' THEN FpuServes(after, captured_instr'.oper) /\ ~Leaving
        ELSE FpuRests(after)
    BY <1>3, <1>5, <1>8, <2>2 DEF FpuInv, Follows
  <2>4. FpuRests(after) => FpuTypes(AgedFpu(after)) /\ FpuRests(AgedFpu(after))
    BY <1>6, <2>2, AgedFpuIs
  <2>5. /\ FpuTypes(vector_fpu')
        /\ IF Awaits("Fpu")' THEN FpuServes(vector_fpu', captured_instr'.oper)
           ELSE FpuRests(vector_fpu')
    BY <1>1, <2>2, <2>3, <2>4
  <2>6. /\ FpuTypes(vector_fpu)' = FpuTypes(vector_fpu')
        /\ FpuRests(vector_fpu)' = FpuRests(vector_fpu')
        /\ FpuServes(vector_fpu, captured_instr.oper)'
               = FpuServes(vector_fpu', captured_instr'.oper)
    BY DEF FpuTypes, FpuRests, FpuServes, FpuCanAccept
  <2>7. QED
    BY <2>5, <2>6 DEF FpuInv
<1>9. QED
  BY <1>2, <1>7, <1>8

LEMMA CastsKept ==
    ASSUME TypeOK, CastInv, NEW instr \in Incoming, NEW nonzero \in BOOLEAN, NEW early,
           Edge(instr, nonzero, early)
    PROVE  CastInv'
<1> DEFINE start == (ex_state = "StRegular" /\ NeedsAnyCast(instr)) /\ instr.op_type = "Scalar"
           casts == NeededCasts(Ex!InstrToUse(instr))
           after == NextCastScalars(cast_scalars, start, casts, nonzero)
           awaited(captured) == [k \in Dsrcs |-> NeededCast(captured, k)]
<1>1. cast_scalars' = IF Leaving THEN AgedScalars(after) ELSE after
  BY EdgeIs DEF CastersClock
<1>2. start \in BOOLEAN
  OBVIOUS
<1>3. cast_scalars \in CastTypes
  BY DEF CastInv
<1>4. after \in CastTypes
  BY <1>2, <1>3, CastersTypes
<1>5. AgedScalars(after) \in CastTypes /\ (CastsRest(after) => CastsRest(AgedScalars(after)))
  BY <1>4, AgedScalarsIs
<1>6. ASSUME \A one \in menu : ~Unawaited(one)
      PROVE  IF ex_state' = "StWaitForScalarCaster"
             THEN CastsServe(after, awaited(captured_instr')) /\ ~Leaving
             ELSE CastsRest(after)
  <2>1. CASE ex_state = "StRegular"
    <3>1. /\ Ex!InstrToUse(instr) = instr /\ (~Leaving => instr \in menu /\ captured_instr' = instr)
          /\ ex_state' = "StWaitForScalarCaster" <=> AwaitedCast(instr) = "Scalar"
      BY <2>1, RegularStep
    <3>2. CastsRest(cast_scalars)
      BY <1>6, <2>1 DEF CastInv
    <3>3. CASE AwaitedCast(instr) = "Scalar"
      <4>1. instr.kind = "alu" /\ NeedsAnyCast(instr) /\ instr.op_type = "Scalar" /\ start
        BY <2>1, <3>3 DEF AwaitedCast
      <4>2. casts = awaited(instr)
        BY <3>1, <4>1 DEF NeededCasts, IsBubble
      <4>3. after = NextCastScalars(cast_scalars, TRUE, awaited(instr), nonzero)
        BY <4>1, <4>2
      <4>4. CastsServe(after, awaited(instr))
        BY <1>3, <3>2, <4>3, CastersStart
      <4>5. QED
        BY <3>1, <3>3, <4>4 DEF Leaving
    <3>4. CASE AwaitedCast(instr) # "Scalar"
      <4>1. ~start
        <5>1. SUFFICES ASSUME NeedsAnyCast(instr), instr.op_type = "Scalar" PROVE FALSE
          OBVIOUS
        <5>2. instr \in menu
          BY <5>1, BubbleNeedsNothing DEF Incoming
        <5>3. instr.kind # "alu" /\ instr.kind # "bubble"
          BY <3>4, <5>1, <5>2, CastTypesOf DEF AwaitedCast
        <5>4. QED
          BY <1>6, <5>1, <5>2, <5>3 DEF Unawaited
      <4>2. after = NextCastScalars(cast_scalars, FALSE, casts, nonzero)
        BY <4>1
      <4> HIDE DEF after, start, casts
      <4>3. CastsRest(after)
        BY <1>3, <3>2, <4>2, CastersMove
      <4>4. QED
        BY <3>1, <3>4, <4>3
    <3>5. QED
      BY <3>3, <3>4
  <2>2. CASE ex_state # "StRegular"
    <3>1. /\ ~Leaving => captured_instr' = captured_instr
          /\ ex_state' = "StWaitForScalarCaster" => ex_state = "StWaitForScalarCaster"
          /\ ex_state = "StWaitForScalarCaster" =>
                ~Leaving /\ (cast_scalars.valid <=> ex_state' # "StWaitForScalarCaster")
      BY <2>2, CapturedStep
    <3>2. ~start
      BY <2>2
    <3>3. after = NextCastScalars(cast_scalars, FALSE, casts, nonzero)
      BY <3>2
    <3> HIDE DEF after, start, casts
    <3>4. /\ CastsRest(cast_scalars) => CastsRest(after)
          /\ \A served : CastsServe(cast_scalars, served) =>
                IF cast_scalars.valid THEN CastsRest(after) ELSE CastsServe(after, served)
      BY <1>3, <3>3, CastersMove
    <3>5. CASE ex_state = "StWaitForScalarCaster"
      <4>1. CastsServe(cast_scalars, awaited(captured_instr))
        BY <1>6, <3>5 DEF CastInv
      <4>2. captured_instr' = captured_instr
        BY <3>1, <3>5
      <4> HIDE DEF awaited
      <4>3. QED
        BY <3>1, <3>4, <3>5, <4>1, <4>2
    <3>6. CASE ex_state # "StWaitForScalarCaster"
      <4>1. CastsRest(cast_scalars)
        BY <1>6, <3>6 DEF CastInv
      <4>2. QED
        BY <3>1, <3>4, <3>6, <4>1
    <3>7. QED
      BY <3>5, <3>6
  <2>3. QED
    BY <2>1, <2>2
<1> HIDE DEF after
<1>7. cast_scalars' \in CastTypes
  BY <1>1, <1>4, <1>5
<1>8. ASSUME \A one \in menu' : ~Unawaited(one)
      PROVE  IF ex_state' = "StWaitForScalarCaster"
             THEN CastsServe(cast_scalars', awaited(captured_instr'))
             ELSE CastsRest(cast_scalars')
  <2>1. \A one \in menu : ~Unawaited(one)
    BY <1>8, EdgeIs
  <2> HIDE DEF awaited
  <2>2. QED
    BY <1>1, <1>5, <1>6, <2>1
<1>9. CastInv' <=> /\ cast_scalars' \in CastTypes
                   /\ (\A one \in menu' : ~Unawaited(one)) =>
                         IF ex_state' = "StWaitForScalarCaster"
                         THEN CastsServe(cast_scalars', awaited(captured_instr'))
                         ELSE CastsRest(cast_scalars')
  BY DEF CastInv, CastsServe, CastsRest, CastTypes, Unawaited
<1>10. QED
  BY <1>7, <1>8, <1>9

-----------------------------------------------------------------------------

LEMMA InitInv == Init => UnitsInv
<1> SUFFICES ASSUME Init PROVE UnitsInv
  OBVIOUS
<1>1. /\ menu \in Menus /\ ex_state = "StRegular" /\ captured_instr = Bubble
      /\ captured_multi = FALSE
      /\ cast_scalars = [state |-> "CastStNoWait", valid |-> FALSE, captured |-> {},
                         units |-> NewUnits]
      /\ vector_mul = [state |-> "StIdle", valid |-> FALSE, data |-> "none",
                       enable |-> FALSE, large |-> FALSE, sub |-> NewUnit]
      /\ vector_div = [state |-> "Idle", counter |-> 0, ready |-> FALSE,
                       work |-> "none", data |-> "none"]
      /\ vector_fpu = [oper |-> "Add_ThreeRegs", add |-> NewUnit, slt |-> NewUnit,
                       mul |-> NewUnit, div |-> NewUnit, long_div |-> NewUnit]
  BY DEF Init, Ex!Init, CastersInit, UnitsInit, Bubble
<1>2. StageTypes
  BY <1>1 DEF StageTypes, Stage
<1>3. NewUnit \in Unit /\ NewUnit.left = 0 /\ ~NewUnit.valid
  BY DEF NewUnit, Unit, Worth
<1>4. MulInv
  <2>1. vector_mul \in MulTypes
    BY <1>1, <1>3 DEF MulTypes, Worth
  <2>2. MulRests(vector_mul) /\ ~Awaits("Mul")
    BY <1>1, <1>3 DEF MulRests, Awaits
  <2>3. QED
    BY <2>1, <2>2 DEF MulInv
<1>5. DivInv
  BY <1>1 DEF DivInv, DivTypes, DivRests, Awaits, Worth
<1>6. FpuInv
  <2>1. /\ vector_fpu.add = NewUnit /\ vector_fpu.slt = NewUnit /\ vector_fpu.mul = NewUnit
        /\ vector_fpu.div = NewUnit /\ vector_fpu.long_div = NewUnit
    BY <1>1
  <2>2. FpuTypes(vector_fpu) /\ FpuRests(vector_fpu) /\ ~Awaits("Fpu")
    BY <1>1, <1>3, <2>1 DEF FpuTypes, FpuRests, FpuCanAccept, Awaits
  <2>3. QED
    BY <2>2 DEF FpuInv
<1>7. CastInv
  <2>1. \A u \in Units : NewUnits[u] = [state |-> "StIdle", data |-> "none"]
    BY DEF NewUnits
  <2>2. [state |-> "StIdle", data |-> "none"] \in CastUnit
    BY DEF CastUnit, Worth
  <2>3. NewUnits \in [Units -> CastUnit]
    BY <2>2 DEF NewUnits
  <2>4. cast_scalars \in CastTypes
    BY <1>1, <2>3 DEF CastTypes
  <2>5. cast_scalars.state = "CastStNoWait" /\ cast_scalars.units = NewUnits
    BY <1>1
  <2>6. \A k \in Dsrcs : FromInt(k) \in Units
    BY DEF Units, Ways, FromInt
  <2>7. CastsRest(cast_scalars)
    BY <2>1, <2>5, <2>6 DEF CastsRest
  <2>8. QED
    BY <1>1, <2>4, <2>7 DEF CastInv
<1>8. QED
  BY <1>1, <1>2, <1>4, <1>5, <1>6, <1>7, UnitsInvIs

LEMMA UnitsInvNext ==
    UnitsInv' <=> menu' \in Menus /\ StageTypes' /\ MulInv' /\ DivInv' /\ FpuInv' /\ CastInv'
<1>1. (menu \in Menus)' <=> menu' \in Menus
  OBVIOUS
<1>2. QED
  BY <1>1, UnitsInvIs, PTL

LEMMA EdgeKeepsInv ==
    ASSUME UnitsInv, NEW instr \in Incoming, NEW nonzero \in BOOLEAN, NEW early \in BOOLEAN,
           Edge(instr, nonzero, early)
    PROVE  UnitsInv'
<1>1. TypeOK /\ MulInv /\ DivInv /\ FpuInv /\ CastInv
  BY UnitsInvIs DEF UnitsInv
<1>2. StageTypes'
  BY <1>1, RegularStep, CapturedStep
<1>3. menu' \in Menus
  BY <1>1, EdgeIs DEF TypeOK
<1>4. MulInv' /\ DivInv' /\ FpuInv' /\ CastInv'
  BY <1>1, MulKept, DivKept, FpuKept, CastsKept
<1>5. QED
  BY <1>2, <1>3, <1>4, UnitsInvNext

LEMMA StutterKeepsInv ==
    ASSUME UnitsInv, UNCHANGED vars
    PROVE  UnitsInv'
  BY DEF vars, Ex!exVars, castVars, unitVars, UnitsInv, TypeOK, MulServes, MulRests, DivServes,
         DivRests, FpuServes, FpuRests, FpuCanAccept, ScalarCastsServe, IntToBFloat16,
         Awaits, TypeInStage

\* Every unit is at rest unless the stage waits for it, and is then at work for the
\* instruction in the stage or has finished it: never started twice, never left
\* running, never valid with a result of before.
THEOREM UnitsInvariant == Spec => []UnitsInv
<1>1. UnitsInv /\ [Next]_vars => UnitsInv'
  BY EdgeKeepsInv, StutterKeepsInv DEF Next
<1>2. QED
  BY InitInv, <1>1, PTL DEF Spec

LEMMA OwnResults == UnitsInv => UnitResultsAreOwn
<1> SUFFICES ASSUME UnitsInv PROVE UnitResultsAreOwn
  OBVIOUS
<1>1. TypeOK /\ MulInv /\ DivInv /\ FpuInv /\ CastInv
  BY UnitsInvIs DEF UnitsInv
<1>2. ASSUME ex_state = "StWaitForMultiCycleOp", OpValid(TypeInStage)
      PROVE  OpData(TypeInStage) = "whole"
  <2>1. TypeInStage \in {"Mul", "Div", "Fpu"}
    BY <1>1, <1>2, OpTypes DEF TypeInStage, TypeOK
  <2>2. CASE TypeInStage = "Mul"
    BY <1>1, <1>2, <2>2 DEF MulInv, Awaits, MulServes, OpValid, OpData
  <2>3. CASE TypeInStage = "Div"
    BY <1>1, <1>2, <2>3 DEF DivInv, DivServes, Awaits, OpValid, OpData
  <2>4. CASE TypeInStage = "Fpu"
    BY <1>1, <1>2, <2>4, FpuAnswers DEF FpuInv, Awaits, OpValid, OpData
  <2>5. QED
    BY <2>1, <2>2, <2>3, <2>4
<1>3. ASSUME ex_state = "StWaitForScalarCaster", cast_scalars.valid,
             \A instr \in menu : ~Unawaited(instr), NEW k \in Dsrcs,
             NeededCast(captured_instr, k) = "IntToBFloat16"
      PROVE  CastedScalar(k, "IntToBFloat16") = "whole"
  <2> DEFINE casts == [n \in Dsrcs |-> NeededCast(captured_instr, n)]
  <2>1. CastsServe(cast_scalars, casts) /\ cast_scalars \in CastTypes
    BY <1>1, <1>3 DEF CastInv
  <2>2. casts[k] = "IntToBFloat16"
    BY <1>3
  <2> HIDE DEF casts
  <2>3. cast_scalars.units[FromInt(k)].data = "whole"
    BY <1>3, <2>1, <2>2 DEF CastsServe
  <2>4. QED
    BY <2>3 DEF CastedScalar, Ways, FromInt
<1>4. QED
  BY <1>2, <1>3 DEF UnitResultsAreOwn

\* When a unit says that it is done, what it shows is the result of the instruction
\* that waits, to the last step.
THEOREM UnitResultsAreTheStages == Spec => []UnitResultsAreOwn
  BY UnitsInvariant, OwnResults, PTL
=============================================================================
