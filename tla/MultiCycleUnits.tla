---------------------------- MODULE MultiCycleUnits ----------------------------
(***************************************************************************)
(* The units of the execute stage that take several cycles: Snow64VectorMul,  *)
(* Snow64VectorDiv and Snow64BFloat16VectorFpu.  The units that one of them    *)
(* is made of are equal and run together, and are taken as one.               *)
(***************************************************************************)
EXTENDS UnitData, Naturals

CONSTANT WidthArgs   \* WIDTH__ARGS of the dividers, which do a bit per cycle
ASSUME WidthArgsAssumption == WidthArgs \in Nat \ {0}

VARIABLES
    vector_mul,   \* Snow64Mul, its __in_sub_mul and its __Snow64SubMul
    vector_div,   \* Snow64NonRestoringDivider
    vector_fpu    \* __captured_in_oper and the submodules

unitVars == <<vector_mul, vector_div, vector_fpu>>

\* left: the steps that a unit at work has still to take.
NewUnit == [left |-> 0, valid |-> FALSE, data |-> "none"]

UnitsInit ==
    /\ vector_mul = [state |-> "StIdle", valid |-> FALSE, data |-> "none",
                     enable |-> FALSE, large |-> FALSE, sub |-> NewUnit]
    /\ vector_div = [state |-> "Idle", counter |-> 0, ready |-> FALSE,
                     work |-> "none", data |-> "none"]
    /\ vector_fpu = [oper |-> "Add_ThreeRegs", add |-> NewUnit, slt |-> NewUnit,
                     mul |-> NewUnit, div |-> NewUnit, long_div |-> NewUnit]

-----------------------------------------------------------------------------
(* Multiplication of integers: at once for 8 and 16 bits, with the sub-multiplier *)
(* for 32 and 64 bits.                                                          *)

\* Mutant: it stays valid until it is enabled again.
NextSubMul_StaysValid(sub, enable, large) ==
    CASE sub.left = 0 ->
            IF enable THEN [left |-> IF large THEN 4 ELSE 1, valid |-> FALSE, data |-> "part"]
            ELSE sub
      [] sub.left = 1 -> [left |-> 0, valid |-> TRUE, data |-> Finished(sub.data)]
      [] OTHER -> [sub EXCEPT !.left = @ - 1]
\* Valid for one cycle.
NextSubMul(sub, enable, large) ==
    CASE sub.left = 0 /\ enable ->
            [left |-> IF large THEN 4 ELSE 1, valid |-> FALSE, data |-> "part"]
      [] sub.left = 0 /\ ~enable -> [sub EXCEPT !.valid = FALSE]
      [] sub.left = 1 -> [left |-> 0, valid |-> TRUE, data |-> Finished(sub.data)]
      [] OTHER -> [sub EXCEPT !.left = @ - 1]

\* Mutant: the sub-multiplier is never enabled.
NextMul_NotEnabled(mul, start, size) ==
    LET after == [mul EXCEPT !.sub = NextSubMul(mul.sub, mul.enable, mul.large)] IN
    CASE mul.state = "StIdle" /\ start /\ size <= 16 ->
            [after EXCEPT !.valid = TRUE, !.data = "whole"]
      [] mul.state = "StIdle" /\ start /\ size > 16 ->
            [after EXCEPT !.state = "StWaitForSubMul", !.large = (size = 64), !.valid = FALSE]
      [] mul.state = "StIdle" /\ ~start -> [after EXCEPT !.valid = FALSE]
      [] mul.state = "StWaitForSubMul" ->
            IF mul.sub.valid
            THEN [after EXCEPT !.state = "StIdle", !.valid = TRUE, !.data = mul.sub.data]
            ELSE after
NextMul(mul, start, size) ==
    LET after == [mul EXCEPT !.sub = NextSubMul(mul.sub, mul.enable, mul.large)] IN
    CASE mul.state = "StIdle" /\ start /\ size <= 16 ->
            [after EXCEPT !.valid = TRUE, !.data = "whole"]
      [] mul.state = "StIdle" /\ start /\ size > 16 ->
            [after EXCEPT !.state = "StWaitForSubMul", !.enable = TRUE,
                          !.large = (size = 64), !.valid = FALSE]
      [] mul.state = "StIdle" /\ ~start -> [after EXCEPT !.valid = FALSE]
      [] mul.state = "StWaitForSubMul" ->
            IF mul.sub.valid
            THEN [after EXCEPT !.state = "StIdle", !.enable = FALSE,
                               !.valid = TRUE, !.data = mul.sub.data]
            ELSE [after EXCEPT !.enable = FALSE]

-----------------------------------------------------------------------------
(* Division of integers. *)

\* The blocks that count and that look at the counter run at the same clock edge
\* in no order; early is that the counter has been decremented when it is looked
\* at.  What is ready stays ready until the next start.
NextDiv(div, start, early) ==
    CASE div.state = "Idle" ->
            IF start THEN [div EXCEPT !.state = "Starting", !.ready = FALSE, !.work = "part"]
            ELSE div
      [] div.state = "Starting" -> [div EXCEPT !.state = "Loading"]
      [] div.state = "Loading" -> [div EXCEPT !.state = "Working", !.counter = WidthArgs - 1]
      [] div.state = "Working" ->
            IF div.counter > 0 THEN [div EXCEPT !.counter = @ - 1]
            ELSE [div EXCEPT !.state = IF early THEN "Ended" ELSE "Ending"]
      [] div.state = "Ending" -> [div EXCEPT !.state = "Ended"]
      [] div.state = "Ended" ->
            [div EXCEPT !.state = "Idle", !.ready = TRUE, !.data = Finished(div.work)]

-----------------------------------------------------------------------------
(* BFloat16. *)

\* Mutant: a start leaves valid what was computed before.
NextStepped_StaysValid(unit, start, steps) ==
    CASE unit.left = 0 -> IF start THEN [unit EXCEPT !.left = steps, !.data = "part"] ELSE unit
      [] unit.left = 1 -> [left |-> 0, valid |-> TRUE, data |-> Finished(unit.data)]
      [] OTHER -> [unit EXCEPT !.left = @ - 1]
\* A unit that takes a number of steps and is valid until its next start: addition
\* (StAddStarting, StAddEffAdd or StAddEffSub), multiplication (StMulFinishing) and
\* the long division of significands (__i from 3 down to 0).
NextStepped(unit, start, steps) ==
    CASE unit.left = 0 ->
            IF start THEN [left |-> steps, valid |-> FALSE, data |-> "part"] ELSE unit
      [] unit.left = 1 -> [left |-> 0, valid |-> TRUE, data |-> Finished(unit.data)]
      [] OTHER -> [unit EXCEPT !.left = @ - 1]

\* Valid for ever after its first result.
NextSlt(slt, start) == IF start THEN [slt EXCEPT !.valid = TRUE, !.data = "whole"] ELSE slt

\* It waits in StDivStartingLongDiv (3 left) for the long division.
NextBFloat16Div(div, long_div, start) ==
    CASE div.left = 0 -> IF start THEN [left |-> 3, valid |-> FALSE, data |-> "part"] ELSE div
      [] div.left = 3 ->
            IF long_div.valid
            THEN [div EXCEPT !.left = 2,
                             !.data = IF long_div.data = "whole" THEN "part" ELSE long_div.data]
            ELSE div
      [] div.left = 2 -> [div EXCEPT !.left = 1]
      [] div.left = 1 -> [left |-> 0, valid |-> TRUE, data |-> Finished(div.data)]

\* The submodule for an operation; the opcodes are those of the integer operations,
\* and some have none.
Serving(oper) ==
    CASE oper \in {"Add_ThreeRegs", "Sub_ThreeRegs", "Addi_OneRegOnePcOneSimm12"} -> "add"
      [] oper = "Slt_ThreeRegs" -> "slt"
      [] oper = "Mul_ThreeRegs" -> "mul"
      [] oper = "Div_ThreeRegs" -> "div"
      [] OTHER -> "none"

FpuCanAccept(fpu) == fpu.add.left = 0 /\ fpu.mul.left = 0 /\ fpu.div.left = 0

NextFpu(fpu, start, oper) ==
    LET accepted == start /\ FpuCanAccept(fpu)
        starts(unit) == accepted /\ Serving(oper) = unit
    IN  [oper |-> IF accepted THEN oper ELSE fpu.oper,
         add |-> NextStepped(fpu.add, starts("add"), 2),
         slt |-> NextSlt(fpu.slt, starts("slt")),
         mul |-> NextStepped(fpu.mul, starts("mul"), 1),
         div |-> NextBFloat16Div(fpu.div, fpu.long_div, starts("div")),
         long_div |-> NextStepped(fpu.long_div, starts("div"), 4)]

\* What the submodule of the captured operation gives, in a cycle without a start.
FpuValid == Serving(vector_fpu.oper) # "none" /\ vector_fpu[Serving(vector_fpu.oper)].valid
FpuData == IF FpuCanAccept(vector_fpu) /\ Serving(vector_fpu.oper) # "none"
           THEN vector_fpu[Serving(vector_fpu.oper)].data ELSE "none"

-----------------------------------------------------------------------------

OpValid(type) ==
    CASE type = "Mul" -> vector_mul.valid
      [] type = "Div" -> vector_div.ready
      [] type = "Fpu" -> FpuValid
      [] OTHER -> FALSE
OpData(type) ==
    CASE type = "Mul" -> vector_mul.data
      [] type = "Div" -> vector_div.data
      [] type = "Fpu" -> FpuData

AgedUnit(unit) == [unit EXCEPT !.data = Aged(@)]
AgedMul(mul) == [AgedUnit(mul) EXCEPT !.sub = AgedUnit(@)]
AgedDiv(div) == [AgedUnit(div) EXCEPT !.work = Aged(@)]
AgedFpu(fpu) == [f \in DOMAIN fpu |-> IF f = "oper" THEN fpu[f] ELSE AgedUnit(fpu[f])]

\* An edge; start is that the stage is going to wait for the unit of the type,
\* leaving that the instruction in the stage leaves it.
UnitsClock(type, start, size, oper, early, leaving) ==
    LET mul == NextMul(vector_mul, start /\ type = "Mul", size)
        div == NextDiv(vector_div, start /\ type = "Div", early)
        fpu == NextFpu(vector_fpu, start /\ type = "Fpu", oper)
    IN  /\ vector_mul' = IF leaving THEN AgedMul(mul) ELSE mul
        /\ vector_div' = IF leaving THEN AgedDiv(div) ELSE div
        /\ vector_fpu' = IF leaving THEN AgedFpu(fpu) ELSE fpu
=============================================================================
