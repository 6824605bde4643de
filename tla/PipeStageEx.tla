----------------------------- MODULE PipeStageEx -----------------------------
(***************************************************************************)
(* The control of the execute stage: which instructions take more than one  *)
(* cycle, what the stage stalls on, and what it hands to write-back.  Data  *)
(* is left out: whether an operand has to be cast first, and whether the    *)
(* operation is a multiplication, division or BFloat16 operation, depends   *)
(* on the types of the LARs and is an input here, and so are the valid      *)
(* lines of the casters and of the multi-cycle units.                       *)
(***************************************************************************)
EXTENDS Naturals

CONSTANT NumAddrs   \* addresses of instructions; the program counter wraps

VARIABLES
    ex_state,
    captured_instr,       \* with __captured_multi_cycle_op_type
    captured_multi,
    to_wb                 \* decoded_instr, towards write-back

exVars == <<ex_state, captured_instr, captured_multi, to_wb>>

Bubble == [kind |-> "bubble"]

Init ==
    /\ ex_state = "StRegular"
    /\ captured_instr = Bubble
    /\ captured_multi = FALSE
    /\ to_wb = Bubble

Casts == {"None", "Scalar", "Vector"}

\* What the types can ask of an instruction.  The bubble sent for a nop looks at
\* the type of a LAR, and may be taken for a BFloat16 operation.
PossibleCasts(instr) == IF instr.kind = "alu" THEN Casts ELSE {"None"}
PossibleMulti(instr) == IF instr.kind \in {"alu", "nop"} THEN BOOLEAN ELSE {FALSE}

NextFromRegular(cast, multi) ==
    CASE cast = "Scalar" -> "StWaitForScalarCaster"
      [] cast = "Vector" -> "StWaitForVectorCaster"
      [] cast = "None" /\ multi -> "StWaitForMultiCycleOp"
      [] OTHER -> "StRegular"

UseCastedData ==
    IF captured_multi THEN "StUseCastedDataMultiCycle" ELSE "StUseCastedDataSingleCycle"

\* A function of the state and the inputs of this cycle.
NextState(cast, multi, caster_valid, op_valid) ==
    CASE ex_state = "StRegular" -> NextFromRegular(cast, multi)
      [] ex_state = "StWaitForScalarCaster" ->
            IF caster_valid THEN "StInjectCastedScalars" ELSE ex_state
      [] ex_state = "StWaitForVectorCaster" ->
            IF caster_valid THEN UseCastedData ELSE ex_state
      [] ex_state = "StInjectCastedScalars" -> UseCastedData
      [] ex_state = "StUseCastedDataSingleCycle" -> "StRegular"
      [] ex_state = "StUseCastedDataMultiCycle" -> "StWaitForMultiCycleOp"
      [] ex_state = "StWaitForMultiCycleOp" -> IF op_valid THEN "StRegular" ELSE ex_state

\* The stage accepts nothing new when its next state is not StRegular.
Stall(next_state) == next_state # "StRegular"

InstrToUse(curr_instr) == IF ex_state = "StRegular" THEN curr_instr ELSE captured_instr

\* Mutant: a stalled instruction goes to write-back in every cycle.
ToWb_Always(curr_instr, next_state) == to_wb' = InstrToUse(curr_instr)
ToWb(curr_instr, next_state) ==
    to_wb' = IF Stall(next_state) THEN Bubble ELSE InstrToUse(curr_instr)

\* The new program counter: a branch is taken or not, a jump goes where its LAR
\* says.  pc_val is the address after the instruction's own.
ComputedPcs(ex_input) ==
    LET to_use == InstrToUse(ex_input) IN
    IF to_use.kind # "ctrl" THEN {0}
    ELSE IF to_use.instr.jmp THEN 0 .. NumAddrs - 1
    ELSE {ex_input.pc_val, (ex_input.pc_val + to_use.instr.offset) % NumAddrs}

\* In StRegular the instruction is captured even if it needs no second cycle;
\* the model captures only what is used again.
CaptureInstr(curr_instr, multi, next_state) ==
    IF Stall(next_state)
    THEN IF ex_state = "StRegular"
         THEN captured_instr' = curr_instr /\ captured_multi' = multi
         ELSE UNCHANGED <<captured_instr, captured_multi>>
    ELSE captured_instr' = Bubble /\ captured_multi' = FALSE

Clock(curr_instr, multi, next_state) ==
    /\ ex_state' = next_state
    /\ ToWb(curr_instr, next_state)
    /\ CaptureInstr(curr_instr, multi, next_state)
=============================================================================
