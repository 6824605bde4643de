---------------------------- MODULE PipeStageIfId ----------------------------
(***************************************************************************)
(* Instruction fetch and decode.  It asks the instruction cache for one     *)
(* instruction every cycle and hands what it gets to the execute stage.  It *)
(* waits one cycle after a control-flow instruction, for the new program    *)
(* counter, and after a load or store until the write-back stage is done.   *)
(*                                                                         *)
(* A decoded instruction is kept as its kind: "alu" (group 0), "ctrl"       *)
(* (control flow, group 1), "ldst" (groups 2 and 3) or "nop" (the decoder's *)
(* nop bit), with the address it came from.                                 *)
(***************************************************************************)
EXTENDS Naturals

CONSTANT NumAddrs   \* addresses of instructions; the program counter wraps

VARIABLES
    ifid_state,
    spec_reg_pc,
    to_ex        \* decoded_instr and pc_val, towards the execute stage

ifidVars == <<ifid_state, spec_reg_pc, to_ex>>

Bubble == [kind |-> "bubble"]
\* An all-zero decoded_instr too, but the registers it reads are the nop's.
NopBubble == [kind |-> "nop"]

\* Mutant: the program counter is wider than an address.
following_pc_Wide == spec_reg_pc + 1
following_pc == (spec_reg_pc + 1) % NumAddrs

Init ==
    /\ ifid_state = "StInit"
    /\ spec_reg_pc = 0
    /\ to_ex = Bubble

\* Mutant: after a miss the next instruction is asked for.
RequestedAddr_NotAgain(valid, instr, ex_stall, computed_pc) ==
    CASE ifid_state = "StRegular" /\ ~ex_stall /\ (valid => instr.kind # "ctrl") -> following_pc
      [] ifid_state = "StChangePc" -> computed_pc
      [] OTHER -> spec_reg_pc
\* What the stage asks the instruction cache for, in every cycle.
RequestedAddr(valid, instr, ex_stall, computed_pc) ==
    CASE ifid_state = "StRegular" /\ ~ex_stall /\ valid /\ instr.kind # "ctrl" -> following_pc
      [] ifid_state = "StChangePc" -> computed_pc
      [] OTHER -> spec_reg_pc

send_bubble == to_ex' = Bubble
send_curr_instr(instr, pc_val) == to_ex' = [instr |-> instr, kind |-> instr.kind, pc_val |-> pc_val]

InInit(valid) ==
    /\ ifid_state = "StInit"
    /\ ifid_state' = IF valid THEN "StRegular" ELSE "StInit"
    /\ send_bubble
    /\ UNCHANGED spec_reg_pc

\* Mutant: the stage goes on fetching after a load or store.
RegularState_NoWait(instr) == IF instr.kind = "ctrl" THEN "StChangePc" ELSE "StRegular"
RegularState(instr) ==
    CASE instr.kind = "ctrl" -> "StChangePc"
      [] instr.kind = "ldst" -> "StWaitForLdStPart0"
      [] OTHER -> "StRegular"

\* A control-flow instruction takes the address after its own along.
RegularTake(valid, instr, ex_stall) ==
    /\ ifid_state = "StRegular" /\ ~ex_stall /\ valid
    /\ spec_reg_pc' = following_pc
    /\ ifid_state' = RegularState(instr)
    /\ IF instr.kind = "nop" THEN to_ex' = NopBubble
       ELSE send_curr_instr(instr, IF instr.kind = "ctrl" THEN following_pc ELSE spec_reg_pc)

RegularMiss(valid, ex_stall) ==
    /\ ifid_state = "StRegular" /\ ~ex_stall /\ ~valid
    /\ send_bubble
    /\ UNCHANGED <<ifid_state, spec_reg_pc>>

RegularStall(ex_stall) ==
    /\ ifid_state = "StRegular" /\ ex_stall
    /\ UNCHANGED ifidVars

ChangePc(computed_pc) ==
    /\ ifid_state = "StChangePc"
    /\ spec_reg_pc' = computed_pc
    /\ ifid_state' = "StRegular"
    /\ send_bubble

WaitForLdStPart0 ==
    /\ ifid_state = "StWaitForLdStPart0"
    /\ ifid_state' = "StWaitForLdStPart1"
    /\ send_bubble
    /\ UNCHANGED spec_reg_pc

WaitForLdStPart1(wb_stall) ==
    /\ ifid_state = "StWaitForLdStPart1"
    /\ ifid_state' = IF wb_stall THEN ifid_state ELSE "StRegular"
    /\ send_bubble
    /\ UNCHANGED spec_reg_pc

Clock(valid, instr, ex_stall, computed_pc, wb_stall) ==
    \/ InInit(valid)
    \/ RegularTake(valid, instr, ex_stall)
    \/ RegularMiss(valid, ex_stall)
    \/ RegularStall(ex_stall)
    \/ ChangePc(computed_pc)
    \/ WaitForLdStPart0
    \/ WaitForLdStPart1(wb_stall)
=============================================================================
