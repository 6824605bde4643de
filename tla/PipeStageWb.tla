---------------------------- MODULE PipeStageWb ----------------------------
(***************************************************************************)
(* The write-back stage.  It turns the instruction the execute stage hands  *)
(* it into a request to the LAR file: results of group 0 at once, loads     *)
(* (group 2) and stores (group 3) one cycle later, after which it stalls    *)
(* the front of the pipeline until the LAR file reports valid.              *)
(*                                                                         *)
(* One step is one clock edge.  The request register keeps its value where  *)
(* the code does not assign it, and the LAR file then sees it again.        *)
(***************************************************************************)
EXTENDS Naturals

CONSTANTS Lars, BaseAddr, Data, Zero, DataType, DataOffset

VARIABLES
    wb_state,
    captured_decoded_instr,   \* with its captured_ldst_addr
    wr                        \* in_inst_lar_file__wr__*, towards the LAR file

wbVars == <<wb_state, captured_decoded_instr, wr>>

NoReq == [req |-> FALSE]

AluInstr == [group : {0}, ra : Lars, computed_data : Data]
LdStInstr == [group : {2, 3}, ra : Lars, base_addr : BaseAddr,
              data_offset : DataOffset, data_type : DataType]
\* Control flow (group 1), the unused groups, and SimSyscall of group 0.
NoWriteInstr == [group |-> 1]
\* An instruction word of zeros: an add into dzero.
Bubble == [group |-> 0, ra |-> 0, computed_data |-> Zero]
Instr == AluInstr \cup LdStInstr \cup {NoWriteInstr, Bubble}
NothingCaptured == Bubble

Init ==
    /\ wb_state = "StRegular"
    /\ captured_decoded_instr = NothingCaptured
    /\ wr = NoReq

RegularWrite(instr) ==
    /\ wb_state = "StRegular"
    /\ instr.group = 0
    /\ wr' = [req |-> TRUE, write_type |-> "OnlyData", index |-> instr.ra,
              data |-> instr.computed_data]
    /\ UNCHANGED <<wb_state, captured_decoded_instr>>

RegularNoWrite(instr) ==
    /\ wb_state = "StRegular"
    /\ instr.group = 1
    /\ wr' = NoReq
    /\ UNCHANGED <<wb_state, captured_decoded_instr>>

LdStRequest(instr) ==
    [req |-> TRUE, write_type |-> IF instr.group = 2 THEN "Ld" ELSE "St",
     index |-> instr.ra, base_addr |-> instr.base_addr,
     data_offset |-> instr.data_offset, data_type |-> instr.data_type]

\* Mutant: the request goes out at once.
RegularLdSt_AtOnce(instr) ==
    /\ wb_state = "StRegular"
    /\ instr.group \in {2, 3}
    /\ wb_state' = "StWaitForLarFileValid"
    /\ captured_decoded_instr' = instr
    /\ wr' = LdStRequest(instr)

\* The request register is not assigned: the previous request is repeated.
RegularLdSt(instr) ==
    /\ wb_state = "StRegular"
    /\ instr.group \in {2, 3}
    /\ wb_state' = "StPrepLdSt"
    /\ captured_decoded_instr' = instr
    /\ UNCHANGED wr

PrepLdSt ==
    /\ wb_state = "StPrepLdSt"
    /\ wb_state' = "StWaitForLarFileValid"
    /\ wr' = LdStRequest(captured_decoded_instr)
    /\ UNCHANGED captured_decoded_instr

\* Mutant: the request is not taken back.
DropRequest_Keeps == UNCHANGED wr
DropRequest == wr' = NoReq

\* Nobody reads the captured instruction again; the model forgets it.
WaitForLarFileValid(lar_valid) ==
    /\ wb_state = "StWaitForLarFileValid"
    /\ DropRequest
    /\ IF lar_valid
       THEN /\ wb_state' = "StRegular"
            /\ captured_decoded_instr' = NothingCaptured
       ELSE UNCHANGED <<wb_state, captured_decoded_instr>>

\* stall: __next_state is not StRegular.
Stall(instr, lar_valid) ==
    CASE wb_state = "StRegular"             -> instr.group \in {2, 3}
      [] wb_state = "StPrepLdSt"            -> TRUE
      [] wb_state = "StWaitForLarFileValid" -> ~lar_valid

Clock(instr, lar_valid) ==
    \/ RegularWrite(instr)
    \/ RegularNoWrite(instr)
    \/ RegularLdSt(instr)
    \/ PrepLdSt
    \/ WaitForLarFileValid(lar_valid)
=============================================================================
