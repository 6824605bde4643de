----------------------------- MODULE Instructions -----------------------------
(***************************************************************************)
(* How the assembler encodes each form of instruction: one operator for     *)
(* each visitor of the grammar's instruction rules, from a mnemonic, the    *)
(* encodings r of the registers and the immediate to the 32-bit word.       *)
(***************************************************************************)
EXTENDS EncodingStuff

visitInstrOpGrp0ThreeRegsScalar(name, r) ==
    encode_group_0_instr(0, r[1], r[2], r[3], iog0_three_regs_scalar_map[name], 0)
visitInstrOpGrp0TwoRegsScalar(name, r) ==
    encode_group_0_instr(0, r[1], r[2], 0, iog0_two_regs_scalar_map[name], 0)
visitInstrOpGrp0OneRegOnePcOneSimm12Scalar(name, r, imm) ==
    encode_group_0_instr(0, r[1], 0, 0, iog0_one_reg_one_pc_one_simm12_scalar_map[name], imm)
visitInstrOpGrp0TwoRegsOneSimm12Scalar(name, r, imm) ==
    encode_group_0_instr(0, r[1], r[2], 0, iog0_two_regs_one_simm12_scalar_map[name], imm)

visitInstrOpGrp0ThreeRegsVector(name, r) ==
    encode_group_0_instr(1, r[1], r[2], r[3], iog0_three_regs_vector_map[name], 0)
visitInstrOpGrp0TwoRegsVector(name, r) ==
    encode_group_0_instr(1, r[1], r[2], 0, iog0_two_regs_vector_map[name], 0)
visitInstrOpGrp0OneRegOnePcOneSimm12Vector(name, r, imm) ==
    encode_group_0_instr(1, r[1], 0, 0, iog0_one_reg_one_pc_one_simm12_vector_map[name], imm)
visitInstrOpGrp0TwoRegsOneSimm12Vector(name, r, imm) ==
    encode_group_0_instr(1, r[1], r[2], 0, iog0_two_regs_one_simm12_vector_map[name], imm)

visitInstrOpGrp0ThreeRegsOneSimm12(name, r, imm) ==
    encode_group_0_instr(0, r[1], r[2], r[3], iog0_three_regs_one_simm12_map[name], imm)
SyscallType == Numbered(0,
    <<"sysc_disp_regs", "sysc_disp_ddest_vector_data", "sysc_disp_ddest_scalar_data",
      "sysc_disp_ddest_addr", "sysc_finish">>)
\* Registers that the call does not name are 0.
visitInstrOpGrp0SimSyscall(name, r) ==
    LET reg(k) == IF k <= Len(r) THEN r[k] ELSE 0 IN
    encode_group_0_instr(0, reg(1), reg(2), reg(3),
                         iog0_three_regs_one_simm12_map["sim_syscall"], SyscallType[name])

visitInstrOpGrp1RelBranch(name, r, offset) ==
    encode_group_1_instr(r[1], iog1_rel_branch_map[name], offset)
visitInstrOpGrp1Jump(name, r) == encode_group_1_instr(r[1], iog1_jump_map[name], 0)

visitInstrOpGrp2LdThreeRegsOneSimm12(name, r, imm) ==
    encode_group_2_instr(r[1], r[2], r[3], iog2_ld_three_regs_one_simm12_map[name], imm)
visitInstrOpGrp3StThreeRegsOneSimm12(name, r, imm) ==
    encode_group_3_instr(r[1], r[2], r[3], iog3_st_three_regs_one_simm12_map[name], imm)

-----------------------------------------------------------------------------
(* Pseudo-instructions.  Bl and jl first generate the word that puts the     *)
(* return address in dlr.                                                    *)

call_return_offset == 8
ReturnAddressToDlr ==
    encode_group_0_instr(0, reg_names_map["dlr"], 0, 0,
                         iog0_one_reg_one_pc_one_simm12_scalar_map["addis"], call_return_offset)

visitPseudoInstrBraOneSimm20(offset) ==
    encode_group_1_instr(0, iog1_rel_branch_map["bzo"], offset)
visitPseudoInstrBlOneSimm20(offset) == 
    encode_group_1_instr(0, iog1_rel_branch_map["bzo"], offset)
visitPseudoInstrJlOneReg(r) == encode_group_1_instr(r[1], iog1_jump_map["jmp"], 0)
visitPseudoInstrPcrelOneRegOneSimm12Scalar(r, offset) ==
    encode_group_0_instr(0, r[1], 0, 0,
                         iog0_one_reg_one_pc_one_simm12_scalar_map["addis"], offset)
visitPseudoInstrPcrelOneRegOneSimm12Vector(r, offset) ==
    encode_group_0_instr(1, r[1], 0, 0,
                         iog0_one_reg_one_pc_one_simm12_vector_map["addiv"], offset)
\* A copy adds dzero to its source, in this order.
visitPseudoInstrCpysTwoRegs(r) ==
    encode_group_0_instr(0, r[1], 0, r[2], iog0_three_regs_scalar_map["adds"], 0)
visitPseudoInstrCpyisOneRegOneSimm12(r, imm) ==
    encode_group_0_instr(0, r[1], 0, 0, iog0_two_regs_one_simm12_scalar_map["addis"], imm)

-----------------------------------------------------------------------------
(* The forms, named after the grammar's rules.                               *)

Branches == {"Grp1RelBranch", "BraOneSimm20", "BlOneSimm20"}
Pcrels == {"PcrelScalar", "PcrelVector"}
Calls == {"BlOneSimm20", "JlOneReg"}

InstructionWord(form, name, r, imm) ==
    CASE form = "Grp0ThreeRegsScalar" -> visitInstrOpGrp0ThreeRegsScalar(name, r)
      [] form = "Grp0TwoRegsScalar" -> visitInstrOpGrp0TwoRegsScalar(name, r)
      [] form = "Grp0OneRegOnePcOneSimm12Scalar" ->
            visitInstrOpGrp0OneRegOnePcOneSimm12Scalar(name, r, imm)
      [] form = "Grp0TwoRegsOneSimm12Scalar" ->
            visitInstrOpGrp0TwoRegsOneSimm12Scalar(name, r, imm)
      [] form = "Grp0ThreeRegsVector" -> visitInstrOpGrp0ThreeRegsVector(name, r)
      [] form = "Grp0TwoRegsVector" -> visitInstrOpGrp0TwoRegsVector(name, r)
      [] form = "Grp0OneRegOnePcOneSimm12Vector" ->
            visitInstrOpGrp0OneRegOnePcOneSimm12Vector(name, r, imm)
      [] form = "Grp0TwoRegsOneSimm12Vector" ->
            visitInstrOpGrp0TwoRegsOneSimm12Vector(name, r, imm)
      [] form = "Grp0ThreeRegsOneSimm12" -> visitInstrOpGrp0ThreeRegsOneSimm12(name, r, imm)
      [] form = "Grp0SimSyscall" -> visitInstrOpGrp0SimSyscall(name, r)
      [] form = "Grp1RelBranch" -> visitInstrOpGrp1RelBranch(name, r, imm)
      [] form = "Grp1Jump" -> visitInstrOpGrp1Jump(name, r)
      [] form = "Grp2LdThreeRegsOneSimm12" -> visitInstrOpGrp2LdThreeRegsOneSimm12(name, r, imm)
      [] form = "Grp3StThreeRegsOneSimm12" -> visitInstrOpGrp3StThreeRegsOneSimm12(name, r, imm)
      [] form = "BraOneSimm20" -> visitPseudoInstrBraOneSimm20(imm)
      [] form = "BlOneSimm20" -> visitPseudoInstrBlOneSimm20(imm)
      [] form = "JlOneReg" -> visitPseudoInstrJlOneReg(r)
      [] form = "PcrelScalar" -> visitPseudoInstrPcrelOneRegOneSimm12Scalar(r, imm)
      [] form = "PcrelVector" -> visitPseudoInstrPcrelOneRegOneSimm12Vector(r, imm)
      [] form = "CpysTwoRegs" -> visitPseudoInstrCpysTwoRegs(r)
      [] form = "CpyisOneRegOneSimm12" -> visitPseudoInstrCpyisOneRegOneSimm12(r, imm)

get_pc_relative_offset(raw_immediate, here) == raw_immediate - here - 4

\* The immediate that a visitor makes of the value of its expression.
Immediate(form, raw, here) ==
    CASE form \in Branches -> get_pc_relative_offset(raw, here)
      [] form \in Pcrels -> get_pc_relative_offset(raw, here) + 4
      [] OTHER -> raw

\* __warn_if_simm20_out_of_range for branches, __warn_if_simm12_out_of_range for the rest.
OutOfRange(form, imm) == imm # SignedField(imm, IF form \in Branches THEN 20 ELSE 12)
=============================================================================
