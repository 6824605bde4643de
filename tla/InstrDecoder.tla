----------------------------- MODULE InstrDecoder -----------------------------
(***************************************************************************)
(* Snow64InstrDecoder: what the CPU reads in a 32-bit instruction word.       *)
(***************************************************************************)
EXTENDS Bits, Sequences

\* The operations of each group in the order of their opcodes; the opcodes
\* beyond are bad.
Iog0Oper ==
    <<"Add_ThreeRegs", "Sub_ThreeRegs", "Slt_ThreeRegs", "Mul_ThreeRegs",
      "Div_ThreeRegs", "And_ThreeRegs", "Orr_ThreeRegs", "Xor_ThreeRegs",
      "Shl_ThreeRegs", "Shr_ThreeRegs", "Inv_TwoRegs", "Not_TwoRegs",
      "Addi_OneRegOnePcOneSimm12", "Addi_TwoRegsOneSimm12", "SimSyscall_ThreeRegsOneSimm12">>
Iog1Oper == <<"Bnz_OneRegOneSimm20", "Bzo_OneRegOneSimm20", "Jmp_OneReg">>
Iog2Oper == <<"LdU8", "LdS8", "LdU16", "LdS16", "LdU32", "LdS32", "LdU64", "LdS64", "LdF16">>
Iog3Oper == <<"StU8", "StS8", "StU16", "StS16", "StU32", "StS32", "StU64", "StS64", "StF16">>

Named(opers, oper) == IF oper < Len(opers) THEN opers[oper + 1] ELSE "Bad"

\* Bit 3 of an opcode of loads and stores.
HighOper(oper) == get_bits_with_range(oper, 3, 3) = 1

Forced64BitIntegers == {"Div_ThreeRegs", "Shl_ThreeRegs", "Shr_ThreeRegs", "Not_TwoRegs"}

\* The outputs that depend on the group.
GroupOut(oper, nop, signext_imm, stall) ==
    [oper |-> oper, nop |-> nop, signext_imm |-> signext_imm, decoded_stall_type |-> stall]
ByGroup(in, group) ==
    LET oper == get_bits_with_range(in[2], 15, 12)
        oper1 == get_bits_with_range(in[1], 7, 4)
        simm12 == SignedField(in[2], 12)
        simm20 == SignedField(get_bits_with_range(in[1], 3, 0) * 2^16 + in[2], 20)
    IN  CASE group = 0 -> GroupOut(Named(Iog0Oper, oper), oper = 15, simm12, "None")
          [] group = 1 -> GroupOut(Named(Iog1Oper, oper1), oper1 \notin 0 .. 2, simm20, "EndsInEx")
          [] group = 2 -> GroupOut(Named(Iog2Oper, oper), oper # 8 /\ HighOper(oper),
                                   simm12, "EndsInWb")
          [] group = 3 -> GroupOut(Named(Iog3Oper, oper), oper # 8 /\ HighOper(oper),
                                   simm12, "EndsInWb")
          [] OTHER -> GroupOut("Add_ThreeRegs", TRUE, 0, "None")

Decoded(in) ==
    LET group == get_bits_with_range(in[1], 15, 13)
        iog0 == Named(Iog0Oper, get_bits_with_range(in[2], 15, 12))
        out == ByGroup(in, group)
    IN  [group |-> group,
         op_type |-> get_bits_with_range(in[1], 12, 12),
         ra_index |-> get_bits_with_range(in[1], 11, 8),
         rb_index |-> get_bits_with_range(in[1], 7, 4),
         rc_index |-> get_bits_with_range(in[1], 3, 0),
         oper |-> out.oper, nop |-> out.nop, signext_imm |-> out.signext_imm,
         decoded_stall_type |-> out.decoded_stall_type,
         forced_64_bit_integers |-> group = 0 /\ iog0 \in Forced64BitIntegers]
=============================================================================
