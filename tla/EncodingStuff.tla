---------------------------- MODULE EncodingStuff ----------------------------
(***************************************************************************)
(* The tables of registers and opcodes, from a name to its number for the   *)
(* assembler and back for the disassembler, and the layout of the four      *)
(* groups of instructions in a 32-bit word.                                 *)
(***************************************************************************)
EXTENDS Bits, Sequences

\* Names numbered in turn from the given number on (insert_map_entry).
Numbered(first, names) ==
    [n \in {names[k] : k \in DOMAIN names} |->
        first + (CHOOSE k \in DOMAIN names : names[k] = n) - 1]

reg_names_map == Numbered(0,
    <<"dzero", "du0", "du1", "du2", "du3", "du4", "du5", "du6", "du7", "du8",
      "du9", "du10", "du11", "dlr", "dfp", "dsp">>)

iog0_three_regs_scalar_map == Numbered(0,
    <<"adds", "subs", "slts", "muls", "divs", "ands", "orrs", "xors", "shls", "shrs">>)
iog0_two_regs_scalar_map == Numbered(10, <<"invs", "nots">>)
iog0_one_reg_one_pc_one_simm12_scalar_map == Numbered(12, <<"addis">>)
iog0_two_regs_one_simm12_scalar_map == Numbered(13, <<"addis">>)

iog0_three_regs_vector_map == Numbered(0,
    <<"addv", "subv", "sltv", "mulv", "divv", "andv", "orrv", "xorv", "shlv", "shrv">>)
iog0_two_regs_vector_map == Numbered(10, <<"invv", "notv">>)
iog0_one_reg_one_pc_one_simm12_vector_map == Numbered(12, <<"addiv">>)
iog0_two_regs_one_simm12_vector_map == Numbered(13, <<"addiv">>)

iog0_three_regs_one_simm12_map == Numbered(14, <<"sim_syscall">>)

iog1_rel_branch_map == Numbered(0, <<"bnz", "bzo">>)
iog1_jump_map == Numbered(2, <<"jmp">>)

iog2_ld_three_regs_one_simm12_map == Numbered(0,
    <<"ldu8", "lds8", "ldu16", "lds16", "ldu32", "lds32", "ldu64", "lds64", "ldf16">>)
iog3_st_three_regs_one_simm12_map == Numbered(0,
    <<"stu8", "sts8", "stu16", "sts16", "stu32", "sts32", "stu64", "sts64", "stf16">>)

-----------------------------------------------------------------------------
(* From numbers back to names. *)

NameOf(map, number) == CHOOSE n \in DOMAIN map : map[n] = number
Numbers(map) == {map[n] : n \in DOMAIN map}

decode_reg_name(reg_index) == NameOf(reg_names_map, reg_index)

Unknown == [name |-> "unknown_instruction", args |-> "Unknown"]

\* The first of the tables that has the opcode (DECODE_ITERATION).
FirstWith(tables, opcode) ==
    LET having == {k \in DOMAIN tables : opcode \in Numbers(tables[k].map)}
        first == CHOOSE k \in having : \A j \in having : k <= j
    IN  IF having = {} THEN Unknown
        ELSE [name |-> NameOf(tables[first].map, opcode), args |-> tables[first].args]

Table(map, args) == [map |-> map, args |-> args]

ScalarTables ==
    <<Table(iog0_three_regs_scalar_map, "ThreeRegsScalar"),
      Table(iog0_two_regs_scalar_map, "TwoRegsScalar"),
      Table(iog0_one_reg_one_pc_one_simm12_scalar_map, "OneRegOnePcOneSimm12Scalar"),
      Table(iog0_two_regs_one_simm12_scalar_map, "TwoRegsOneSimm12Scalar")>>
VectorTables ==
    <<Table(iog0_three_regs_vector_map, "ThreeRegsVector"),
      Table(iog0_two_regs_vector_map, "TwoRegsVector"),
      Table(iog0_one_reg_one_pc_one_simm12_vector_map, "OneRegOnePcOneSimm12Vector"),
      Table(iog0_two_regs_one_simm12_vector_map, "TwoRegsOneSimm12Vector")>>

decode_iog0_instr_name_and_args_type(sv_bit, opcode) ==
    FirstWith((IF sv_bit THEN VectorTables ELSE ScalarTables)
              \o <<Table(iog0_three_regs_one_simm12_map, "ThreeRegsOneSimm12")>>, opcode)
decode_iog1_instr_name_and_args_type(opcode) ==
    FirstWith(<<Table(iog1_rel_branch_map, "RelBranch"), Table(iog1_jump_map, "Jump")>>, opcode)
decode_iog2_instr_name_and_args_type(opcode) ==
    FirstWith(<<Table(iog2_ld_three_regs_one_simm12_map, "LdThreeRegsOneSimm12")>>, opcode)
decode_iog3_instr_name_and_args_type(opcode) ==
    FirstWith(<<Table(iog3_st_three_regs_one_simm12_map, "StThreeRegsOneSimm12")>>, opcode)

-----------------------------------------------------------------------------
(* The assembler's side of the layout: fields are cut to their width. *)

Field(x, width, position) == (x % 2^width) * 2^position

HighHalf(group, sv_bit, a, b, c) ==
    group * 2^13 + sv_bit * 2^12 + Field(a, 4, 8) + Field(b, 4, 4) + Field(c, 4, 0)

encode_group_0_instr(sv_bit, a, b, c, opcode, simm12) ==
    <<HighHalf(0, sv_bit, a, b, c), Field(opcode, 4, 12) + Field(simm12, 12, 0)>>

\* Mutant: the immediate is cut to 16 bits.
encode_group_1_instr_Simm16(a, opcode, simm20) ==
    <<HighHalf(1, 0, a, opcode, 0), simm20 % 2^16>>
\* The immediate lies across both halves.
encode_group_1_instr(a, opcode, simm20) ==
    <<HighHalf(1, 0, a, opcode, get_bits_with_range(simm20, 19, 16)), simm20 % 2^16>>

encode_group_2_instr(a, b, c, opcode, simm12) ==
    <<HighHalf(2, 0, a, b, c), Field(opcode, 4, 12) + Field(simm12, 12, 0)>>
encode_group_3_instr(a, b, c, opcode, simm12) ==
    <<HighHalf(3, 0, a, b, c), Field(opcode, 4, 12) + Field(simm12, 12, 0)>>

-----------------------------------------------------------------------------
(* The disassembler's side. *)

decode_iog(instr) == get_bits_with_range(instr[1], 15, 13)

DecodeRegs(instr) ==
    [a |-> get_bits_with_range(instr[1], 11, 8),
     b |-> get_bits_with_range(instr[1], 7, 4),
     c |-> get_bits_with_range(instr[1], 3, 0)]

\* The sv bit is 0 or 2^28 here, and only tested for being zero.
decode_group_0_instr(instr) ==
    [sv_bit |-> get_bits_with_range(instr[1], 12, 12) # 0, regs |-> DecodeRegs(instr),
     opcode |-> get_bits_with_range(instr[2], 15, 12), simm |-> SignedField(instr[2], 12)]
\* Mutant: the immediate is not extended by its sign.
decode_group_1_instr_Unsigned(instr) ==
    [regs |-> [DecodeRegs(instr) EXCEPT !.b = 0, !.c = 0],
     opcode |-> get_bits_with_range(instr[1], 7, 4), simm |-> (instr[1] % 16) * 2^16 + instr[2]]
\* Only ra is a register; the other two keep their initial 0.
decode_group_1_instr(instr) ==
    [regs |-> [DecodeRegs(instr) EXCEPT !.b = 0, !.c = 0],
     opcode |-> get_bits_with_range(instr[1], 7, 4),
     simm |-> SignedField((instr[1] % 16) * 2^16 + instr[2], 20)]
decode_group_2_instr(instr) ==
    [regs |-> DecodeRegs(instr),
     opcode |-> get_bits_with_range(instr[2], 15, 12), simm |-> SignedField(instr[2], 12)]
decode_group_3_instr(instr) == decode_group_2_instr(instr)
=============================================================================
