---------------------------- MODULE ToolchainRules ----------------------------
(***************************************************************************)
(* What the image and the listing owe to the source: the bytes that each      *)
(* line denotes and the instruction that it names, at the address and with    *)
(* the values that the second pass has met there.                            *)
(***************************************************************************)
EXTENDS Toolchain, AssemblerRules

Addr(i) == trace[1][i].addr
Bytes(i) == Addr(i) .. Addr(i) + Size(program[i]) - 1
DataLines == {i \in DOMAIN program : Width(program[i]) > 0}
CodeLines == {i \in DOMAIN program : program[i].kind = "instruction"}

\* Byte b of a 64-bit number, 0 being the lowest.
ByteOfNumber(v, b) == (Half(v, b \div 2) \div 2^(8 * (b % 2))) % 2^8
\* The byte that data line i puts at address a, which is one of its own.
Denoted(i, a) ==
    LET offset == a - Addr(i)
        width == Width(program[i])
    IN  ByteOfNumber(trace[1][i].values[offset \div width + 1], offset % width)

InMemory(a) == a \div 32 \in DOMAIN memory
Element(a) == memory[a \div 32][(a % 32) \div 4]
MemoryByte(a) == ByteOf(Element(a), a % 4)

\* What the generator asks of its input: addresses of two digits or more, data
\* aligned to the size it is printed in, and a first word that is not word 1.
PrintedAligned(line) ==
    IF line.kind = "db8" /\ Len(line.exprs) < 4 THEN 1
    ELSE IF line.kind = "db16" /\ Len(line.exprs) < 2 THEN 2 ELSE 4
Readable == Lexed(out) = out
Aligned == \A i \in DataLines \cup CodeLines : Addr(i) % PrintedAligned(program[i]) = 0
StartsBelowOrBeyondWordOne ==
    LET used == {a \div 32 : a \in UNION {Bytes(i) : i \in DataLines \cup CodeLines}} IN
    1 \in used => 0 \in used
Loadable == stage = "end" /\ tool = "-w" /\ Readable /\ Aligned /\ StartsBelowOrBeyondWordOne

-----------------------------------------------------------------------------
\* The instruction proper that a line stands for, with its registers: syscalls
\* and pseudo-instructions are written in other words.
HasPc(line) == line.form \in Pcrels \cup {"Grp0OneRegOnePcOneSimm12Scalar", "Grp0OneRegOnePcOneSimm12Vector"}
Real(line) ==
    LET r == line.regs
        dzero == <<"reg", "dzero">>
        As(name, regs) == [name |-> name, regs |-> regs]
    IN  CASE line.form = "Grp0SimSyscall" ->
                As("sim_syscall", SubSeq(r \o <<dzero, dzero, dzero>>, 1, 3))
          [] line.form \in {"BraOneSimm20", "BlOneSimm20"} -> As("bzo", <<dzero>>)
          [] line.form = "JlOneReg" -> As("jmp", r)
          [] line.form = "PcrelScalar" -> As("addis", r)
          [] line.form = "PcrelVector" -> As("addiv", r)
          [] line.form = "CpysTwoRegs" -> As("adds", <<r[1], dzero, r[2]>>)
          [] line.form = "CpyisOneRegOneSimm12" -> As("addis", <<r[1], dzero>>)
          [] OTHER -> As(line.name, r)

\* The index of an operand of line i: a symbol counts by its low bits.
RegIndex(i, operand) ==
    IF operand[1] = "reg" THEN reg_names_map[operand[2]] ELSE trace[1][i].syms[operand[2]] % 16

\* The operation of the CPU that each mnemonic stands for, and whether it is
\* one on vectors.
Operations ==
    LET Both(k, oper) ==
            <<"adds", "subs", "slts", "muls", "divs", "ands", "orrs", "xors", "shls", "shrs",
              "invs", "nots">>[k] :> <<oper, 0>>
            @@ <<"addv", "subv", "sltv", "mulv", "divv", "andv", "orrv", "xorv", "shlv", "shrv",
                 "invv", "notv">>[k] :> <<oper, 1>>
    IN  Both(1, "Add_ThreeRegs") @@ Both(2, "Sub_ThreeRegs") @@ Both(3, "Slt_ThreeRegs")
        @@ Both(4, "Mul_ThreeRegs") @@ Both(5, "Div_ThreeRegs") @@ Both(6, "And_ThreeRegs")
        @@ Both(7, "Orr_ThreeRegs") @@ Both(8, "Xor_ThreeRegs") @@ Both(9, "Shl_ThreeRegs")
        @@ Both(10, "Shr_ThreeRegs") @@ Both(11, "Inv_TwoRegs") @@ Both(12, "Not_TwoRegs")
        @@ "sim_syscall" :> <<"SimSyscall_ThreeRegsOneSimm12", 0>>
        @@ "bnz" :> <<"Bnz_OneRegOneSimm20", 0>> @@ "bzo" :> <<"Bzo_OneRegOneSimm20", 0>>
        @@ "jmp" :> <<"Jmp_OneReg", 0>>
        @@ "ldu8" :> <<"LdU8", 0>> @@ "lds8" :> <<"LdS8", 0>> @@ "ldu16" :> <<"LdU16", 0>>
        @@ "lds16" :> <<"LdS16", 0>> @@ "ldu32" :> <<"LdU32", 0>> @@ "lds32" :> <<"LdS32", 0>>
        @@ "ldu64" :> <<"LdU64", 0>> @@ "lds64" :> <<"LdS64", 0>> @@ "ldf16" :> <<"LdF16", 0>>
        @@ "stu8" :> <<"StU8", 0>> @@ "sts8" :> <<"StS8", 0>> @@ "stu16" :> <<"StU16", 0>>
        @@ "sts16" :> <<"StS16", 0>> @@ "stu32" :> <<"StU32", 0>> @@ "sts32" :> <<"StS32", 0>>
        @@ "stu64" :> <<"StU64", 0>> @@ "sts64" :> <<"StS64", 0>> @@ "stf16" :> <<"StF16", 0>>
Operation(line) ==
    LET name == Real(line).name
        shape == IF HasPc(line) THEN "Addi_OneRegOnePcOneSimm12" ELSE "Addi_TwoRegsOneSimm12"
    IN  CASE name = "addis" -> <<shape, 0>> [] name = "addiv" -> <<shape, 1>>
          [] OTHER -> Operations[name]

\* What the CPU makes of an immediate: a target relative to the instruction
\* that follows, a sum with the program counter, a number of a syscall, or a
\* number.
Syscalls == <<"sysc_disp_regs", "sysc_disp_ddest_vector_data", "sysc_disp_ddest_scalar_data",
              "sysc_disp_ddest_addr", "sysc_finish">>
ImmediateIsRight(i, addr, imm) ==
    LET form == program[i].form
        value == trace[1][i].values[1]
    IN  CASE <<i, "immediate">> \in warnings -> TRUE
          [] form \in Branches -> addr + 4 + imm = value
          [] form \in Pcrels -> addr + imm = value
          [] form = "Grp0SimSyscall" -> Syscalls[imm + 1] = program[i].name
          [] program[i].exprs # <<>> -> imm = value
          [] OTHER -> TRUE

\* The address of the word that line i is named for: calls have one before it.
WordAddr(i) == Addr(i) + Size(program[i]) - 4

LastAt(a, i) == a \in Bytes(i) /\ \A j \in i + 1 .. Len(program) : a \notin Bytes(j)
Intact(i) == \A a \in Bytes(i) : LastAt(a, i)

-----------------------------------------------------------------------------

\* Types of the tools' variables, and the invariants of the two passes and of the
\* symbol table; the words of the image are printed in the order of their addresses.
ToolInv ==
    /\ TypeOK
    /\ WalkInv
    /\ SymbolInv
    /\ NamesLeadToDefinitions
    /\ stage \in {"assembling", "failed", "disassembling", "generating", "end"}
    /\ tool \in {"-d", "-w"}
    /\ Len(listing) = text_at - 1
    /\ curr_instr_addr \in Nat
    /\ \A a \in DOMAIN mem_words_map :
            a \in Nat /\ \A k \in 0 .. 7, h \in 1 .. 2 : mem_words_map[a][k][h] \in 0 .. 2^16 - 1
    /\ \A k, n \in DOMAIN printed : k < n => printed[k].addr < printed[n].addr
    /\ DOMAIN memory \subseteq Nat

\* Every byte of data is in the memory at its address with the value that the
\* source gives it, whatever its directive packs into words and in whatever
\* order the addresses come, unless a later line has the same address.
ImageIsProgram ==
    Loadable => \A i \in DataLines : \A a \in Bytes(i) :
        LastAt(a, i) => InMemory(a) /\ MemoryByte(a) = Denoted(i, a)

\* The CPU, reading the memory at an instruction's address, decodes the
\* operation and the registers that the source names; the immediate takes it
\* to the value of the expression, and after a call dlr has the address of
\* the line below.
CpuRunsTheSource ==
    Loadable => \A i \in CodeLines : Intact(i) =>
        LET line == program[i]
            cpu == Decoded(Element(WordAddr(i)))
            regs == Real(line).regs
            ret == Decoded(Element(Addr(i)))
        IN  /\ InMemory(WordAddr(i)) /\ ~cpu.nop
            /\ <<cpu.oper, cpu.op_type>> = Operation(line)
            /\ \A k \in DOMAIN regs :
                    RegIndex(i, regs[k]) = <<cpu.ra_index, cpu.rb_index, cpu.rc_index>>[k]
            /\ ImmediateIsRight(i, WordAddr(i), cpu.signext_imm)
            /\ line.form \in Calls =>
                    /\ <<ret.oper, ret.ra_index>> = <<"Addi_OneRegOnePcOneSimm12", reg_names_map["dlr"]>>
                    /\ Addr(i) + ret.signext_imm = Addr(i) + Size(line)

\* The disassembler shows, at the address of an instruction, the instruction
\* that the source names there, its registers and the immediate that it was
\* assembled with.
AddressOfText ==
    LET after[k \in 0 .. Len(text)] ==
            IF k = 0 THEN 0
            ELSE IF text[k][1] = "@" THEN text[k][2]
            ELSE after[k - 1] + num_good_chars(text[k]) \div 2
    IN  [k \in DOMAIN text |-> after[k - 1]]
ListingShowsTheSource ==
    stage = "end" /\ tool = "-d" /\ show_words /\ Readable =>
        \A i \in CodeLines : \E k \in DOMAIN listing :
            /\ AddressOfText[k] = WordAddr(i)
            /\ listing[k].entry = "instr"
            /\ listing[k].name = Real(program[i]).name
            /\ listing[k].pc = HasPc(program[i])
            /\ [n \in DOMAIN listing[k].regs |-> reg_names_map[listing[k].regs[n]]]
                = [n \in DOMAIN Real(program[i]).regs |-> RegIndex(i, Real(program[i]).regs[n])]
            /\ \A n \in DOMAIN listing[k].simm : ImmediateIsRight(i, WordAddr(i), listing[k].simm[n])
=============================================================================
