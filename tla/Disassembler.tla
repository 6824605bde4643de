----------------------------- MODULE Disassembler -----------------------------
(***************************************************************************)
(* The disassembler: one entry of the listing for each line of its input.    *)
(***************************************************************************)
EXTENDS EncodingStuff, DisassemblerGrammar

VARIABLES
    text,       \* the lines that the parser has read
    text_at,    \* the line to visit next
    listing

disVars == <<text, text_at, listing>>

\* The name, arguments and fields of an instruction word.
DecodedInstr(instr) ==
    LET iog == decode_iog(instr)
        Entry(named, d) == [name |-> named.name, args |-> named.args, regs |-> d.regs, simm |-> d.simm]
    IN  CASE iog = 0 ->
                LET d == decode_group_0_instr(instr) IN
                Entry(decode_iog0_instr_name_and_args_type(d.sv_bit, d.opcode), d)
          [] iog = 1 ->
                LET d == decode_group_1_instr(instr) IN
                Entry(decode_iog1_instr_name_and_args_type(d.opcode), d)
          [] iog = 2 ->
                LET d == decode_group_2_instr(instr) IN
                Entry(decode_iog2_instr_name_and_args_type(d.opcode), d)
          [] iog = 3 ->
                LET d == decode_group_3_instr(instr) IN
                Entry(decode_iog3_instr_name_and_args_type(d.opcode), d)
          [] OTHER -> [Unknown EXCEPT !.name = "none"]

\* How many of the registers ra, rb and rc are shown, whether pc is, and
\* whether the immediate is.
ShownRegs(args) ==
    CASE args \in {"ThreeRegsScalar", "ThreeRegsVector", "ThreeRegsOneSimm12",
                   "LdThreeRegsOneSimm12", "StThreeRegsOneSimm12"} -> 3
      [] args \in {"TwoRegsScalar", "TwoRegsVector",
                   "TwoRegsOneSimm12Scalar", "TwoRegsOneSimm12Vector"} -> 2
      [] OTHER -> 1
ShowsPc(args) == args \in {"OneRegOnePcOneSimm12Scalar", "OneRegOnePcOneSimm12Vector"}
ShowsSimm(args) ==
    args \notin {"ThreeRegsScalar", "ThreeRegsVector", "TwoRegsScalar", "TwoRegsVector", "Jump"}

Instr(d) ==
    LET names == <<decode_reg_name(d.regs.a), decode_reg_name(d.regs.b), decode_reg_name(d.regs.c)>>
    IN  [entry |-> "instr", name |-> d.name, regs |-> SubSeq(names, 1, ShownRegs(d.args)),
         pc |-> ShowsPc(d.args), simm |-> IF ShowsSimm(d.args) THEN <<d.simm>> ELSE <<>>]

Data(directive, data) == [entry |-> directive, data |-> data]

\* What is shown of a line: its address, an instruction, or data when it is
\* too short for an instruction or none that is known.
Shown(line) ==
    IF line[1] = "@" THEN Data("org", convert_hex_string(line))
    ELSE LET data == convert_hex_string(line) IN
         CASE num_good_chars(line) = 2 -> Data("db8", data)
           [] num_good_chars(line) = 4 -> Data("db16", data)
           [] OTHER -> IF DecodedInstr(data).args = "Unknown" THEN Data("db32", data)
                       ELSE Instr(DecodedInstr(data))

DisInit ==
    /\ text = <<>>
    /\ text_at = 1
    /\ listing = <<>>

DisassembleLine ==
    /\ text_at <= Len(text)
    /\ listing' = Append(listing, Shown(text[text_at]))
    /\ text_at' = text_at + 1
    /\ UNCHANGED text
=============================================================================
