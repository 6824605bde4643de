---------------------------- MODULE PipelineData ----------------------------
(***************************************************************************)
(* The operands of instructions.  The three stages with the data between     *)
(* them, the forwarder and the read ports, on top of LarFileSystem.  The     *)
(* front gets any instruction, or none, in each cycle in which it would get  *)
(* one from the instruction cache; program counters are PipelineControl's.   *)
(* For data a nop is a bubble and control flow reads like a result's         *)
(* instruction but writes nothing, so only results, loads and stores are     *)
(* fetched.  Values are opaque: a result and the address of a load or store  *)
(* are any.  Casts only make a stall longer, which a multi-cycle operation   *)
(* does as well.                                                             *)
(*                                                                         *)
(* Beside it runs the sequential machine that the pipeline is to be: it      *)
(* executes an instruction at once at the edge at which the execute stage    *)
(* hands it on.                                                              *)
(***************************************************************************)
EXTENDS LarFileSystem, LarReadPorts

CONSTANTS
    Unknown,       \* what a LAR without a window has stored
    Roaming        \* bound: the LARs that loads and stores point anywhere
ASSUME UnknownAssumption == Unknown \notin Data
\* An instruction's destination is read through the first port.
ASSUME PortsAssumption == "a" \in Ports

VARIABLES
    ifid_state, to_ex,
    ex_state, captured_instr, captured_multi, to_wb,
    computed,                        \* computed_data and ldst_addr, towards write-back
    past_results, captured_true_ra,
    seq_memory, seq_window           \* history: the sequential machine

IfId == INSTANCE PipeStageIfId WITH NumAddrs <- 1, spec_reg_pc <- 0
Ex == INSTANCE PipeStageEx WITH NumAddrs <- 1
Operands == INSTANCE OperandForwarder
Sequential == INSTANCE FlatMemory WITH
    memory <- seq_memory, window <- seq_window, Data <- {Unknown}

dataVars == <<vars, rd, ifid_state, to_ex, Ex!exVars, computed, Operands!exDataVars,
              seq_memory, seq_window>>

NothingComputed == [data |-> Zero, base_addr |-> Addr0]

DataInit ==
    /\ SysInit /\ ReadInit /\ IfId!Init /\ Ex!Init /\ Operands!Init
    /\ computed = NothingComputed
    /\ seq_memory = main_mem
    /\ seq_window = [l \in Lars |-> NoAddr]

-----------------------------------------------------------------------------
(* Instructions *)

Indexes == [Ports -> Lars]
Nowhere == [p \in Ports |-> dzero]
Fetched ==
    [kind : {"alu"}, index : Indexes] \cup [kind : {"ldst"}, group : {2, 3}, index : Indexes]

\* What the instruction cache has for the front, if anything.
Offered == IF ifid_state \in {"StInit", "StRegular"} THEN Fetched \cup {IfId!Bubble} ELSE {IfId!Bubble}
\* The LARs that the read ports are pointed at: those of the instruction that the
\* front is looking at.
ReadIndexes(offer) ==
    IF ifid_state # "StRegular" \/ offer = IfId!Bubble THEN Nowhere ELSE offer.index

ToUse == Ex!InstrToUse(to_ex)
IsReal(slot) == slot.kind \in {"alu", "ldst"}
Ra(slot) == slot.instr.index["a"]

\* The other LARs only ever go to the power-up address.
MayPointAt(l) == IF l \in Roaming THEN BaseAddr ELSE {Addr0}

\* What write-back gets.
WbInput ==
    CASE to_wb.kind = "alu" -> [group |-> 0, ra |-> Ra(to_wb), computed_data |-> computed.data]
      [] to_wb.kind = "ldst" -> [group |-> to_wb.instr.group, ra |-> Ra(to_wb),
                                 base_addr |-> computed.base_addr,
                                 data_offset |-> Offset0, data_type |-> Type0]
      [] OTHER -> Wb!Bubble

\* The result and the address that an instruction may leave the execute stage
\* with.  Nobody takes what is computed for dzero.
Outcomes(stall) ==
    IF stall \/ ~IsReal(ToUse) \/ Ra(ToUse) = dzero THEN {NothingComputed}
    ELSE IF ToUse.kind = "alu" THEN [data : Data, base_addr : {Addr0}]
    ELSE [data : {Zero}, base_addr : MayPointAt(Ra(ToUse))]

SeqStep(stall, outcome) ==
    CASE ~stall /\ ToUse.kind = "alu" /\ seq_window[Ra(ToUse)] # NoAddr ->
            Sequential!Write(Ra(ToUse), outcome.data)
      [] ~stall /\ ToUse.kind = "ldst" /\ Ra(ToUse) # dzero ->
            IF ToUse.instr.group = 2 THEN Sequential!Ld(Ra(ToUse), outcome.base_addr)
            ELSE Sequential!St(Ra(ToUse), outcome.base_addr)
      [] OTHER -> UNCHANGED <<seq_memory, seq_window>>

\* The type of the operation and the answer of its unit, where they matter.
Multis == IF ex_state = "StRegular" THEN Ex!PossibleMulti(to_ex) ELSE {FALSE}
OpValids == IF ex_state = "StWaitForMultiCycleOp" THEN BOOLEAN ELSE {FALSE}

\* In a stalled cycle the front takes nothing, and what is read is read again.
DataEdge(offer, multi, op_valid) ==
    LET next_state == Ex!NextState("None", multi, FALSE, op_valid)
        stall == Ex!Stall(next_state)
        first == ex_state = "StRegular"
        wb_stall == Wb!Stall(WbInput, out_wr_valid)
    IN  /\ stall => offer = IfId!Bubble
        /\ \E outcome \in Outcomes(stall) :
            /\ IfId!Clock(offer # IfId!Bubble, offer, stall, 0, wb_stall)
            /\ GenRd(ReadIndexes(offer))
            /\ Ex!Clock(to_ex, multi, next_state)
            /\ Operands!Clock(first,
                    Operands!CurrResults(first, ToUse.kind = "alu",
                                         IF ToUse.kind = "alu" THEN Ra(ToUse) ELSE dzero,
                                         stall, outcome.data),
                    stall)
            /\ computed' = outcome
            /\ SeqStep(stall, outcome)
            /\ SysStep(WbInput)

DataNext ==
    \E offer \in Offered, multi \in Multis, op_valid \in OpValids :
        DataEdge(offer, multi, op_valid)

DataSpec == DataInit /\ [][DataNext]_dataVars

-----------------------------------------------------------------------------
(* Properties *)

Reads(p) == ex_state = "StRegular" /\ IsReal(to_ex)
Reader(p) == to_ex.instr.index[p]

\* An instruction that comes to the execute stage finds at each port the line, and
\* the address, that the LAR has after all instructions before it, wherever their
\* results are: in the last results, in write-back, or in the LAR file.
OperandsAreSequential ==
    \A p \in Ports : Reads(p) /\ seq_window[Reader(p)] # NoAddr =>
        LET a == seq_window[Reader(p)] IN
        /\ Operands!CurrTrueData(p).base_addr = a
        /\ seq_memory[a] # Unknown => Operands!CurrTrueData(p).data = seq_memory[a]

\* Once all instructions have left the pipeline, the LAR file shows memory and the
\* LARs as the sequential machine has them.
Drained ==
    /\ ~IsReal(to_ex) /\ ~IsReal(captured_instr) /\ ~IsReal(to_wb)
    /\ wb_state = "StRegular"
    /\ wr.req => wr.index = dzero
DrainsToSequentialState ==
    Drained =>
        /\ \A a \in BaseAddr : seq_memory[a] # Unknown => Line(a) = seq_memory[a]
        /\ \A l \in Lars : tag[l] = UnallocatedTag <=> seq_window[l] = NoAddr
        /\ \A l \in Lars : tag[l] # UnallocatedTag => base_addr[tag[l]] = seq_window[l]

-----------------------------------------------------------------------------
(* Why the operands are right: what is under way between EX and the LAR file *)

Slot == {Ex!Bubble} \cup {[instr |-> i, kind |-> i.kind, pc_val |-> 0] : i \in Fetched}
ResultSlot == {Operands!NoResult} \cup
              [valid : {TRUE}, base_addr : BaseAddr, computed_data : Data]
ReadData == [tag : Tags, data_offset : DataOffset, data_type : DataType, data : Data,
             base_addr : BaseAddr]
DataTypes ==
    /\ rd \in [Ports -> ReadData]
    /\ ifid_state \in {"StInit", "StRegular", "StWaitForLdStPart0", "StWaitForLdStPart1"}
    /\ ex_state \in {"StRegular", "StWaitForMultiCycleOp"}
    /\ {to_ex, captured_instr, to_wb} \subseteq Slot
    /\ computed \in [data : Data, base_addr : BaseAddr]
    /\ past_results \in [0 .. 3 -> ResultSlot]
    /\ seq_memory \in [BaseAddr -> Data \cup {Unknown}]
    /\ seq_window \in [Lars -> BaseAddr \cup {NoAddr}]

\* The fetch stage waits for a load or store, first while that is in the execute
\* stage and then until write-back is done with it; no other instruction is behind it.
LdStHasTheBack ==
    /\ ifid_state = "StInit" => to_ex = Ex!Bubble
    /\ ifid_state = "StWaitForLdStPart0" <=> to_ex.kind = "ldst"
    /\ ifid_state = "StWaitForLdStPart1" =>
           /\ to_ex = Ex!Bubble /\ to_wb.kind # "alu"
           /\ to_wb.kind = "ldst" \/ wb_state # "StRegular"
    /\ to_wb.kind = "ldst" \/ wb_state # "StRegular" => ifid_state = "StWaitForLdStPart1"
    /\ wb_state # "StRegular" => to_wb = Ex!Bubble
    /\ ex_state # "StRegular" => ifid_state = "StRegular" /\ captured_instr.kind = "alu"

\* The line at a, once the LAR file has what write-back asks for, and once
\* write-back has had what the execute stage hands it.
AfterRequest(a) ==
    IF wr.req /\ wr.write_type = "OnlyData" /\ Window(wr.index) = a THEN wr.data ELSE Line(a)
AfterResult(a) ==
    IF to_wb.kind = "alu" /\ Window(Ra(to_wb)) = a THEN computed.data ELSE AfterRequest(a)

\* The load or store whose effect the LAR file does not show yet.
LdStUnderWay ==
    CASE to_wb.kind = "ldst" -> Wb!LdStRequest(WbInput)
      [] to_wb.kind # "ldst" /\ wb_state = "StPrepLdSt" -> Wb!LdStRequest(captured_decoded_instr)
      [] wb_state = "StWaitForLarFileValid" /\ wr.req -> wr
      [] wr_state = "WrStStartLdSt" ->
            [req |-> TRUE, write_type |-> captured.write_type, index |-> captured.index,
             base_addr |-> captured.new_addr]
      [] OTHER -> NoReq
Moves(l) == l # dzero /\ LdStUnderWay.req /\ LdStUnderWay.index = l
StoresTo(a) == /\ LdStUnderWay.req /\ LdStUnderWay.index # dzero
               /\ LdStUnderWay.write_type = "St" /\ LdStUnderWay.base_addr = a
\* Where the line at a comes from; nowhere if it is what a LAR without a window stores.
SourceOf(a) == IF StoresTo(a) THEN Window(LdStUnderWay.index) ELSE a

\* The LAR file shows what the sequential machine has, once it is through with
\* what is under way.
SequentialInTheEnd ==
    /\ \A l \in Lars : seq_window[l] = IF Moves(l) THEN LdStUnderWay.base_addr ELSE Window(l)
    /\ \A a \in BaseAddr : seq_memory[a] # Unknown =>
           SourceOf(a) # NoAddr /\ seq_memory[a] = AfterResult(SourceOf(a))

\* The last four results are those that are on their way to a read port: in the
\* input of write-back, in its request, at the write port of the block RAM, and
\* one that the RAM has taken at the last edge.
ResultFor(a, d) == IF a = NoAddr THEN Operands!NoResult ELSE Operands!Result(a, d)
PastResultsAreUnderWay ==
    ifid_state # "StWaitForLdStPart1" =>
        /\ past_results[0] = IF to_wb.kind = "alu"
                             THEN ResultFor(Window(Ra(to_wb)), computed.data) ELSE Operands!NoResult
        /\ past_results[1] = IF wr.req THEN ResultFor(Window(wr.index), wr.data)
                             ELSE Operands!NoResult
        /\ past_results[2] = IF data_wr.req
                             THEN Operands!Result(base_addr[data_wr.index], data_wr.data)
                             ELSE Operands!NoResult
        /\ data_wr.req => Allocated(data_wr.index)
        /\ past_results[3].valid => \E t \in Tags : /\ Allocated(t)
                                                    /\ past_results[3].base_addr = base_addr[t]
                                                    /\ past_results[3].computed_data = data[t]
\* A load or store is long enough on its way for all of them to be gone behind it.
PastResultsRunOut ==
    ifid_state = "StWaitForLdStPart1" =>
        /\ past_results[0] = Operands!NoResult
        /\ wb_state # "StRegular" => past_results[1] = Operands!NoResult
        /\ wb_state = "StWaitForLarFileValid" => past_results[2] = Operands!NoResult
        /\ wb_state = "StWaitForLarFileValid" /\ ~wr.req => past_results[3] = Operands!NoResult

\* A read port shows what the LAR file has, or misses the last of the four results.
PortsAreRecent ==
    /\ \A p \in Ports : Reads(p) =>
           LET t == tag[Reader(p)] IN
           /\ rd[p].tag = t /\ rd[p].base_addr = base_addr[t]
           /\ \/ rd[p].data = data[t]
              \/ past_results[3].valid /\ past_results[3].base_addr = base_addr[t]
    /\ ex_state # "StRegular" =>
           LET t == tag[Ra(captured_instr)] IN captured_true_ra = [tag |-> t, base_addr |-> base_addr[t]]

\* The inductive invariant behind the theorems of PipelineData_proofs.
DataInv ==
    /\ SysInv
    /\ DataTypes
    /\ LdStHasTheBack
    /\ SequentialInTheEnd
    /\ PastResultsAreUnderWay
    /\ PastResultsRunOut
    /\ PortsAreRecent

\* "dzero (always zero)": the list of registers in snow64_instruction_set.md.
DzeroReadsZero ==
    \A p \in Ports : Reads(p) /\ Reader(p) = dzero => Operands!CurrTrueData(p).data = Zero
=============================================================================
