------------------------- MODULE PipelineData_proofs -------------------------
(***************************************************************************)
(* Proofs about the operands of instructions, for every number of LARs and   *)
(* of read ports, every memory, every sequence of instructions, results and  *)
(* addresses, and every latency of multi-cycle operations and of memory.     *)
(***************************************************************************)
EXTENDS PipelineData, LarFileSystem_proofs

-----------------------------------------------------------------------------
(* Instructions between the stages *)

LEMMA SlotFields ==
    ASSUME NEW s \in Slot
    PROVE  /\ s = Ex!Bubble \/ s.kind \in {"alu", "ldst"}
           /\ Ex!Bubble.kind = "bubble"
           /\ IsReal(s) => /\ s.instr \in Fetched /\ s.kind = s.instr.kind
                           /\ s.instr.index \in [Ports -> Lars] /\ Ra(s) \in Lars
           /\ s.kind = "ldst" => s.instr.group \in {2, 3}
<1>1. Ex!Bubble.kind = "bubble" /\ ~IsReal(Ex!Bubble)
  BY DEF Ex!Bubble, IsReal
<1>2. ASSUME NEW i \in Fetched, s = [instr |-> i, kind |-> i.kind, pc_val |-> 0]
      PROVE  /\ s.kind \in {"alu", "ldst"} /\ s.instr \in Fetched /\ s.kind = s.instr.kind
             /\ s.instr.index \in [Ports -> Lars] /\ Ra(s) \in Lars
             /\ s.kind = "ldst" => s.instr.group \in {2, 3}
  <2>1. i.index \in [Ports -> Lars] /\ i.kind \in {"alu", "ldst"}
        /\ (i.kind = "ldst" => i.group \in {2, 3})
    BY <1>2 DEF Fetched, Indexes
  <2>2. i.index["a"] \in Lars
    BY <2>1, PortsAssumption
  <2>3. QED
    BY <1>2, <2>1, <2>2 DEF Ra
<1>3. QED
  BY <1>1, <1>2 DEF Slot

\* What write-back gets is an instruction of its.
LEMMA WbInputTypes ==
    ASSUME DataTypes
    PROVE  /\ WbInput \in Wb!Instr
           /\ to_wb.kind = "alu" => /\ WbInput.group = 0 /\ WbInput.ra = Ra(to_wb)
                                    /\ WbInput.computed_data = computed.data
           /\ to_wb.kind = "ldst" => WbInput \in Wb!LdStInstr /\ WbInput.group \in {2, 3}
           /\ ~IsReal(to_wb) => WbInput = Wb!Bubble
<1>1. to_wb \in Slot /\ computed.data \in Data /\ computed.base_addr \in BaseAddr
  BY DEF DataTypes
<1>2. CASE to_wb.kind = "alu"
  <2>1. WbInput = [group |-> 0, ra |-> Ra(to_wb), computed_data |-> computed.data]
    BY <1>2 DEF WbInput
  <2>2. QED
    BY <1>1, <1>2, <2>1, SlotFields DEF IsReal, Wb!Instr, Wb!AluInstr
<1>3. CASE to_wb.kind = "ldst"
  <2>1. WbInput = [group |-> to_wb.instr.group, ra |-> Ra(to_wb),
                   base_addr |-> computed.base_addr, data_offset |-> Offset0, data_type |-> Type0]
    BY <1>3 DEF WbInput
  <2>2. QED
    BY <1>1, <1>3, <2>1, SlotFields, ResetAssumption DEF IsReal, Wb!Instr, Wb!LdStInstr
<1>4. CASE to_wb.kind \notin {"alu", "ldst"}
  <2>1. WbInput = Wb!Bubble
    BY <1>4 DEF WbInput
  <2>2. QED
    BY <1>4, <2>1 DEF IsReal, Wb!Instr
<1>5. QED
  BY <1>2, <1>3, <1>4

-----------------------------------------------------------------------------
(* What an edge does to each stage *)

FrontMoves(offer, stall) ==
    /\ ifid_state = "StInit" =>
           to_ex' = Ex!Bubble /\ ifid_state' \in {"StInit", "StRegular"}
    /\ ifid_state = "StRegular" /\ stall => UNCHANGED <<ifid_state, to_ex>>
    /\ ifid_state = "StRegular" /\ ~stall =>
           \/ /\ offer = Ex!Bubble /\ to_ex' = Ex!Bubble /\ ifid_state' = "StRegular"
           \/ /\ offer \in Fetched
              /\ to_ex' = [instr |-> offer, kind |-> offer.kind, pc_val |-> 0]
              /\ ifid_state' = IF offer.kind = "ldst" THEN "StWaitForLdStPart0" ELSE "StRegular"
    /\ ifid_state = "StWaitForLdStPart0" =>
           to_ex' = Ex!Bubble /\ ifid_state' = "StWaitForLdStPart1"
    /\ ifid_state = "StWaitForLdStPart1" =>
           /\ to_ex' = Ex!Bubble
           /\ ifid_state' = IF Wb!Stall(WbInput, out_wr_valid)
                            THEN "StWaitForLdStPart1" ELSE "StRegular"

ExMoves(stall) ==
    /\ stall \in BOOLEAN
    /\ stall => ToUse.kind = "alu" /\ captured_instr' = ToUse
    /\ ~stall => captured_instr' = Ex!Bubble
    /\ ex_state' = IF stall THEN "StWaitForMultiCycleOp" ELSE "StRegular"
    /\ to_wb' = IF stall THEN Ex!Bubble ELSE ToUse

OperandsMove(stall, outcome) ==
    LET first == ex_state = "StRegular" IN
    Operands!Clock(first,
        Operands!CurrResults(first, ToUse.kind = "alu",
                             IF ToUse.kind = "alu" THEN Ra(ToUse) ELSE dzero, stall, outcome.data),
        stall)

DataMoves(offer, stall, outcome) ==
    /\ outcome \in Outcomes(stall)
    /\ FrontMoves(offer, stall)
    /\ GenRd(ReadIndexes(offer))
    /\ ExMoves(stall)
    /\ OperandsMove(stall, outcome)
    /\ computed' = outcome
    /\ SeqStep(stall, outcome)

LEMMA FrontClock ==
    ASSUME ifid_state \in {"StInit", "StRegular", "StWaitForLdStPart0", "StWaitForLdStPart1"},
           NEW offer \in Offered, NEW stall \in BOOLEAN, stall => offer = IfId!Bubble,
           IfId!Clock(offer # IfId!Bubble, offer, stall, 0, Wb!Stall(WbInput, out_wr_valid))
    PROVE  FrontMoves(offer, stall)
<1>1. IfId!Bubble = Ex!Bubble /\ IfId!Bubble.kind = "bubble"
  BY DEF IfId!Bubble, Ex!Bubble
<1>2. offer \in Fetched \cup {Ex!Bubble}
  BY <1>1 DEF Offered
<1>3. \A i \in Fetched : i.kind \in {"alu", "ldst"} /\ i # Ex!Bubble
  BY <1>1 DEF Fetched
<1>4. CASE ifid_state = "StInit"
  BY <1>1, <1>4 DEF FrontMoves, IfId!Clock, IfId!InInit, IfId!RegularTake, IfId!RegularMiss,
                    IfId!RegularStall, IfId!ChangePc, IfId!WaitForLdStPart0,
                    IfId!WaitForLdStPart1, IfId!send_bubble
<1>5. CASE ifid_state = "StRegular" /\ stall
  BY <1>5 DEF FrontMoves, IfId!Clock, IfId!InInit, IfId!RegularTake, IfId!RegularMiss,
              IfId!RegularStall, IfId!ChangePc, IfId!WaitForLdStPart0, IfId!WaitForLdStPart1,
              IfId!ifidVars
<1>6. CASE ifid_state = "StRegular" /\ ~stall /\ offer = Ex!Bubble
  <2>1. IfId!RegularMiss(FALSE, FALSE)
    BY <1>1, <1>6 DEF IfId!Clock, IfId!InInit, IfId!RegularTake, IfId!RegularMiss,
                      IfId!RegularStall, IfId!ChangePc, IfId!WaitForLdStPart0,
                      IfId!WaitForLdStPart1
  <2>2. QED
    BY <1>1, <1>6, <2>1 DEF FrontMoves, IfId!RegularMiss, IfId!send_bubble
<1>7. CASE ifid_state = "StRegular" /\ ~stall /\ offer \in Fetched
  <2>1. IfId!RegularTake(TRUE, offer, FALSE)
    BY <1>1, <1>3, <1>7 DEF IfId!Clock, IfId!InInit, IfId!RegularTake, IfId!RegularMiss,
                            IfId!RegularStall, IfId!ChangePc, IfId!WaitForLdStPart0,
                            IfId!WaitForLdStPart1
  <2>2. QED
    BY <1>3, <1>7, <2>1
       DEF FrontMoves, IfId!RegularTake, IfId!RegularState, IfId!send_curr_instr
<1>8. CASE ifid_state = "StWaitForLdStPart0"
  BY <1>1, <1>8 DEF FrontMoves, IfId!Clock, IfId!InInit, IfId!RegularTake, IfId!RegularMiss,
                    IfId!RegularStall, IfId!ChangePc, IfId!WaitForLdStPart0,
                    IfId!WaitForLdStPart1, IfId!send_bubble
<1>9. CASE ifid_state = "StWaitForLdStPart1"
  BY <1>1, <1>9 DEF FrontMoves, IfId!Clock, IfId!InInit, IfId!RegularTake, IfId!RegularMiss,
                    IfId!RegularStall, IfId!ChangePc, IfId!WaitForLdStPart0,
                    IfId!WaitForLdStPart1, IfId!send_bubble
<1>10. QED
  BY <1>2, <1>4, <1>5, <1>6, <1>7, <1>8, <1>9

LEMMA ExClock ==
    ASSUME DataTypes, LdStHasTheBack, NEW multi \in Multis, NEW op_valid \in OpValids,
           NEW next_state, next_state = Ex!NextState("None", multi, FALSE, op_valid),
           NEW stall, stall = Ex!Stall(next_state), Ex!Clock(to_ex, multi, next_state)
    PROVE  ExMoves(stall)
<1>1. /\ ex_state \in {"StRegular", "StWaitForMultiCycleOp"}
      /\ stall = (next_state # "StRegular")
      /\ to_ex \in Slot /\ captured_instr \in Slot
  BY DEF DataTypes, Ex!Stall
<1>2. CASE ex_state = "StRegular"
  <2>1. next_state = IF multi THEN "StWaitForMultiCycleOp" ELSE "StRegular"
    BY <1>2 DEF Ex!NextState, Ex!NextFromRegular
  <2>2. multi => to_ex.kind = "alu"
    BY <1>1, <1>2, SlotFields DEF Multis, Ex!PossibleMulti, Ex!Bubble
  <2>3. multi \in BOOLEAN
    BY <1>2 DEF Multis, Ex!PossibleMulti
  <2>4. QED
    BY <1>1, <1>2, <2>1, <2>2, <2>3
       DEF ExMoves, ToUse, Ex!InstrToUse, Ex!Clock, Ex!ToWb, Ex!CaptureInstr, Ex!Stall
<1>3. CASE ex_state = "StWaitForMultiCycleOp"
  <2>1. next_state = IF op_valid THEN "StRegular" ELSE "StWaitForMultiCycleOp"
    BY <1>3 DEF Ex!NextState
  <2>2. captured_instr.kind = "alu"
    BY <1>3 DEF LdStHasTheBack
  <2>3. op_valid \in BOOLEAN
    BY <1>3 DEF OpValids
  <2>4. QED
    BY <1>1, <1>3, <2>1, <2>2, <2>3
       DEF ExMoves, ToUse, Ex!InstrToUse, Ex!Clock, Ex!ToWb, Ex!CaptureInstr, Ex!Stall
<1>4. QED
  BY <1>1, <1>2, <1>3

\* One edge of all stages, and of the LAR file and memory.
LEMMA DataEdgeMoves ==
    ASSUME DataTypes, LdStHasTheBack, DataNext
    PROVE  /\ SysStep(WbInput)
           /\ \E offer \in Offered, stall \in BOOLEAN :
                 \E outcome \in Outcomes(stall) : DataMoves(offer, stall, outcome)
<1>1. PICK offer \in Offered, multi \in Multis, op_valid \in OpValids :
         DataEdge(offer, multi, op_valid)
  BY DEF DataNext
<1>2. PICK next_state : next_state = Ex!NextState("None", multi, FALSE, op_valid)
  OBVIOUS
<1>3. PICK stall \in BOOLEAN : stall = Ex!Stall(next_state)
  BY DEF Ex!Stall
<1>4. PICK outcome \in Outcomes(stall) :
        /\ stall => offer = IfId!Bubble
        /\ IfId!Clock(offer # IfId!Bubble, offer, stall, 0, Wb!Stall(WbInput, out_wr_valid))
        /\ GenRd(ReadIndexes(offer))
        /\ Ex!Clock(to_ex, multi, next_state)
        /\ OperandsMove(stall, outcome)
        /\ computed' = outcome
        /\ SeqStep(stall, outcome)
        /\ SysStep(WbInput)
  BY <1>1, <1>2, <1>3 DEF DataEdge, OperandsMove
<1>5. FrontMoves(offer, stall)
  BY <1>4, FrontClock DEF DataTypes
<1>6. ExMoves(stall)
  BY <1>2, <1>3, <1>4, ExClock
<1>7. DataMoves(offer, stall, outcome)
  BY <1>4, <1>5, <1>6 DEF DataMoves
<1>8. QED
  BY <1>4, <1>7

-----------------------------------------------------------------------------
(* An edge of the whole is an edge of write-back, LAR file and memory *)

\* The memory side of an edge, with the answers that it gets.
LarEdge(in_mem_read, in_mem_write) ==
    /\ Edge(WbInput, in_mem_read, in_mem_write)
    /\ MemoryAnswers(in_mem_read, in_mem_write)

LEMMA DataStepIsSysStep ==
    ASSUME SysInv, DataTypes, LdStHasTheBack, SysStep(WbInput)
    PROVE  /\ SysNext /\ SysInv'
           /\ \E in_mem_read \in InMemRead, in_mem_write \in InMemWrite :
                 LarEdge(in_mem_read, in_mem_write)
<1>1. WbInput \in IncomingInstr
  <2>1. CASE wb_state = "StRegular"
    BY <2>1, WbInputTypes DEF IncomingInstr
  <2>2. CASE wb_state # "StRegular"
    <3>1. ~IsReal(to_wb)
      BY <2>2 DEF LdStHasTheBack, Ex!Bubble, IsReal
    <3>2. QED
      BY <2>2, <3>1, WbInputTypes DEF IncomingInstr
  <2>3. QED
    BY <2>1, <2>2
<1>2. SysNext
  BY <1>1 DEF SysNext
<1>3. SysInv'
  BY <1>2, SysNextKeepsInv
<1>4. /\ NotValid \in InMemRead /\ NotValid \in InMemWrite /\ NotValid.valid = FALSE
      /\ WriteAnswer \in InMemWrite /\ WriteAnswer.valid = TRUE
  BY DEF InMemRead, InMemWrite, NotValid, WriteAnswer
<1>5. CASE NoAnswer(WbInput)
  BY <1>2, <1>3, <1>4, <1>5 DEF NoAnswer, LarEdge, MemoryAnswers
<1>6. CASE AnswerRead(WbInput)
  <2> DEFINE r == [valid |-> TRUE, data |-> main_mem[pending_read]]
  <2>1. r \in InMemRead
    BY <1>6 DEF AnswerRead, SysInv, SysTypes, InMemRead, ReadAnswer
  <2>2. LarEdge(r, NotValid)
    BY <1>4, <1>6, <2>1 DEF AnswerRead, LarEdge, MemoryAnswers
  <2>3. QED
    BY <1>2, <1>3, <1>4, <2>1, <2>2
<1>7. CASE AnswerWrite(WbInput)
  <2>1. LarEdge(NotValid, WriteAnswer)
    BY <1>4, <1>7 DEF AnswerWrite, LarEdge, MemoryAnswers, MayLandWrite
  <2>2. QED
    BY <1>2, <1>3, <1>4, <2>1
<1>8. QED
  BY <1>5, <1>6, <1>7 DEF SysStep

\* dzero has no window.
LEMMA WindowTypes ==
    ASSUME LarInv
    PROVE  /\ \A l \in Lars : Window(l) \in BaseAddr \cup {NoAddr}
           /\ \A l \in Lars : Window(l) = NoAddr <=> tag[l] = UnallocatedTag
           /\ \A l \in Lars : Window(l) # NoAddr => Window(l) = base_addr[tag[l]]
           /\ Window(dzero) = NoAddr /\ dzero \in Lars /\ tag[dzero] = UnallocatedTag
  BY NoAddrAssumption, NumLarsAssumption
     DEF LarInv, TypeOK, DzeroIsZero, Window, Lars, dzero, UnallocatedTag

\* What the write-back stage does, in each of its states, with what it gets.
LEMMA WbEdge ==
    ASSUME DataTypes, LdStHasTheBack, SysTypes, Wb!Clock(WbInput, out_wr_valid)
    PROVE  /\ wb_state = "StRegular" /\ to_wb.kind # "ldst" =>
                /\ wb_state' = "StRegular"
                /\ wr' = [req |-> TRUE, write_type |-> "OnlyData",
                          index |-> IF to_wb.kind = "alu" THEN Ra(to_wb) ELSE dzero,
                          data |-> IF to_wb.kind = "alu" THEN computed.data ELSE Zero]
           /\ wb_state = "StRegular" /\ to_wb.kind = "ldst" =>
                /\ wb_state' = "StPrepLdSt" /\ captured_decoded_instr' = WbInput /\ wr' = wr
           /\ wb_state = "StPrepLdSt" =>
                /\ wb_state' = "StWaitForLarFileValid"
                /\ wr' = Wb!LdStRequest(captured_decoded_instr)
           /\ wb_state = "StWaitForLarFileValid" =>
                /\ wb_state' = IF out_wr_valid THEN "StRegular" ELSE "StWaitForLarFileValid"
                /\ wr' = NoReq
<1>1. CASE wb_state = "StRegular" /\ to_wb.kind # "ldst"
  <2>1. /\ WbInput.group = 0
        /\ WbInput.ra = IF to_wb.kind = "alu" THEN Ra(to_wb) ELSE dzero
        /\ WbInput.computed_data = IF to_wb.kind = "alu" THEN computed.data ELSE Zero
    BY <1>1, WbInputTypes DEF IsReal, Wb!Bubble, dzero
  <2>2. Wb!RegularWrite(WbInput)
    BY <1>1, <2>1 DEF Wb!Clock, Wb!RegularNoWrite, Wb!RegularLdSt, Wb!PrepLdSt,
                      Wb!WaitForLarFileValid
  <2>3. QED
    BY <1>1, <2>1, <2>2 DEF Wb!RegularWrite
<1>2. CASE wb_state = "StRegular" /\ to_wb.kind = "ldst"
  <2>1. Wb!RegularLdSt(WbInput)
    BY <1>2, WbInputTypes DEF Wb!Clock, Wb!RegularWrite, Wb!RegularNoWrite, Wb!PrepLdSt,
                              Wb!WaitForLarFileValid
  <2>2. QED
    BY <1>2, <2>1 DEF Wb!RegularLdSt
<1>3. CASE wb_state = "StPrepLdSt"
  BY <1>3 DEF Wb!Clock, Wb!RegularWrite, Wb!RegularNoWrite, Wb!RegularLdSt, Wb!PrepLdSt,
              Wb!WaitForLarFileValid
<1>4. CASE wb_state = "StWaitForLarFileValid"
  BY <1>4 DEF Wb!Clock, Wb!RegularWrite, Wb!RegularNoWrite, Wb!RegularLdSt, Wb!PrepLdSt,
              Wb!WaitForLarFileValid, Wb!DropRequest, Wb!NoReq, NoReq
<1>5. QED
  BY <1>1, <1>2, <1>3, <1>4 DEF SysTypes

-----------------------------------------------------------------------------
(* With no load or store under way the pipeline is settled *)

Settled == ifid_state # "StWaitForLdStPart1"

LEMMA SettledFacts ==
    ASSUME SysInv, DataTypes, LdStHasTheBack, Settled
    PROVE  /\ wb_state = "StRegular" /\ to_wb.kind # "ldst"
           /\ to_wb.kind = "alu" \/ to_wb = Ex!Bubble
           /\ wr_state = "WrStIdle" /\ ~out_wr_valid
           /\ wr.req => wr.write_type = "OnlyData"
           /\ LdStUnderWay = NoReq
           /\ \A l \in Lars : ~Moves(l)
           /\ \A a \in BaseAddr : ~StoresTo(a) /\ SourceOf(a) = a
<1>1. wb_state = "StRegular" /\ to_wb.kind # "ldst"
  BY DEF LdStHasTheBack, Settled
<1>2. to_wb.kind = "alu" \/ to_wb = Ex!Bubble
  BY <1>1, SlotFields DEF DataTypes
<1>3. wr_state = "WrStIdle" /\ ~out_wr_valid
  BY <1>1 DEF SysInv, WriteBackWaits
<1>4. wr.req => wr.write_type = "OnlyData"
  <2>1. wr.req => wr.write_type \notin {"Ld", "St"}
    BY <1>1 DEF SysInv, WriteBackWaits
  <2>2. QED
    BY <2>1, RequestTypes DEF SysInv, SysTypes, WbRequest
<1>5. LdStUnderWay = NoReq
  BY <1>1, <1>3 DEF LdStUnderWay
<1>6. NoReq.req = FALSE
  BY DEF NoReq
<1>7. QED
  BY <1>1, <1>2, <1>3, <1>4, <1>5, <1>6 DEF Moves, StoresTo, SourceOf

\* The sequential machine has what the LAR file will show once it has the result.
LEMMA SettledSequential ==
    ASSUME SysInv, DataTypes, LdStHasTheBack, SequentialInTheEnd, Settled
    PROVE  /\ \A l \in Lars : seq_window[l] = Window(l)
           /\ \A a \in BaseAddr : seq_memory[a] # Unknown => seq_memory[a] = AfterResult(a)
  BY SettledFacts DEF SequentialInTheEnd

LEMMA WrFields ==
    ASSUME SysTypes, wr.req
    PROVE  /\ wr.index \in Lars
           /\ wr.write_type \in {"OnlyData", "Ld", "St"}
           /\ wr.write_type = "OnlyData" => wr.data \in Data
<1>1. wr \in WriteReq \/ wr \in LdStReq
  BY DEF SysTypes, WbRequest, NoReq
<1>2. wr \in InWr
  BY WbRequestIsInWr DEF SysTypes
<1>3. QED
  BY <1>1, <1>2, InWrFields, RequestTypes DEF SysTypes

\* An idle LAR file takes what write-back asks for: the result shows at the next edge.
LEMMA IdleShows ==
    ASSUME SysInv, SysInv', wr_state = "WrStIdle", NEW in_mem_read, NEW in_mem_write,
           LarEdge(in_mem_read, in_mem_write)
    PROVE  /\ WindowsStay
           /\ \A a \in BaseAddr : Line(a)' = AfterRequest(a)
<1>1. LarInv /\ SysTypes /\ Edge(WbInput, in_mem_read, in_mem_write)
      /\ MemoryAnswers(in_mem_read, in_mem_write) /\ Clock(wr, in_mem_read, in_mem_write)
  BY DEF SysInv, LarEdge, Edge
<1>2. IdleFsm(wr)
  BY <1>1, FsmMoves
<1>3. /\ WindowsStay
      /\ ~TakesResult(wr.index) => LinesStay
      /\ TakesResult(wr.index) => LineBecomes(Window(wr.index), wr.data)
  BY <1>1, <1>2, IdleEdge
<1>4. TakesResult(wr.index) <=>
         wr.req /\ wr.write_type = "OnlyData" /\ Window(wr.index) # NoAddr
  <2>1. wr.req => wr.index \in Lars
    BY <1>1, WrFields
  <2>2. tag[dzero] = UnallocatedTag /\ Window(dzero) = NoAddr
    BY <1>1, WindowTypes
  <2>3. CASE IdleNoWrite(wr)
    <3>1. wr.req => Window(wr.index) = NoAddr
      BY <2>2, <2>3 DEF IdleNoWrite
    <3>2. ~IdleWriteData(wr)
      BY <2>3 DEF IdleNoWrite, IdleWriteData
    <3>3. QED
      BY <3>1, <3>2 DEF TakesResult
  <2>4. CASE IdleWriteData(wr)
    <3>1. wr.req /\ wr.write_type = "OnlyData"
      BY <1>1, <2>4, WrFields DEF IdleWriteData
    <3>2. QED
      BY <1>1, <2>1, <2>4, <3>1, WindowTypes DEF TakesResult
  <2>5. CASE IdleStartLdSt(wr)
    BY <2>5 DEF IdleStartLdSt, StartsLdSt, TakesResult, IdleWriteData
  <2>6. QED
    BY <1>2, <2>3, <2>4, <2>5 DEF IdleFsm
<1>5. QED
  BY <1>3, <1>4, NoAddrAssumption DEF LinesStay, LineBecomes, AfterRequest

\* An edge of the settled pipeline: write-back asks for what the execute stage has
\* handed it, the LAR file accepts what was asked for before, and the block RAM takes
\* what was accepted before that.
LEMMA SettledEdge ==
    ASSUME SysInv, SysInv', DataTypes, LdStHasTheBack, Settled,
           NEW in_mem_read, NEW in_mem_write, LarEdge(in_mem_read, in_mem_write)
    PROVE  /\ UNCHANGED <<tag, base_addr, ref_count>> /\ WindowsStay
           /\ wb_state' = "StRegular" /\ wr_state' = "WrStIdle"
           /\ wr' = [req |-> TRUE, write_type |-> "OnlyData",
                     index |-> IF to_wb.kind = "alu" THEN Ra(to_wb) ELSE dzero,
                     data |-> IF to_wb.kind = "alu" THEN computed.data ELSE Zero]
           /\ data_wr' = ResultWrite
           /\ \A t \in Tags : data'[t] = CurrentData(t)
           /\ \A a \in BaseAddr : AfterRequest(a)' = AfterResult(a)
<1>1. /\ LarInv /\ SysTypes /\ WriteBackWaits /\ Edge(WbInput, in_mem_read, in_mem_write)
      /\ Wb!Clock(WbInput, out_wr_valid) /\ Clock(wr, in_mem_read, in_mem_write)
  BY DEF SysInv, LarEdge, Edge
<1>2. /\ wb_state = "StRegular" /\ to_wb.kind # "ldst" /\ wr_state = "WrStIdle"
      /\ to_wb.kind = "alu" => Ra(to_wb) \in Lars
  BY SettledFacts, SlotFields DEF IsReal, DataTypes
<1>3. IdleFsm(wr) /\ ShareddataData
  BY <1>1, <1>2, FsmMoves DEF Clock
<1>4. UNCHANGED <<tag, base_addr, ref_count>>
  BY <1>3 DEF IdleFsm, IdleNoWrite, IdleWriteData, IdleStartLdSt, InIdle
<1>5. data_wr' = ResultWrite /\ wr_state' = "WrStIdle"
  BY <1>1, <1>2, IdleResult
<1>6. PICK n : n = [req |-> TRUE, write_type |-> "OnlyData",
                    index |-> IF to_wb.kind = "alu" THEN Ra(to_wb) ELSE dzero,
                    data |-> IF to_wb.kind = "alu" THEN computed.data ELSE Zero]
  OBVIOUS
<1>7. wb_state' = "StRegular" /\ wr' = n
  BY <1>1, <1>2, <1>6, WbEdge
<1>8. \A t \in Tags : data'[t] = CurrentData(t)
  BY <1>1, <1>3, CurrentDataStep
<1>9. WindowsStay /\ \A a \in BaseAddr : Line(a)' = AfterRequest(a)
  BY <1>2, IdleShows
<1>10. ASSUME NEW a \in BaseAddr PROVE AfterRequest(a)' = AfterResult(a)
  <2>1. /\ n.req /\ n.write_type = "OnlyData" /\ n.index \in Lars
        /\ n.index = IF to_wb.kind = "alu" THEN Ra(to_wb) ELSE dzero
        /\ to_wb.kind = "alu" => n.data = computed.data
    BY <1>1, <1>2, <1>6, WindowTypes
  <2>2. Window(wr.index)' = Window(n.index)
    BY <1>4, <1>7 DEF Window
  <2>3. AfterRequest(a)' = IF Window(n.index) = a THEN n.data ELSE Line(a)'
    BY <1>7, <2>1, <2>2 DEF AfterRequest
  <2>4. Window(dzero) = NoAddr /\ NoAddr # a
    BY <1>1, WindowTypes, NoAddrAssumption
  <2>5. QED
    BY <1>9, <2>1, <2>3, <2>4 DEF AfterResult
<1>11. QED
  BY <1>4, <1>5, <1>6, <1>7, <1>8, <1>9, <1>10

\* The operation that the execute stage has: in the cycle it comes, or while it stalls.
LEMMA UseTypes ==
    ASSUME DataTypes, LdStHasTheBack
    PROVE  /\ ToUse \in Slot
           /\ ToUse = IF ex_state = "StRegular" THEN to_ex ELSE captured_instr
           /\ ToUse.kind = "alu" \/ ToUse.kind = "ldst" \/ ToUse = Ex!Bubble
           /\ ToUse.kind = "ldst" => ex_state = "StRegular" /\ ToUse = to_ex /\ Settled
           /\ ex_state # "StRegular" => Settled
           /\ ~Settled => ToUse = Ex!Bubble
           /\ Ex!Bubble.kind = "bubble"
<1>1. ToUse = IF ex_state = "StRegular" THEN to_ex ELSE captured_instr
  BY DEF ToUse, Ex!InstrToUse
<1>2. ToUse \in Slot
  BY <1>1 DEF DataTypes
<1>3. Ex!Bubble.kind = "bubble"
  BY DEF Ex!Bubble
<1>4. ~Settled => ex_state = "StRegular" /\ to_ex = Ex!Bubble
  BY DEF LdStHasTheBack, Settled
<1>5. ex_state # "StRegular" => captured_instr.kind = "alu"
  BY DEF LdStHasTheBack
<1>6. QED
  BY <1>1, <1>2, <1>3, <1>4, <1>5, SlotFields

LEMMA OutcomeTypes ==
    ASSUME DataTypes, LdStHasTheBack, NEW stall \in BOOLEAN, NEW outcome \in Outcomes(stall)
    PROVE  /\ outcome \in [data : Data, base_addr : BaseAddr]
           /\ outcome.data \in Data /\ outcome.base_addr \in BaseAddr
<1>1. \A l : MayPointAt(l) \subseteq BaseAddr
  BY ResetAssumption DEF MayPointAt
<1>2. NothingComputed \in [data : Data, base_addr : BaseAddr]
  BY ResetAssumption DEF NothingComputed
<1>3. outcome \in [data : Data, base_addr : BaseAddr]
  BY <1>1, <1>2, ResetAssumption DEF Outcomes
<1>4. QED
  BY <1>3

-----------------------------------------------------------------------------
(* The forwarder *)

Forwards(p) == Operands!operand_forwarding_check(p)

\* It never changes whose data it is, and gives the newest result there is.
LEMMA Forwarded ==
    ASSUME NEW p \in Ports, rd \in [Ports -> ReadData]
    PROVE  /\ Forwards(p) \subseteq 0 .. 3
           /\ Operands!CurrTrueData(p).tag = rd[p].tag
           /\ Operands!CurrTrueData(p).base_addr = rd[p].base_addr
           /\ Forwards(p) = {} => Operands!CurrTrueData(p).data = rd[p].data
           /\ \A k \in Forwards(p) :
                 (\A n \in Forwards(p) : k <= n) =>
                     Operands!CurrTrueData(p).data = past_results[k].computed_data
<1>1. /\ Forwards(p) \subseteq 0 .. 3
      /\ \A k \in Forwards(p) : past_results[k].base_addr = rd[p].base_addr
  BY DEF Forwards, Operands!operand_forwarding_check
<1>2. rd[p] \in ReadData
  OBVIOUS
<1>3. CASE Forwards(p) = {}
  <2>1. Operands!CurrTrueData(p) = rd[p]
    BY <1>3 DEF Operands!CurrTrueData, Forwards
  <2>2. QED
    BY <1>1, <1>3, <2>1
<1>4. ASSUME NEW k \in Forwards(p), \A n \in Forwards(p) : k <= n
      PROVE  /\ Operands!CurrTrueData(p).tag = rd[p].tag
             /\ Operands!CurrTrueData(p).base_addr = rd[p].base_addr
             /\ Operands!CurrTrueData(p).data = past_results[k].computed_data
  <2>1. \A m \in Forwards(p) : (\A n \in Forwards(p) : m <= n) => m = k
    BY <1>1, <1>4
  <2>2. (CHOOSE m \in Forwards(p) : \A n \in Forwards(p) : m <= n) = k
    BY <1>4, <2>1
  <2>3. Operands!CurrTrueData(p) = [rd[p] EXCEPT !.data = past_results[k].computed_data,
                                                 !.base_addr = past_results[k].base_addr]
    BY <2>2 DEF Operands!CurrTrueData, Forwards
  <2>4. QED
    BY <1>1, <1>2, <2>3 DEF ReadData
<1>5. Forwards(p) # {} => \E k \in Forwards(p) : \A n \in Forwards(p) : k <= n
  BY <1>1
<1>6. QED
  BY <1>1, <1>3, <1>4, <1>5

\* Where the result of the operation in the execute stage goes.
LEMMA DestinationIs ==
    ASSUME DataTypes, PortsAreRecent, ToUse.kind = "alu", NEW first,
           first = (ex_state = "StRegular"), to_ex.kind = "alu" \/ ex_state # "StRegular"
    PROVE  LET t == tag[Ra(ToUse)] IN
           Operands!TrueRa(first).tag = t /\ Operands!TrueRa(first).base_addr = base_addr[t]
<1>1. CASE ex_state = "StRegular"
  <2>1. ToUse = to_ex /\ IsReal(to_ex) /\ "a" \in Ports
    BY <1>1, PortsAssumption DEF ToUse, Ex!InstrToUse, IsReal
  <2>2. /\ Reader("a") = Ra(ToUse)
        /\ rd["a"].tag = tag[Ra(ToUse)] /\ rd["a"].base_addr = base_addr[tag[Ra(ToUse)]]
    BY <1>1, <2>1 DEF PortsAreRecent, Reads, Reader, Ra
  <2>3. QED
    BY <1>1, <2>1, <2>2, Forwarded DEF Operands!TrueRa, DataTypes
<1>2. CASE ex_state # "StRegular"
  <2>1. ToUse = captured_instr
    BY <1>2 DEF ToUse, Ex!InstrToUse
  <2>2. ~first /\ Operands!TrueRa(first) = captured_true_ra
    BY <1>2 DEF Operands!TrueRa
  <2>3. captured_true_ra = [tag |-> tag[Ra(captured_instr)],
                            base_addr |-> base_addr[tag[Ra(captured_instr)]]]
    BY <1>2 DEF PortsAreRecent
  <2>4. QED
    BY <2>1, <2>2, <2>3
<1>3. QED
  BY <1>1, <1>2

CurrResult(stall, outcome) ==
    LET first == ex_state = "StRegular" IN
    Operands!CurrResults(first, ToUse.kind = "alu",
                         IF ToUse.kind = "alu" THEN Ra(ToUse) ELSE dzero, stall, outcome.data)

\* A result is noted for the address that its LAR looks at, if it has any.
LEMMA CurrResultIs ==
    ASSUME SysInv, DataTypes, LdStHasTheBack, PortsAreRecent, NEW stall \in BOOLEAN, NEW outcome
    PROVE  CurrResult(stall, outcome) =
               IF ToUse.kind = "alu" /\ ~stall THEN ResultFor(Window(Ra(ToUse)), outcome.data)
               ELSE Operands!NoResult
<1>1. CASE ToUse.kind # "alu"
  BY <1>1 DEF CurrResult, Operands!CurrResults
<1>2. CASE ToUse.kind = "alu"
  <2>1. Ra(ToUse) \in Lars
    BY <1>2, UseTypes, SlotFields DEF IsReal
  <2>2. PICK first : first = (ex_state = "StRegular")
    OBVIOUS
  <2>3. to_ex.kind = "alu" \/ ex_state # "StRegular"
    BY <1>2, UseTypes
  <2>4. /\ Operands!TrueRa(first).tag = tag[Ra(ToUse)]
        /\ Operands!TrueRa(first).base_addr = base_addr[tag[Ra(ToUse)]]
    BY <1>2, <2>2, <2>3, DestinationIs
  <2>5. LarInv
    BY DEF SysInv
  <2>6. /\ Window(Ra(ToUse)) = NoAddr <=> tag[Ra(ToUse)] = 0
        /\ Window(Ra(ToUse)) # NoAddr => Window(Ra(ToUse)) = base_addr[tag[Ra(ToUse)]]
        /\ tag[0] = 0
    BY <2>1, <2>5, WindowTypes DEF UnallocatedTag, dzero
  <2>7. CurrResult(stall, outcome) =
            IF tag[Ra(ToUse)] # 0 /\ Ra(ToUse) # 0 /\ ~stall
            THEN Operands!Result(base_addr[tag[Ra(ToUse)]], outcome.data) ELSE Operands!NoResult
    BY <1>2, <2>2, <2>4 DEF CurrResult, Operands!CurrResults
  <2>8. QED
    BY <1>2, <2>6, <2>7 DEF ResultFor
<1>3. QED
  BY <1>1, <1>2

-----------------------------------------------------------------------------
(* Types, and who is where *)

\* What the sequential machine does with the operation that leaves the execute stage.
LEMMA SeqMoves ==
    ASSUME NEW stall \in BOOLEAN, NEW outcome, SeqStep(stall, outcome),
           stall => ToUse.kind = "alu"
    PROVE  LET l == Ra(ToUse) IN
           \/ /\ ToUse.kind = "alu" /\ ~stall /\ seq_window[l] # NoAddr
              /\ seq_memory' = [seq_memory EXCEPT ![seq_window[l]] = outcome.data]
              /\ seq_window' = seq_window
           \/ /\ ToUse.kind = "ldst" /\ ~stall /\ l # dzero
              /\ seq_window' = [seq_window EXCEPT ![l] = outcome.base_addr]
              /\ seq_memory' = IF ToUse.instr.group = 2 THEN seq_memory
                               ELSE [seq_memory EXCEPT ![outcome.base_addr] =
                                        IF seq_window[l] = NoAddr THEN Unknown
                                        ELSE seq_memory[seq_window[l]]]
           \/ /\ UNCHANGED <<seq_memory, seq_window>>
              /\ \/ stall \/ ToUse.kind \notin {"alu", "ldst"}
                 \/ ToUse.kind = "alu" /\ seq_window[l] = NoAddr
                 \/ ToUse.kind = "ldst" /\ l = dzero
<1>1. CASE ~stall /\ ToUse.kind = "alu" /\ seq_window[Ra(ToUse)] # NoAddr
  BY <1>1 DEF SeqStep, Sequential!Write
<1>2. CASE ~stall /\ ToUse.kind = "ldst" /\ Ra(ToUse) # dzero
  <2>1. CASE ToUse.instr.group = 2
    BY <1>2, <2>1 DEF SeqStep, Sequential!Ld
  <2>2. CASE ToUse.instr.group # 2
    BY <1>2, <2>2 DEF SeqStep, Sequential!St, Sequential!Values
  <2>3. QED
    BY <2>1, <2>2
<1>3. CASE /\ ~(~stall /\ ToUse.kind = "alu" /\ seq_window[Ra(ToUse)] # NoAddr)
           /\ ~(~stall /\ ToUse.kind = "ldst" /\ Ra(ToUse) # dzero)
  <2>1. UNCHANGED <<seq_memory, seq_window>>
    BY <1>3 DEF SeqStep
  <2>2. QED
    BY <1>3, <2>1
<1>4. QED
  BY <1>1, <1>2, <1>3

LEMMA PastResultsMove ==
    ASSUME NEW stall \in BOOLEAN, NEW outcome, OperandsMove(stall, outcome),
           past_results \in [0 .. 3 -> ResultSlot]
    PROVE  /\ past_results' = [k \in 0 .. 3 |-> IF k = 0 THEN CurrResult(stall, outcome)
                                                ELSE past_results[k - 1]]
           /\ past_results'[0] = CurrResult(stall, outcome)
           /\ past_results'[1] = past_results[0]
           /\ past_results'[2] = past_results[1]
           /\ past_results'[3] = past_results[2]
<1>1. past_results' = [k \in 0 .. 3 |-> IF k = 0 THEN CurrResult(stall, outcome)
                                        ELSE past_results[k - 1]]
  BY DEF OperandsMove, CurrResult, Operands!Clock
<1>2. QED
  BY <1>1

\* An instruction that the front takes is one that it was offered.
LEMMA FrontTypes ==
    ASSUME DataTypes, NEW offer \in Offered, NEW stall \in BOOLEAN, FrontMoves(offer, stall)
    PROVE  /\ to_ex' \in Slot
           /\ ifid_state' \in {"StInit", "StRegular", "StWaitForLdStPart0", "StWaitForLdStPart1"}
           /\ ReadIndexes(offer) \in Indexes
           /\ IsReal(to_ex') /\ ~stall =>
                 /\ ifid_state = "StRegular" /\ offer \in Fetched
                 /\ to_ex'.instr = offer /\ to_ex'.kind = offer.kind
                 /\ ReadIndexes(offer) = offer.index
<1>1. IfId!Bubble = Ex!Bubble /\ Ex!Bubble.kind = "bubble" /\ Ex!Bubble \in Slot
  BY DEF IfId!Bubble, Ex!Bubble, Slot
<1>2. \A i \in Fetched : i.index \in Indexes /\ i.kind \in {"alu", "ldst"} /\ i # Ex!Bubble
  BY <1>1 DEF Fetched
<1>3. Nowhere \in Indexes
  <2>1. dzero \in Lars
    BY NumLarsAssumption DEF dzero, Lars
  <2>2. QED
    BY <2>1 DEF Nowhere, Indexes
<1>4. ReadIndexes(offer) \in Indexes
  BY <1>1, <1>2, <1>3 DEF ReadIndexes, Offered
<1>5. to_ex \in Slot
      /\ ifid_state \in {"StInit", "StRegular", "StWaitForLdStPart0", "StWaitForLdStPart1"}
  BY DEF DataTypes
<1>6. ~IsReal(Ex!Bubble)
  BY <1>1 DEF IsReal
<1>7. CASE ifid_state = "StRegular" /\ ~stall /\ offer \in Fetched
  <2>1. /\ to_ex' = [instr |-> offer, kind |-> offer.kind, pc_val |-> 0]
        /\ ifid_state' \in {"StWaitForLdStPart0", "StRegular"}
    BY <1>1, <1>2, <1>7 DEF FrontMoves
  <2>2. to_ex' \in Slot
    BY <1>7, <2>1 DEF Slot
  <2>3. ReadIndexes(offer) = offer.index
    BY <1>1, <1>2, <1>7 DEF ReadIndexes
  <2>4. QED
    BY <1>4, <1>7, <2>1, <2>2, <2>3
<1>8. CASE ~(ifid_state = "StRegular" /\ ~stall /\ offer \in Fetched)
  <2>1. to_ex' = Ex!Bubble \/ (to_ex' = to_ex /\ stall)
    BY <1>5, <1>8 DEF FrontMoves
  <2>2. ifid_state' \in {"StInit", "StRegular", "StWaitForLdStPart0", "StWaitForLdStPart1"}
    BY <1>5, <1>8 DEF FrontMoves
  <2>3. QED
    BY <1>1, <1>4, <1>5, <1>6, <2>1, <2>2
<1>9. QED
  BY <1>7, <1>8

LEMMA TypesKept ==
    ASSUME SysInv, SysInv', DataTypes, LdStHasTheBack, PortsAreRecent,
           NEW offer \in Offered, NEW stall \in BOOLEAN, NEW outcome \in Outcomes(stall),
           DataMoves(offer, stall, outcome)
    PROVE  DataTypes'
<1>1. /\ FrontMoves(offer, stall) /\ ExMoves(stall) /\ OperandsMove(stall, outcome)
      /\ GenRd(ReadIndexes(offer)) /\ SeqStep(stall, outcome) /\ computed' = outcome
      /\ LarInv /\ ToUse \in Slot /\ Ex!Bubble \in Slot
  BY UseTypes DEF DataMoves, SysInv, Slot
<1>2. rd' \in [Ports -> ReadData]
  <2>1. ReadIndexes(offer) \in [Ports -> Lars]
    BY <1>1, FrontTypes DEF Indexes
  <2>2. \A l \in Lars : Selected(l) \in ReadData
    BY <1>1 DEF LarInv, TypeOK, Selected, ReadData
  <2>3. QED
    BY <1>1, <2>1, <2>2 DEF GenRd
<1>3. to_ex' \in Slot
      /\ ifid_state' \in {"StInit", "StRegular", "StWaitForLdStPart0", "StWaitForLdStPart1"}
  BY <1>1, FrontTypes
<1>4. /\ ex_state' \in {"StRegular", "StWaitForMultiCycleOp"}
      /\ captured_instr' \in Slot /\ to_wb' \in Slot
  BY <1>1 DEF ExMoves
<1>5. outcome.data \in Data /\ outcome.base_addr \in BaseAddr
      /\ computed' \in [data : Data, base_addr : BaseAddr]
  BY <1>1, OutcomeTypes
<1>6. ToUse.kind \in {"alu", "ldst"} => Ra(ToUse) \in Lars
  BY <1>1, SlotFields DEF IsReal
<1>7. past_results' \in [0 .. 3 -> ResultSlot]
  <2>1. CurrResult(stall, outcome) \in ResultSlot
    <3>1. ToUse.kind = "alu" => Window(Ra(ToUse)) \in BaseAddr \cup {NoAddr}
      BY <1>1, <1>6, WindowTypes
    <3>2. \A a \in BaseAddr \cup {NoAddr}, d \in Data : ResultFor(a, d) \in ResultSlot
      BY DEF ResultFor, ResultSlot, Operands!Result
    <3>3. Operands!NoResult \in ResultSlot
      BY DEF ResultSlot
    <3>4. QED
      BY <1>5, <3>1, <3>2, <3>3, CurrResultIs
  <2>2. past_results \in [0 .. 3 -> ResultSlot]
    BY DEF DataTypes
  <2>3. QED
    BY <1>1, <2>1, <2>2, PastResultsMove
<1>8. /\ seq_memory' \in [BaseAddr -> Data \cup {Unknown}]
      /\ seq_window' \in [Lars -> BaseAddr \cup {NoAddr}]
  <2>1. /\ seq_memory \in [BaseAddr -> Data \cup {Unknown}]
        /\ seq_window \in [Lars -> BaseAddr \cup {NoAddr}]
    BY DEF DataTypes
  <2>2. stall => ToUse.kind = "alu"
    BY <1>1 DEF ExMoves
  <2>3. QED
    BY <1>1, <1>5, <1>6, <2>1, <2>2, SeqMoves
<1>9. QED
  BY <1>2, <1>3, <1>4, <1>5, <1>7, <1>8 DEF DataTypes

\* The front waits behind a load or store as long as write-back has it.
LEMMA BackEdge ==
    ASSUME SysInv, DataTypes, LdStHasTheBack, ~Settled, NEW in_mem_read, NEW in_mem_write,
           LarEdge(in_mem_read, in_mem_write)
    PROVE  /\ Wb!Stall(WbInput, out_wr_valid) \in BOOLEAN
           /\ Wb!Stall(WbInput, out_wr_valid) => wb_state' # "StRegular"
           /\ ~Wb!Stall(WbInput, out_wr_valid) =>
                  wb_state = "StWaitForLarFileValid" /\ out_wr_valid /\ wb_state' = "StRegular"
<1>1. SysTypes /\ Wb!Clock(WbInput, out_wr_valid) /\ out_wr_valid \in BOOLEAN
  BY DEF SysInv, LarEdge, Edge, LarInv, TypeOK
<1>2. CASE wb_state = "StRegular"
  <2>1. to_wb.kind = "ldst" /\ WbInput.group \in {2, 3}
    BY <1>2, WbInputTypes DEF LdStHasTheBack, Settled
  <2>2. QED
    BY <1>1, <1>2, <2>1, WbEdge DEF Wb!Stall
<1>3. CASE wb_state = "StPrepLdSt"
  BY <1>1, <1>3, WbEdge DEF Wb!Stall
<1>4. CASE wb_state = "StWaitForLarFileValid"
  BY <1>1, <1>4, WbEdge DEF Wb!Stall
<1>5. QED
  BY <1>1, <1>2, <1>3, <1>4 DEF SysTypes

LEMMA BackKept ==
    ASSUME SysInv, SysInv', DataTypes, LdStHasTheBack,
           NEW offer \in Offered, NEW stall \in BOOLEAN, NEW outcome,
           NEW in_mem_read, NEW in_mem_write,
           DataMoves(offer, stall, outcome), LarEdge(in_mem_read, in_mem_write)
    PROVE  LdStHasTheBack'
<1>1. FrontMoves(offer, stall) /\ ExMoves(stall) /\ SysTypes'
  BY DEF DataMoves, SysInv
<1>2. /\ IfId!Bubble = Ex!Bubble /\ Ex!Bubble.kind = "bubble"
      /\ \A i \in Fetched : i.kind \in {"alu", "ldst"} /\ i # Ex!Bubble
      /\ offer \in Fetched \cup {Ex!Bubble}
      /\ ifid_state \in {"StInit", "StRegular", "StWaitForLdStPart0", "StWaitForLdStPart1"}
  BY DEF IfId!Bubble, Ex!Bubble, Fetched, Offered, DataTypes
<1>3. /\ ifid_state' = "StInit" => to_ex' = Ex!Bubble
      /\ ifid_state' = "StWaitForLdStPart0" <=> to_ex'.kind = "ldst"
      /\ ifid_state' = "StWaitForLdStPart1" => to_ex' = Ex!Bubble
  <2>1. ifid_state = "StRegular" => to_ex.kind # "ldst"
    BY DEF LdStHasTheBack
  <2>2. CASE ifid_state = "StRegular" /\ ~stall /\ offer \in Fetched
    BY <1>1, <1>2, <2>2 DEF FrontMoves
  <2>3. CASE ifid_state = "StRegular" /\ ~(~stall /\ offer \in Fetched)
    BY <1>1, <1>2, <2>1, <2>3 DEF FrontMoves
  <2>4. CASE ifid_state # "StRegular"
    BY <1>1, <1>2, <2>4 DEF FrontMoves
  <2>5. QED
    BY <2>2, <2>3, <2>4
<1>4. ex_state' # "StRegular" => ifid_state' = "StRegular" /\ captured_instr'.kind = "alu"
  <2> SUFFICES ASSUME ex_state' # "StRegular"
               PROVE  ifid_state' = "StRegular" /\ captured_instr'.kind = "alu"
    OBVIOUS
  <2>1. stall /\ ToUse.kind = "alu" /\ captured_instr' = ToUse
    BY <1>1 DEF ExMoves
  <2>2. ifid_state = "StRegular"
    BY <1>2, <2>1, UseTypes DEF LdStHasTheBack
  <2>3. QED
    BY <1>1, <2>1, <2>2 DEF FrontMoves
<1>5. CASE Settled
  <2>1. wb_state' = "StRegular"
    BY <1>5, SettledEdge
  <2>2. to_wb'.kind = "ldst" <=> ToUse.kind = "ldst"
    BY <1>1, <1>2 DEF ExMoves
  <2>3. ToUse.kind = "ldst" <=> ifid_state = "StWaitForLdStPart0"
    BY UseTypes DEF LdStHasTheBack
  <2>4. ifid_state' = "StWaitForLdStPart1" <=> ifid_state = "StWaitForLdStPart0"
    BY <1>1, <1>2, <1>5 DEF FrontMoves, Settled
  <2>5. QED
    BY <1>3, <1>4, <2>1, <2>2, <2>3, <2>4 DEF LdStHasTheBack
<1>6. CASE ~Settled
  <2>1. to_wb' = Ex!Bubble
    BY <1>1, <1>2, <1>6, UseTypes DEF ExMoves
  <2>2. ifid_state' = "StWaitForLdStPart1" <=> wb_state' # "StRegular"
    <3>1. ifid_state' = IF Wb!Stall(WbInput, out_wr_valid)
                        THEN "StWaitForLdStPart1" ELSE "StRegular"
      BY <1>1, <1>6 DEF FrontMoves, Settled
    <3>2. QED
      BY <1>6, <3>1, BackEdge
  <2>3. QED
    BY <1>2, <1>3, <1>4, <2>1, <2>2 DEF LdStHasTheBack
<1>7. QED
  BY <1>5, <1>6

-----------------------------------------------------------------------------
(* A load or store on its way from the execute stage to the LAR file *)

\* While neither it nor what the LAR file will show changes, it is as before.
LEMMA StillUnderWay ==
    ASSUME SequentialInTheEnd, UNCHANGED <<seq_memory, seq_window>>, WindowsStay,
           to_wb.kind # "alu", to_wb'.kind # "alu",
           \A a \in BaseAddr : AfterRequest(a)' = AfterRequest(a),
           \A l \in Lars : Window(l) \in BaseAddr \cup {NoAddr},
           \A l \in Lars : Moves(l)' <=> Moves(l),
           \A l \in Lars : Moves(l) => LdStUnderWay'.base_addr = LdStUnderWay.base_addr,
           \A a \in BaseAddr : StoresTo(a)' <=> StoresTo(a),
           \A a \in BaseAddr : StoresTo(a) =>
               LdStUnderWay'.index = LdStUnderWay.index /\ LdStUnderWay.index \in Lars
    PROVE  SequentialInTheEnd'
<1>1. \A l \in Lars : seq_window'[l] = IF Moves(l)' THEN LdStUnderWay'.base_addr ELSE Window(l)'
  BY DEF SequentialInTheEnd, WindowsStay
<1>2. ASSUME NEW a \in BaseAddr, seq_memory'[a] # Unknown
      PROVE  SourceOf(a)' # NoAddr /\ seq_memory'[a] = AfterResult(SourceOf(a))'
  <2>1. SourceOf(a) # NoAddr /\ seq_memory[a] = AfterResult(SourceOf(a))
    BY <1>2 DEF SequentialInTheEnd
  <2>2. SourceOf(a)' = SourceOf(a) /\ SourceOf(a) \in BaseAddr
    <3>1. CASE StoresTo(a)
      <4>1. PICK i \in Lars : LdStUnderWay.index = i /\ LdStUnderWay'.index = i
        BY <3>1
      <4>2. Window(LdStUnderWay.index)' = Window(i)
        BY <4>1 DEF WindowsStay, Window
      <4>3. SourceOf(a)' = Window(i) /\ SourceOf(a) = Window(i)
        BY <3>1, <4>1, <4>2 DEF SourceOf
      <4>4. QED
        BY <2>1, <4>3
    <3>2. CASE ~StoresTo(a)
      BY <3>2 DEF SourceOf
    <3>3. QED
      BY <3>1, <3>2
  <2>3. PICK s \in BaseAddr : SourceOf(a) = s /\ SourceOf(a)' = s
    BY <2>2
  <2>4. AfterResult(SourceOf(a)) = AfterRequest(s)
    BY <2>3 DEF AfterResult
  <2>5. AfterResult(SourceOf(a))' = AfterRequest(s)'
    BY <2>3 DEF AfterResult, AfterRequest, Line
  <2>6. QED
    BY <2>1, <2>2, <2>3, <2>4, <2>5, NoAddrAssumption
<1>3. QED
  BY <1>1, <1>2 DEF SequentialInTheEnd

\* From the execute stage through write-back to the LAR file's snapshot.
LEMMA WaitingSequential ==
    ASSUME SysInv, SysInv', DataTypes, LdStHasTheBack, SequentialInTheEnd, ~Settled,
           UNCHANGED <<seq_memory, seq_window>>, to_wb' = Ex!Bubble,
           NEW in_mem_read, NEW in_mem_write, LarEdge(in_mem_read, in_mem_write),
           wr_state # "WrStStartLdSt"
    PROVE  SequentialInTheEnd'
<1>1. /\ LarInv /\ SysTypes /\ WriteBackWaits /\ SysTypes' /\ WriteBackWaits'
      /\ Edge(WbInput, in_mem_read, in_mem_write) /\ MemoryAnswers(in_mem_read, in_mem_write)
      /\ Wb!Clock(WbInput, out_wr_valid) /\ Clock(wr, in_mem_read, in_mem_write)
  BY DEF SysInv, LarEdge, Edge
<1>2. /\ to_wb.kind # "alu" /\ to_wb'.kind # "alu" /\ to_wb'.kind # "ldst"
      /\ \A l \in Lars : Window(l) \in BaseAddr \cup {NoAddr}
      /\ NoReq.req = FALSE
  BY <1>1, WindowTypes DEF LdStHasTheBack, Settled, Ex!Bubble, NoReq
<1>3. wr_state = "WrStIdle" => WindowsStay /\ \A a \in BaseAddr : Line(a)' = AfterRequest(a)
  BY IdleShows
<1>4. CASE wb_state = "StRegular"
  <2>1. to_wb.kind = "ldst" /\ WbInput \in Wb!LdStInstr
    BY <1>4, WbInputTypes DEF LdStHasTheBack, Settled
  <2>2. wb_state' = "StPrepLdSt" /\ captured_decoded_instr' = WbInput /\ wr' = wr
    BY <1>1, <1>4, <2>1, WbEdge
  <2>3. wr_state = "WrStIdle" /\ wr_state' = "WrStIdle"
    BY <1>1, <1>4, <2>2 DEF WriteBackWaits
  <2>4. PICK u \in LdStReq : u = Wb!LdStRequest(WbInput)
    BY <2>1, LdStRequestType
  <2>5. LdStUnderWay = u /\ LdStUnderWay' = u /\ u.index \in Lars
    BY <1>2, <1>4, <2>1, <2>2, <2>3, <2>4 DEF LdStUnderWay, LdStReq
  <2>6. ASSUME NEW a \in BaseAddr PROVE AfterRequest(a)' = AfterRequest(a)
    <3>1. wr.req => Window(wr.index)' = Window(wr.index)
      <4>1. ASSUME wr.req PROVE Window(wr.index)' = Window(wr.index)
        <5>1. PICK i \in Lars : wr.index = i /\ wr'.index = i
          BY <1>1, <2>2, <4>1, WrFields
        <5>2. QED
          BY <1>3, <2>3, <5>1 DEF WindowsStay, Window
      <4>2. QED
        BY <4>1
    <3>2. QED
      BY <1>3, <2>2, <2>3, <3>1 DEF AfterRequest
  <2>7. QED
    BY <1>2, <1>3, <2>3, <2>5, <2>6, StillUnderWay DEF Moves, StoresTo
<1>5. CASE wb_state = "StPrepLdSt"
  <2>1. /\ wb_state' = "StWaitForLarFileValid" /\ wr' = Wb!LdStRequest(captured_decoded_instr)
        /\ to_wb.kind # "ldst" /\ captured_decoded_instr \in Wb!LdStInstr
    BY <1>1, <1>5, WbEdge DEF LdStHasTheBack, SysTypes, Ex!Bubble
  <2>2. wr_state = "WrStIdle"
    BY <1>1, <1>5 DEF WriteBackWaits
  <2>3. PICK u \in LdStReq : u = Wb!LdStRequest(captured_decoded_instr)
    BY <2>1, LdStRequestType
  <2>4. wr' = u /\ u.req /\ u.write_type # "OnlyData" /\ u.index \in Lars
    BY <2>1, <2>3 DEF LdStReq
  <2>5. LdStUnderWay = u /\ LdStUnderWay' = u
    <3>1. wr_state' = "WrStIdle"
      BY <1>1, <2>4 DEF WriteBackWaits
    <3>2. QED
      BY <1>2, <1>5, <2>1, <2>2, <2>3, <2>4, <3>1 DEF LdStUnderWay
  <2>6. \A a \in BaseAddr : AfterRequest(a)' = AfterRequest(a)
    BY <1>3, <2>2, <2>4 DEF AfterRequest
  <2>7. QED
    BY <1>2, <1>3, <2>2, <2>4, <2>5, <2>6, StillUnderWay DEF Moves, StoresTo
<1>6. CASE wb_state = "StWaitForLarFileValid"
  <2>1. /\ wb_state' = IF out_wr_valid THEN "StRegular" ELSE "StWaitForLarFileValid"
        /\ wr' = NoReq /\ to_wb.kind # "ldst" /\ ~wr'.req
    BY <1>1, <1>2, <1>6, WbEdge DEF LdStHasTheBack, Ex!Bubble
  <2>2. \A a \in BaseAddr : AfterRequest(a) = Line(a) /\ AfterRequest(a)' = Line(a)'
    <3>1. wr.req => wr.write_type # "OnlyData"
      BY <1>1, <1>6 DEF WriteBackWaits
    <3>2. QED
      BY <2>1, <3>1 DEF AfterRequest
  <2>3. CASE wr.req /\ StartsLdSt(wr)
    <3>1. wr_state = "WrStIdle" /\ IdleStartLdSt(wr)
      BY <1>1, <2>3, FsmMoves DEF WriteBackWaits, IdleFsm, IdleNoWrite, IdleWriteData, StartsLdSt
    <3>2. PICK found \in TagSearch(wr.base_addr) : captured' = Snapshot(wr, found)
      BY <3>1 DEF IdleStartLdSt
    <3>3. /\ wr_state' = "WrStStartLdSt"
          /\ captured'.write_type = wr.write_type /\ captured'.index = wr.index
          /\ captured'.new_addr = wr.base_addr
      BY <3>1, <3>2 DEF IdleStartLdSt, Snapshot
    <3>4. ~out_wr_valid
      BY <1>1, <2>3 DEF WriteBackWaits
    <3>5. LdStUnderWay = wr
      BY <1>6, <2>1, <2>3 DEF LdStUnderWay
    <3>6. LdStUnderWay' = [req |-> TRUE, write_type |-> wr.write_type, index |-> wr.index,
                           base_addr |-> wr.base_addr]
      BY <1>2, <2>1, <3>3, <3>4 DEF LdStUnderWay
    <3>7. wr.index \in Lars /\ wr.req = TRUE
      BY <1>1, <2>3, WrFields, RequestTypes DEF SysTypes
    <3>8. QED
      BY <1>2, <1>3, <2>2, <3>1, <3>5, <3>6, <3>7, StillUnderWay DEF Moves, StoresTo
  <2>4. CASE ~(wr.req /\ StartsLdSt(wr))
    <3>1. wr.req => wr.index = dzero
      BY <1>1, <1>6, <2>4 DEF StartsLdSt, WriteBackWaits
    <3>2. wr_state' # "WrStStartLdSt"
      <4>1. wr_state = "WrStIdle" => wr_state' = "WrStIdle"
        BY <1>1, <2>4, FsmMoves DEF IdleStartLdSt
      <4>2. wr_state # "WrStIdle" => WaitFsm(in_mem_read, in_mem_write)
        BY <1>1, FsmMoves DEF StartLdStFsm, HitOwnElement, HitFromUnallocated,
              HitFreeingOldTag, HitLeavingSharedTag, MissFromUnallocated, MissSoleReference,
              MissLeavingSharedTag, JoinAliased, InMiss, InStartLdSt
      <4>3. QED
        BY <1>1, <4>1, <4>2, WaitKeeps
    <3>3. LdStUnderWay' = NoReq
      BY <1>2, <2>1, <3>2 DEF LdStUnderWay
    <3>4. LdStUnderWay = IF wr.req THEN wr ELSE NoReq
      BY <1>6, <2>1 DEF LdStUnderWay
    <3>5. /\ \A l \in Lars : ~Moves(l)' /\ ~Moves(l)
          /\ \A a \in BaseAddr : ~StoresTo(a)' /\ ~StoresTo(a)
      BY <1>2, <3>1, <3>3, <3>4 DEF Moves, StoresTo
    <3>6. WindowsStay /\ \A a \in BaseAddr : AfterRequest(a)' = AfterRequest(a)
      <4>1. CASE wr_state = "WrStIdle"
        BY <1>3, <2>2, <4>1
      <4>2. CASE wr_state # "WrStIdle"
        <5>1. WaitFsm(in_mem_read, in_mem_write)
          BY <1>1, <4>2, FsmMoves DEF StartLdStFsm, HitOwnElement, HitFromUnallocated,
              HitFreeingOldTag, HitLeavingSharedTag, MissFromUnallocated, MissSoleReference,
              MissLeavingSharedTag, JoinAliased, InMiss, InStartLdSt
        <5>2. QED
          BY <1>1, <2>2, <5>1, WaitEdge DEF LinesStay
      <4>3. QED
        BY <4>1, <4>2
    <3>7. QED
      BY <1>2, <3>5, <3>6, StillUnderWay
  <2>5. QED
    BY <2>3, <2>4
<1>7. QED
  BY <1>1, <1>4, <1>5, <1>6 DEF SysTypes

\* At the edge at which the LAR moves it takes effect: from here on the LAR file shows it.
LEMMA MovingSequential ==
    ASSUME SysInv, SysInv', DataTypes, LdStHasTheBack, SequentialInTheEnd,
           UNCHANGED <<seq_memory, seq_window>>, to_wb' = Ex!Bubble,
           NEW in_mem_read, NEW in_mem_write, LarEdge(in_mem_read, in_mem_write),
           wr_state = "WrStStartLdSt"
    PROVE  SequentialInTheEnd'
<1>1. /\ LarInv /\ SysTypes /\ WriteBackWaits
      /\ Edge(WbInput, in_mem_read, in_mem_write) /\ MemoryAnswers(in_mem_read, in_mem_write)
      /\ Wb!Clock(WbInput, out_wr_valid) /\ Clock(wr, in_mem_read, in_mem_write)
  BY DEF SysInv, LarEdge, Edge
<1>2. PICK i, b : i = captured.index /\ b = captured.new_addr
  OBVIOUS
<1>3. /\ wb_state = "StWaitForLarFileValid" /\ ~wr.req /\ ~out_wr_valid
      /\ wb_state' = "StWaitForLarFileValid" /\ wr' = NoReq /\ NoReq.req = FALSE
      /\ to_wb.kind \notin {"alu", "ldst"} /\ to_wb'.kind \notin {"alu", "ldst"}
  BY <1>1, WbEdge DEF WriteBackWaits, LdStHasTheBack, Ex!Bubble, NoReq
<1>4. LdStUnderWay = [req |-> TRUE, write_type |-> captured.write_type, index |-> i,
                      base_addr |-> b]
  BY <1>2, <1>3 DEF LdStUnderWay
<1>5. StartLdStFsm
  BY <1>1, FsmMoves, WaitKeeps
<1>6. wr_state' # "WrStStartLdSt"
  BY <1>5 DEF StartLdStFsm, HitOwnElement, HitFromUnallocated, HitFreeingOldTag,
              HitLeavingSharedTag, MissFromUnallocated, MissSoleReference, MissLeavingSharedTag,
              finish_ldst, WaitIn
<1>7. LdStUnderWay' = NoReq
  BY <1>3, <1>6 DEF LdStUnderWay
<1>8. /\ \A l \in Lars : ~Moves(l)'
      /\ \A a \in BaseAddr : SourceOf(a)' = a
  BY <1>3, <1>7 DEF Moves, StoresTo, SourceOf
<1>9. \A a \in BaseAddr : AfterResult(a) = Line(a) /\ AfterResult(a)' = Line(a)'
  BY <1>3 DEF AfterResult, AfterRequest
<1>10. LarMoves => IsLd \/ IsSt
  BY <1>1, MoveKinds
<1>11. /\ i \in Lars \ {dzero} /\ b \in BaseAddr
       /\ WindowMoves(i, b)
       /\ Window(i) \in BaseAddr \cup {NoAddr}
       /\ \/ LinesStay /\ (IsSt => Window(i) = b)
          \/ IsSt /\ \E d \in Data : /\ LineBecomes(b, d)
                                     /\ Window(i) \in BaseAddr => d = Line(Window(i))
  <2>1. CASE HitOwnElement
    <3>1. i \in Lars \ {dzero} /\ b \in BaseAddr /\ Window(i) = b /\ LinesStay /\ WindowsStay
      BY <1>1, <1>2, <2>1, HitOwnEdge
    <3>2. QED
      BY <3>1 DEF WindowsStay, WindowMoves
  <2>2. CASE LarMoves /\ IsLd
    <3>1. i \in Lars \ {dzero} /\ b \in BaseAddr /\ WindowMoves(i, b) /\ LinesStay /\ ~IsSt
      BY <1>1, <1>2, <2>2, LoadEdge, MoveKinds
    <3>2. QED
      BY <1>1, <3>1, WindowTypes
  <2>3. CASE LarMoves /\ IsSt
    <3>1. /\ i \in Lars \ {dzero} /\ b \in BaseAddr /\ WindowMoves(i, b)
          /\ Window(i) \in BaseAddr \cup {NoAddr}
      BY <1>1, <1>2, <2>3, StoreEdge
    <3>2. PICK d \in Data : LineBecomes(b, d) /\ (Window(i) \in BaseAddr => d = Line(Window(i)))
      BY <1>1, <1>2, <2>3, StoreEdge
    <3>3. QED
      BY <2>3, <3>1, <3>2
  <2>4. QED
    BY <1>5, <1>10, <2>1, <2>2, <2>3 DEF StartLdStFsm, LarMoves
<1>12. ASSUME NEW l \in Lars
       PROVE  seq_window'[l] = Window(l)'
  BY <1>4, <1>11 DEF SequentialInTheEnd, Moves, WindowMoves
<1>13. ASSUME NEW a \in BaseAddr, seq_memory[a] # Unknown
       PROVE  seq_memory[a] = Line(a)'
  <2>1. SourceOf(a) # NoAddr /\ seq_memory[a] = AfterResult(SourceOf(a))
    BY <1>13 DEF SequentialInTheEnd
  <2>2. StoresTo(a) <=> IsSt /\ a = b
    BY <1>4, <1>11 DEF StoresTo, IsSt
  <2>3. CASE StoresTo(a)
    <3>1. SourceOf(a) = Window(i) /\ Window(i) \in BaseAddr
      BY <1>4, <1>11, <2>1, <2>3 DEF SourceOf
    <3>2. seq_memory[a] = Line(Window(i))
      BY <1>9, <2>1, <3>1
    <3>3. CASE LinesStay /\ (IsSt => Window(i) = b)
      BY <1>11, <2>2, <2>3, <3>1, <3>2, <3>3 DEF LinesStay
    <3>4. CASE \E d \in Data : LineBecomes(b, d) /\ (Window(i) \in BaseAddr => d = Line(Window(i)))
      BY <2>2, <2>3, <3>1, <3>2, <3>4 DEF LineBecomes
    <3>5. QED
      BY <1>11, <3>3, <3>4
  <2>4. CASE ~StoresTo(a)
    <3>1. seq_memory[a] = Line(a)
      BY <1>9, <2>1, <2>4 DEF SourceOf
    <3>2. QED
      BY <1>11, <2>2, <2>4, <3>1 DEF LinesStay, LineBecomes
  <2>5. QED
    BY <2>3, <2>4
<1>14. ASSUME NEW a \in BaseAddr, seq_memory'[a] # Unknown
       PROVE  SourceOf(a)' # NoAddr /\ seq_memory'[a] = AfterResult(SourceOf(a))'
  <2>1. AfterResult(SourceOf(a))' = AfterResult(a)'
    BY <1>8 DEF AfterResult, AfterRequest, Line
  <2>2. QED
    BY <1>8, <1>9, <1>13, <1>14, <2>1, NoAddrAssumption
<1>15. QED
  BY <1>8, <1>12, <1>14 DEF SequentialInTheEnd

-----------------------------------------------------------------------------
(* The sequential machine executes what leaves the execute stage *)

LEMMA SettledSequentialStep ==
    ASSUME SysInv, SysInv', DataTypes, LdStHasTheBack, SequentialInTheEnd, Settled,
           NEW offer \in Offered, NEW stall \in BOOLEAN, NEW outcome \in Outcomes(stall),
           NEW in_mem_read, NEW in_mem_write,
           DataMoves(offer, stall, outcome), LarEdge(in_mem_read, in_mem_write)
    PROVE  SequentialInTheEnd'
<1>1. /\ ExMoves(stall) /\ SeqStep(stall, outcome) /\ computed' = outcome
      /\ LarInv /\ ToUse \in Slot /\ Ex!Bubble.kind = "bubble" /\ NoReq.req = FALSE
      /\ outcome.data \in Data /\ outcome.base_addr \in BaseAddr
  BY UseTypes, OutcomeTypes DEF DataMoves, SysInv, NoReq
<1>2. PICK k : k = Ra(ToUse)
  OBVIOUS
<1>3. ToUse.kind \in {"alu", "ldst"} => k \in Lars
  BY <1>1, <1>2, SlotFields DEF IsReal
<1>4. /\ wb_state' = "StRegular" /\ wr_state' = "WrStIdle"
      /\ UNCHANGED <<tag, base_addr>>
      /\ \A l \in Lars : Window(l)' = Window(l)
      /\ \A a \in BaseAddr : AfterRequest(a)' = AfterResult(a)
  BY SettledEdge DEF WindowsStay
<1>5. /\ \A l \in Lars : seq_window[l] = Window(l) /\ Window(l) \in BaseAddr \cup {NoAddr}
      /\ \A a \in BaseAddr : seq_memory[a] # Unknown => seq_memory[a] = AfterResult(a)
      /\ seq_memory \in [BaseAddr -> Data \cup {Unknown}]
      /\ seq_window \in [Lars -> BaseAddr \cup {NoAddr}]
  BY <1>1, SettledSequential, WindowTypes DEF DataTypes
<1>6. stall => ToUse.kind = "alu"
  BY <1>1 DEF ExMoves
<1>7. CASE ToUse.kind # "ldst"
  <2>1. to_wb'.kind # "ldst"
    BY <1>1, <1>7 DEF ExMoves
  <2>2. LdStUnderWay' = NoReq
    BY <1>4, <2>1 DEF LdStUnderWay
  <2>3. /\ \A l \in Lars : ~Moves(l)'
        /\ \A a \in BaseAddr : SourceOf(a)' = a
    BY <1>1, <2>2 DEF Moves, StoresTo, SourceOf
  <2>4. \A a \in BaseAddr : AfterResult(a)' =
            IF ToUse.kind = "alu" /\ ~stall /\ Window(k) = a THEN outcome.data
            ELSE AfterResult(a)
    <3>1. CASE ToUse.kind = "alu" /\ ~stall
      <4>1. to_wb' = ToUse /\ computed'.data = outcome.data
        BY <1>1, <3>1 DEF ExMoves
      <4>2. Window(Ra(to_wb))' = Window(k)
        BY <1>2, <1>4, <4>1 DEF Window, Ra
      <4>3. QED
        BY <1>4, <3>1, <4>1, <4>2 DEF AfterResult
    <3>2. CASE ~(ToUse.kind = "alu" /\ ~stall)
      <4>1. to_wb'.kind # "alu"
        BY <1>1, <3>2 DEF ExMoves
      <4>2. QED
        BY <1>4, <3>2, <4>1 DEF AfterResult
    <3>3. QED
      BY <3>1, <3>2
  <2>5. /\ seq_window' = seq_window
        /\ \A a \in BaseAddr : seq_memory'[a] # Unknown => seq_memory'[a] = AfterResult(a)'
    BY <1>1, <1>2, <1>3, <1>5, <1>6, <1>7, <2>4, NoAddrAssumption, SeqMoves
  <2>6. ASSUME NEW a \in BaseAddr, seq_memory'[a] # Unknown
        PROVE  SourceOf(a)' # NoAddr /\ seq_memory'[a] = AfterResult(SourceOf(a))'
    <3>1. AfterResult(SourceOf(a))' = AfterResult(a)'
      BY <2>3 DEF AfterResult, AfterRequest, Line
    <3>2. QED
      BY <2>3, <2>5, <2>6, <3>1, NoAddrAssumption
  <2>7. QED
    BY <1>4, <1>5, <2>3, <2>5, <2>6 DEF SequentialInTheEnd
<1>8. CASE ToUse.kind = "ldst"
  <2>1. to_wb' = ToUse /\ ~stall /\ ToUse.instr.group \in {2, 3} /\ k \in Lars
    BY <1>1, <1>3, <1>6, <1>8, SlotFields DEF ExMoves
  <2>2. PICK b, g : b = outcome.base_addr /\ g = ToUse.instr.group
    OBVIOUS
  <2>3. LdStUnderWay' = [req |-> TRUE, write_type |-> IF g = 2 THEN "Ld" ELSE "St", index |-> k,
                         base_addr |-> b, data_offset |-> Offset0, data_type |-> Type0]
    BY <1>1, <1>2, <1>4, <1>8, <2>1, <2>2 DEF LdStUnderWay, Wb!LdStRequest, WbInput, Ra
  <2>4. /\ \A l \in Lars : Moves(l)' <=> l # dzero /\ l = k
        /\ \A a \in BaseAddr : StoresTo(a)' <=> g = 3 /\ k # dzero /\ a = b
        /\ LdStUnderWay'.index = k /\ LdStUnderWay'.base_addr = b
    BY <2>1, <2>2, <2>3 DEF Moves, StoresTo
  <2>5. \A a \in BaseAddr : AfterResult(a)' = AfterResult(a)
    BY <1>4, <1>8, <2>1 DEF AfterResult
  <2>6. Window(LdStUnderWay.index)' = Window(k)
    BY <1>4, <2>4 DEF Window
  <2>7. \A l \in Lars : seq_window'[l] = IF Moves(l)' THEN LdStUnderWay'.base_addr ELSE Window(l)'
    BY <1>1, <1>2, <1>4, <1>5, <1>6, <1>8, <2>1, <2>2, <2>4, SeqMoves
  <2>8. ASSUME NEW a \in BaseAddr, seq_memory'[a] # Unknown
        PROVE  SourceOf(a)' # NoAddr /\ seq_memory'[a] = AfterResult(SourceOf(a))'
    <3>1. PICK s : s = SourceOf(a)'
      OBVIOUS
    <3>2. s = IF g = 3 /\ k # dzero /\ a = b THEN Window(k) ELSE a
      BY <2>4, <2>6, <3>1 DEF SourceOf
    <3>3. s \in BaseAddr /\ seq_memory'[a] = AfterResult(s)
      <4>1. CASE g = 3 /\ k # dzero /\ a = b
        BY <1>1, <1>2, <1>5, <1>6, <1>8, <2>1, <2>2, <2>8, <3>2, <4>1, SeqMoves
      <4>2. CASE ~(g = 3 /\ k # dzero /\ a = b)
        BY <1>1, <1>2, <1>5, <1>6, <1>8, <2>1, <2>2, <2>8, <3>2, <4>2, SeqMoves
      <4>3. QED
        BY <4>1, <4>2
    <3>4. AfterResult(SourceOf(a))' = AfterResult(s)'
      BY <3>1 DEF AfterResult, AfterRequest, Line
    <3>5. QED
      BY <2>5, <3>1, <3>3, <3>4, NoAddrAssumption
  <2>9. QED
    BY <2>7, <2>8 DEF SequentialInTheEnd
<1>9. QED
  BY <1>7, <1>8

-----------------------------------------------------------------------------
(* The results under way *)

LEMMA UnderWayKept ==
    ASSUME SysInv, SysInv', DataTypes, LdStHasTheBack, PastResultsAreUnderWay, PortsAreRecent,
           Settled, NEW offer \in Offered, NEW stall \in BOOLEAN, NEW outcome,
           NEW in_mem_read, NEW in_mem_write,
           DataMoves(offer, stall, outcome), LarEdge(in_mem_read, in_mem_write)
    PROVE  PastResultsAreUnderWay'
<1>1. /\ ExMoves(stall) /\ OperandsMove(stall, outcome) /\ computed' = outcome
      /\ LarInv /\ SysTypes /\ Ex!Bubble.kind = "bubble"
  BY UseTypes DEF DataMoves, SysInv
<1>2. PICK k, i, d : /\ k = Ra(ToUse)
                     /\ i = IF to_wb.kind = "alu" THEN Ra(to_wb) ELSE dzero
                     /\ d = IF to_wb.kind = "alu" THEN computed.data ELSE Zero
  OBVIOUS
<1>3. /\ UNCHANGED <<tag, base_addr, ref_count>>
      /\ wr' = [req |-> TRUE, write_type |-> "OnlyData", index |-> i, data |-> d]
      /\ data_wr' = ResultWrite
      /\ \A t \in Tags : data'[t] = CurrentData(t)
  BY <1>2, SettledEdge
<1>4. /\ past_results'[0] = CurrResult(stall, outcome)
      /\ past_results'[1] = past_results[0]
      /\ past_results'[2] = past_results[1]
      /\ past_results'[3] = past_results[2]
  BY <1>1, PastResultsMove DEF DataTypes
<1>5. /\ past_results[0] = IF to_wb.kind = "alu"
                           THEN ResultFor(Window(Ra(to_wb)), computed.data) ELSE Operands!NoResult
      /\ past_results[1] = IF wr.req THEN ResultFor(Window(wr.index), wr.data)
                           ELSE Operands!NoResult
      /\ past_results[2] = IF data_wr.req
                           THEN Operands!Result(base_addr[data_wr.index], data_wr.data)
                           ELSE Operands!NoResult
      /\ data_wr.req => Allocated(data_wr.index)
  BY DEF PastResultsAreUnderWay, Settled
<1>6. Window(dzero) = NoAddr /\ tag[dzero] = UnallocatedTag /\ Operands!NoResult.valid = FALSE
  BY <1>1, WindowTypes DEF Operands!NoResult
<1>7. past_results'[0] = IF to_wb'.kind = "alu"
                         THEN ResultFor(Window(Ra(to_wb))', computed'.data)
                         ELSE Operands!NoResult
  <2>1. CASE ToUse.kind = "alu" /\ ~stall
    <3>1. to_wb' = ToUse
      BY <1>1, <2>1 DEF ExMoves
    <3>2. Window(Ra(to_wb))' = Window(k)
      BY <1>2, <1>3, <3>1 DEF Window, Ra
    <3>3. QED
      BY <1>1, <1>2, <1>4, <2>1, <3>1, <3>2, CurrResultIs
  <2>2. CASE ~(ToUse.kind = "alu" /\ ~stall)
    <3>1. to_wb'.kind # "alu"
      BY <1>1, <2>2 DEF ExMoves
    <3>2. QED
      BY <1>1, <1>4, <2>2, <3>1, CurrResultIs
  <2>3. QED
    BY <2>1, <2>2
<1>8. past_results'[1] = IF wr'.req THEN ResultFor(Window(wr.index)', wr'.data)
                         ELSE Operands!NoResult
  <2>1. Window(wr.index)' = Window(i) /\ wr'.req /\ wr'.data = d
    BY <1>3 DEF Window
  <2>2. QED
    BY <1>2, <1>4, <1>5, <1>6, <2>1 DEF ResultFor
<1>9. /\ past_results'[2] = IF data_wr'.req
                            THEN Operands!Result(base_addr'[data_wr'.index], data_wr'.data)
                            ELSE Operands!NoResult
      /\ data_wr'.req => Allocated(data_wr.index)'
  <2>1. CASE wr.req /\ wr.index # dzero /\ tag[wr.index] # UnallocatedTag
    <3>1. wr.index \in Lars \ {dzero}
      BY <1>1, <2>1, WrFields
    <3>2. /\ data_wr' = DataWrite(tag[wr.index], wr.data)
          /\ Window(wr.index) = base_addr[tag[wr.index]] /\ Window(wr.index) # NoAddr
      BY <1>1, <1>3, <2>1, <3>1, WindowTypes DEF ResultWrite
    <3>3. ref_count[tag[wr.index]] # 0
      BY <1>1, <2>1, <3>1, RefCountBounds
    <3>4. QED
      BY <1>3, <1>4, <1>5, <2>1, <3>2, <3>3 DEF DataWrite, ResultFor, Allocated
  <2>2. CASE ~(wr.req /\ wr.index # dzero /\ tag[wr.index] # UnallocatedTag)
    <3>1. data_wr' = NoReq /\ ~data_wr'.req
      BY <1>3, <2>2 DEF ResultWrite, NoReq
    <3>2. wr.req => Window(wr.index) = NoAddr
      BY <1>6, <2>2 DEF Window
    <3>3. QED
      BY <1>4, <1>5, <3>1, <3>2 DEF ResultFor
  <2>3. QED
    BY <2>1, <2>2
<1>10. past_results'[3].valid =>
          \E t \in Tags : /\ Allocated(t)'
                          /\ past_results'[3].base_addr = base_addr'[t]
                          /\ past_results'[3].computed_data = data'[t]
  <2> SUFFICES ASSUME past_results'[3].valid
               PROVE  \E t \in Tags : /\ Allocated(t)'
                                      /\ past_results'[3].base_addr = base_addr'[t]
                                      /\ past_results'[3].computed_data = data'[t]
    OBVIOUS
  <2>1. data_wr.req /\ past_results'[3] = Operands!Result(base_addr[data_wr.index], data_wr.data)
    BY <1>4, <1>5, <1>6
  <2>2. PICK t \in Tags : t = data_wr.index
    BY <1>1, <2>1, DataWriteTypes
  <2>3. Allocated(t)' /\ data'[t] = data_wr.data
    BY <1>3, <1>5, <2>1, <2>2 DEF Allocated, CurrentData
  <2>4. QED
    BY <1>3, <2>1, <2>2, <2>3 DEF Operands!Result
<1>11. QED
  BY <1>7, <1>8, <1>9, <1>10 DEF PastResultsAreUnderWay

\* When the front goes on behind a load or store, nothing at all is under way.
LEMMA UnderWayAgain ==
    ASSUME SysInv, SysInv', DataTypes, LdStHasTheBack, PastResultsRunOut, PortsAreRecent,
           ~Settled, NEW offer \in Offered, NEW stall \in BOOLEAN, NEW outcome,
           NEW in_mem_read, NEW in_mem_write,
           DataMoves(offer, stall, outcome), LarEdge(in_mem_read, in_mem_write)
    PROVE  PastResultsAreUnderWay'
<1>1. /\ FrontMoves(offer, stall) /\ ExMoves(stall) /\ OperandsMove(stall, outcome)
      /\ LarInv /\ SysTypes /\ WriteBackWaits /\ Ex!Bubble.kind = "bubble" /\ ToUse = Ex!Bubble
      /\ Wb!Clock(WbInput, out_wr_valid) /\ Clock(wr, in_mem_read, in_mem_write)
      /\ NoReq.req = FALSE /\ Operands!NoResult.valid = FALSE
  BY UseTypes DEF DataMoves, SysInv, LarEdge, Edge, NoReq, Operands!NoResult
<1>2. CASE ifid_state' = "StWaitForLdStPart1"
  BY <1>2 DEF PastResultsAreUnderWay
<1>3. CASE ifid_state' # "StWaitForLdStPart1"
  <2>1. ~Wb!Stall(WbInput, out_wr_valid)
    BY <1>1, <1>3 DEF FrontMoves, Settled
  <2>2. /\ wb_state = "StWaitForLarFileValid" /\ out_wr_valid
        /\ wr_state = "WrStIdle" /\ ~wr.req
    BY <1>1, <2>1, BackEdge DEF WriteBackWaits
  <2>3. \A k \in 0 .. 3 : past_results[k] = Operands!NoResult
    BY <2>2 DEF PastResultsRunOut, Settled
  <2>4. CurrResult(stall, outcome) = Operands!NoResult
    BY <1>1, CurrResultIs
  <2>5. \A k \in 0 .. 3 : past_results'[k] = Operands!NoResult
    BY <1>1, <2>3, <2>4, PastResultsMove DEF DataTypes
  <2>6. to_wb'.kind # "alu"
    BY <1>1 DEF ExMoves
  <2>7. wr' = NoReq
    BY <1>1, <2>2, WbEdge
  <2>8. data_wr' = NoReq
    BY <1>1, <2>2, FsmMoves DEF IdleFsm, IdleNoWrite, IdleWriteData, IdleStartLdSt, StartsLdSt
  <2>9. QED
    BY <1>1, <2>5, <2>6, <2>7, <2>8 DEF PastResultsAreUnderWay
<1>4. QED
  BY <1>2, <1>3

LEMMA RunOutKept ==
    ASSUME SysInv, SysInv', DataTypes, LdStHasTheBack, PastResultsRunOut, PortsAreRecent,
           NEW offer \in Offered, NEW stall \in BOOLEAN, NEW outcome,
           NEW in_mem_read, NEW in_mem_write,
           DataMoves(offer, stall, outcome), LarEdge(in_mem_read, in_mem_write)
    PROVE  PastResultsRunOut'
<1>1. /\ FrontMoves(offer, stall) /\ OperandsMove(stall, outcome)
      /\ LarInv /\ SysTypes /\ WriteBackWaits
      /\ Wb!Clock(WbInput, out_wr_valid) /\ Ex!Bubble.kind = "bubble"
  BY UseTypes DEF DataMoves, SysInv, LarEdge, Edge
<1>2. /\ past_results'[0] = CurrResult(stall, outcome)
      /\ past_results'[1] = past_results[0]
      /\ past_results'[2] = past_results[1]
      /\ past_results'[3] = past_results[2]
  BY <1>1, PastResultsMove DEF DataTypes
<1>3. SUFFICES ASSUME ifid_state' = "StWaitForLdStPart1" PROVE PastResultsRunOut'
  BY DEF PastResultsRunOut
<1>4. CASE Settled
  <2>1. ifid_state = "StWaitForLdStPart0"
    <3>1. IfId!Bubble = Ex!Bubble /\ \A i \in Fetched : i # Ex!Bubble
      BY DEF IfId!Bubble, Ex!Bubble, Fetched
    <3>2. offer \in Fetched \cup {Ex!Bubble}
      BY <3>1 DEF Offered
    <3>3. ifid_state \in {"StInit", "StRegular", "StWaitForLdStPart0", "StWaitForLdStPart1"}
      BY DEF DataTypes
    <3>4. QED
      BY <1>1, <1>3, <1>4, <3>1, <3>2, <3>3 DEF FrontMoves, Settled
  <2>2. ToUse.kind = "ldst"
    <3>1. to_ex.kind = "ldst" /\ ex_state = "StRegular"
      BY <2>1 DEF LdStHasTheBack
    <3>2. QED
      BY <3>1, UseTypes
  <2>3. wb_state' = "StRegular" /\ CurrResult(stall, outcome) = Operands!NoResult
    BY <1>4, <2>2, SettledEdge, CurrResultIs
  <2>4. QED
    BY <1>2, <2>3 DEF PastResultsRunOut
<1>5. CASE ~Settled
  <2>1. CurrResult(stall, outcome) = Operands!NoResult /\ past_results[0] = Operands!NoResult
    BY <1>1, <1>5, UseTypes, CurrResultIs DEF PastResultsRunOut, Settled
  <2>2. wb_state' = "StWaitForLarFileValid" => wb_state # "StRegular"
    BY <1>1, <1>5, WbEdge DEF LdStHasTheBack, Settled
  <2>3. wb_state' = "StWaitForLarFileValid" /\ ~wr'.req => wb_state = "StWaitForLarFileValid"
    <3>1. ASSUME wb_state = "StPrepLdSt" PROVE wr'.req
      <4>1. captured_decoded_instr \in Wb!LdStInstr
        BY <1>1, <3>1 DEF SysTypes
      <4>2. QED
        BY <1>1, <3>1, <4>1, WbEdge DEF Wb!LdStRequest
    <3>2. QED
      BY <1>1, <2>2, <3>1 DEF SysTypes
  <2>4. wb_state # "StRegular" => past_results[1] = Operands!NoResult
    BY <1>5 DEF PastResultsRunOut, Settled
  <2>5. wb_state = "StWaitForLarFileValid" => past_results[2] = Operands!NoResult
    BY <1>5 DEF PastResultsRunOut, Settled
  <2>6. QED
    BY <1>2, <2>1, <2>2, <2>3, <2>4, <2>5 DEF PastResultsRunOut
<1>6. QED
  BY <1>4, <1>5

\* What a port has read is at most one result behind.
LEMMA PortsKept ==
    ASSUME SysInv, SysInv', DataTypes, LdStHasTheBack, PastResultsAreUnderWay, PortsAreRecent,
           NEW offer \in Offered, NEW stall \in BOOLEAN, NEW outcome,
           NEW in_mem_read, NEW in_mem_write,
           DataMoves(offer, stall, outcome), LarEdge(in_mem_read, in_mem_write)
    PROVE  PortsAreRecent'
<1>1. /\ FrontMoves(offer, stall) /\ ExMoves(stall) /\ OperandsMove(stall, outcome)
      /\ GenRd(ReadIndexes(offer)) /\ LarInv
  BY DEF DataMoves, SysInv
<1>2. past_results'[3] = past_results[2]
  BY <1>1, PastResultsMove DEF DataTypes
<1>3. ASSUME NEW p \in Ports, Reads(p)'
      PROVE  LET t == tag'[Reader(p)'] IN
             /\ rd'[p].tag = t /\ rd'[p].base_addr = base_addr'[t]
             /\ \/ rd'[p].data = data'[t]
                \/ past_results'[3].valid /\ past_results'[3].base_addr = base_addr'[t]
  <2>1. ex_state' = "StRegular" /\ IsReal(to_ex') /\ Reader(p)' = to_ex'.instr.index[p]
    BY <1>3 DEF Reads, Reader, IsReal
  <2>2. ~stall
    BY <1>1, <2>1 DEF ExMoves
  <2>3. /\ ifid_state = "StRegular" /\ to_ex'.instr = offer
        /\ ReadIndexes(offer) = offer.index /\ ReadIndexes(offer) \in [Ports -> Lars]
    BY <1>1, <2>1, <2>2, FrontTypes DEF Indexes
  <2>4. PICK l \in Lars : l = offer.index[p] /\ Reader(p)' = l
    BY <2>1, <2>3
  <2>5. PICK t \in Tags : t = tag[l]
    BY <1>1, <2>4 DEF LarInv, TypeOK
  <2>6. rd'[p].tag = t /\ rd'[p].base_addr = base_addr[t] /\ rd'[p].data = data[t]
    BY <1>1, <2>3, <2>4, <2>5 DEF GenRd, Selected
  <2>7. Settled
    BY <2>3 DEF Settled
  <2>8. UNCHANGED <<tag, base_addr>> /\ data'[t] = CurrentData(t)
    BY <2>7, SettledEdge
  <2>9. CASE data_wr.req /\ data_wr.index = t
    <3>1. past_results[2] = Operands!Result(base_addr[t], data_wr.data)
      BY <2>7, <2>9 DEF PastResultsAreUnderWay, Settled
    <3>2. QED
      BY <1>2, <2>4, <2>5, <2>6, <2>8, <3>1 DEF Operands!Result
  <2>10. CASE ~(data_wr.req /\ data_wr.index = t)
    BY <2>4, <2>5, <2>6, <2>8, <2>10 DEF CurrentData
  <2>11. QED
    BY <2>9, <2>10
<1>4. ASSUME ex_state' # "StRegular"
      PROVE  LET t == tag'[Ra(captured_instr')] IN
             captured_true_ra' = [tag |-> t, base_addr |-> base_addr'[t]]
  <2>1. stall /\ ToUse.kind = "alu" /\ captured_instr' = ToUse
    BY <1>1, <1>4 DEF ExMoves
  <2>2. Settled /\ (to_ex.kind = "alu" \/ ex_state # "StRegular")
    BY <2>1, UseTypes
  <2>3. UNCHANGED <<tag, base_addr>>
    BY <2>2, SettledEdge
  <2>4. PICK first : first = (ex_state = "StRegular")
    OBVIOUS
  <2>5. captured_true_ra' = Operands!TrueRa(first)
    BY <1>1, <2>1, <2>4 DEF OperandsMove, Operands!Clock
  <2>6. /\ Operands!TrueRa(first).tag = tag[Ra(ToUse)]
        /\ Operands!TrueRa(first).base_addr = base_addr[tag[Ra(ToUse)]]
    BY <2>1, <2>2, <2>4, DestinationIs
  <2>7. Operands!TrueRa(first) = [tag |-> Operands!TrueRa(first).tag,
                                  base_addr |-> Operands!TrueRa(first).base_addr]
    BY <2>4 DEF Operands!TrueRa, PortsAreRecent
  <2>8. QED
    BY <2>1, <2>3, <2>5, <2>6, <2>7
<1>5. QED
  BY <1>3, <1>4 DEF PortsAreRecent, Ra

-----------------------------------------------------------------------------
(* The invariant *)

LEMMA DataInitHasInv == DataInit => DataInv
<1> SUFFICES ASSUME DataInit PROVE DataInv
  OBVIOUS
<1>1. /\ SysInit /\ Init /\ Wb!Init /\ ReadInit /\ IfId!Init /\ Ex!Init /\ Operands!Init
      /\ computed = NothingComputed /\ seq_memory = main_mem
      /\ seq_window = [l \in Lars |-> NoAddr]
  BY DEF DataInit, SysInit
<1>2. SysInv
  BY <1>1, SysInitHasInv
<1>3. LarInv /\ SysTypes
  BY <1>2 DEF SysInv
<1>4. /\ IfId!Bubble = Ex!Bubble /\ Ex!Bubble.kind = "bubble" /\ Ex!Bubble \in Slot
      /\ NoReq = Wb!NoReq /\ NoReq.req = FALSE /\ Operands!NoResult.valid = FALSE
  BY DEF IfId!Bubble, Ex!Bubble, Slot, NoReq, Wb!NoReq, Operands!NoResult
<1>5. /\ ifid_state \in {"StInit", "StRegular"} /\ to_ex = Ex!Bubble
      /\ ex_state = "StRegular" /\ captured_instr = Ex!Bubble /\ to_wb = Ex!Bubble
      /\ wb_state = "StRegular" /\ wr = NoReq /\ wr_state = "WrStIdle" /\ data_wr = NoReq
  BY <1>1, <1>4 DEF IfId!Init, Ex!Init, Wb!Init, Init
<1>6. \A l \in Lars : Window(l) = NoAddr
  BY <1>1 DEF Init, Window
<1>7. \A a \in BaseAddr : Line(a) = main_mem[a]
  <2>1. ASSUME NEW a \in BaseAddr PROVE Line(a) = main_mem[a]
    <3>1. \A t \in Tags : ~HoldsLine(t, a)
      BY <1>1 DEF Init, HoldsLine, Allocated
    <3>2. MemoryAt(a) = main_mem[a]
      BY <1>1, <1>4 DEF Init, SysInit, MemoryAt
    <3>3. QED
      BY <1>3, <3>1, <3>2, LineIsHeld
  <2>2. QED
    BY <2>1
<1>8. DataTypes
  <2>1. rd \in [Ports -> ReadData]
    BY <1>1, ResetAssumption, NumLarsAssumption
       DEF ReadInit, ReadData, UnallocatedTag, Tags, Lars
  <2>2. computed \in [data : Data, base_addr : BaseAddr]
    BY <1>1, ResetAssumption DEF NothingComputed
  <2>3. past_results \in [0 .. 3 -> ResultSlot]
    BY <1>1 DEF Operands!Init, ResultSlot
  <2>4. /\ seq_memory \in [BaseAddr -> Data \cup {Unknown}]
        /\ seq_window \in [Lars -> BaseAddr \cup {NoAddr}]
    BY <1>1, <1>3 DEF SysTypes
  <2>5. QED
    BY <1>4, <1>5, <2>1, <2>2, <2>3, <2>4 DEF DataTypes
<1>9. LdStHasTheBack
  BY <1>4, <1>5 DEF LdStHasTheBack
<1>10. SequentialInTheEnd
  <2>1. LdStUnderWay = NoReq
    BY <1>4, <1>5 DEF LdStUnderWay
  <2>2. /\ \A l \in Lars : ~Moves(l)
        /\ \A a \in BaseAddr : SourceOf(a) = a
    BY <1>4, <2>1 DEF Moves, StoresTo, SourceOf
  <2>3. \A a \in BaseAddr : AfterResult(a) = main_mem[a]
    BY <1>4, <1>5, <1>7 DEF AfterResult, AfterRequest
  <2>4. QED
    BY <1>1, <1>6, <2>2, <2>3, NoAddrAssumption DEF SequentialInTheEnd
<1>11. PastResultsAreUnderWay /\ PastResultsRunOut
  <2>1. \A k \in 0 .. 3 : past_results[k] = Operands!NoResult
    BY <1>1 DEF Operands!Init
  <2>2. QED
    BY <1>4, <1>5, <2>1 DEF PastResultsAreUnderWay, PastResultsRunOut
<1>12. PortsAreRecent
  BY <1>4, <1>5 DEF PortsAreRecent, Reads, IsReal
<1>13. QED
  BY <1>2, <1>8, <1>9, <1>10, <1>11, <1>12 DEF DataInv

LEMMA DataNextKeepsInv == DataInv /\ DataNext => SysNext /\ DataInv'
<1> SUFFICES ASSUME DataInv, DataNext PROVE SysNext /\ DataInv'
  OBVIOUS
<1>1. /\ SysInv /\ DataTypes /\ LdStHasTheBack /\ SequentialInTheEnd
      /\ PastResultsAreUnderWay /\ PastResultsRunOut /\ PortsAreRecent
  BY DEF DataInv
<1>2. PICK offer \in Offered, stall \in BOOLEAN :
         \E outcome \in Outcomes(stall) : DataMoves(offer, stall, outcome)
  BY <1>1, DataEdgeMoves
<1>3. PICK outcome \in Outcomes(stall) : DataMoves(offer, stall, outcome)
  BY <1>2
<1>4. SysNext /\ SysInv'
  BY <1>1, DataEdgeMoves, DataStepIsSysStep
<1>5. PICK in_mem_read \in InMemRead, in_mem_write \in InMemWrite :
         LarEdge(in_mem_read, in_mem_write)
  BY <1>1, DataEdgeMoves, DataStepIsSysStep
<1>6. DataTypes'
  BY <1>1, <1>3, <1>4, TypesKept
<1>7. LdStHasTheBack' /\ PastResultsRunOut' /\ PortsAreRecent'
  BY <1>1, <1>3, <1>4, <1>5, BackKept, RunOutKept, PortsKept
<1>8. PastResultsAreUnderWay'
  BY <1>1, <1>3, <1>4, <1>5, UnderWayKept, UnderWayAgain
<1>9. SequentialInTheEnd'
  <2>1. CASE Settled
    BY <1>1, <1>3, <1>4, <1>5, <2>1, SettledSequentialStep
  <2>2. CASE ~Settled
    <3>1. ToUse = Ex!Bubble /\ Ex!Bubble.kind = "bubble" /\ ExMoves(stall) /\ SeqStep(stall, outcome)
      BY <1>1, <1>3, <2>2, UseTypes DEF DataMoves
    <3>2. UNCHANGED <<seq_memory, seq_window>> /\ to_wb' = Ex!Bubble
      BY <3>1, SeqMoves DEF ExMoves
    <3>3. QED
      BY <1>1, <1>4, <1>5, <2>2, <3>2, WaitingSequential, MovingSequential
  <2>3. QED
    BY <2>1, <2>2
<1>10. QED
  BY <1>4, <1>6, <1>7, <1>8, <1>9 DEF DataInv

LEMMA DataUnchanged ==
    ASSUME UNCHANGED dataVars
    PROVE  /\ UNCHANGED vars
           /\ UNCHANGED <<rd, ifid_state, to_ex, ex_state, captured_instr, captured_multi, to_wb>>
           /\ UNCHANGED <<computed, past_results, captured_true_ra, seq_memory, seq_window>>
  BY DEF dataVars, Ex!exVars, Operands!exDataVars

\* It names one of the LARs.
LEMMA LdStIndexType ==
    ASSUME SysInv, DataTypes, LdStHasTheBack, LdStUnderWay.req
    PROVE  LdStUnderWay.index \in Lars
<1>1. LarInv /\ SysTypes /\ WriteBackWaits /\ NoReq.req = FALSE
  BY DEF SysInv, NoReq
<1>2. CASE to_wb.kind = "ldst"
  <2>1. wb_state = "StRegular" /\ wr_state = "WrStIdle"
    BY <1>1, <1>2 DEF LdStHasTheBack, WriteBackWaits, Ex!Bubble
  <2>2. LdStUnderWay = Wb!LdStRequest(WbInput)
    BY <1>2, <2>1 DEF LdStUnderWay
  <2>3. QED
    BY <1>2, <2>2, WbInputTypes, LdStRequestType DEF LdStReq
<1>3. CASE to_wb.kind # "ldst" /\ wb_state = "StPrepLdSt"
  <2>1. wr_state = "WrStIdle"
    BY <1>1, <1>3 DEF WriteBackWaits
  <2>2. LdStUnderWay = Wb!LdStRequest(captured_decoded_instr)
    BY <1>3, <2>1 DEF LdStUnderWay
  <2>3. QED
    BY <1>1, <1>3, <2>2, LdStRequestType DEF LdStReq, SysTypes
<1>4. CASE to_wb.kind # "ldst" /\ wb_state # "StPrepLdSt" /\ wr.req
  <2>1. wr_state = "WrStIdle" /\ LdStUnderWay = IF wb_state = "StWaitForLarFileValid" THEN wr ELSE NoReq
    BY <1>1, <1>4 DEF WriteBackWaits, LdStUnderWay
  <2>2. QED
    BY <1>1, <1>4, <2>1, WrFields
<1>5. CASE to_wb.kind # "ldst" /\ wb_state # "StPrepLdSt" /\ ~wr.req
  <2>1. wr_state = "WrStStartLdSt" /\ LdStUnderWay.index = captured.index
    BY <1>1, <1>5 DEF LdStUnderWay
  <2>2. QED
    BY <1>1, <2>1, StartTypes
<1>6. QED
  BY <1>2, <1>3, <1>4, <1>5

LEMMA DataStutterKeepsInv == DataInv /\ UNCHANGED dataVars => DataInv'
<1> SUFFICES ASSUME DataInv, UNCHANGED dataVars PROVE DataInv'
  OBVIOUS
<1>1. /\ SysInv /\ DataTypes /\ LdStHasTheBack /\ SequentialInTheEnd
      /\ PastResultsAreUnderWay /\ PastResultsRunOut /\ PortsAreRecent
  BY DEF DataInv
<1>2. UNCHANGED vars /\ UNCHANGED <<wb_state, captured_decoded_instr, wr>>
      /\ UNCHANGED <<tag, base_addr, ref_count, data, data_wr, wr_state, captured>>
  BY DataUnchanged, SysUnchanged
<1>3. SysInv'
  BY <1>1, <1>2, SysStutterKeepsInv
<1>4. DataTypes' /\ LdStHasTheBack' /\ PastResultsRunOut'
  BY <1>1, <1>2, DataUnchanged DEF DataTypes, LdStHasTheBack, PastResultsRunOut
<1>5. PastResultsAreUnderWay'
  BY <1>1, <1>2, DataUnchanged DEF PastResultsAreUnderWay, Allocated, Window, Ra
<1>6. PortsAreRecent'
  BY <1>1, <1>2, DataUnchanged DEF PortsAreRecent, Reads, Reader, IsReal, Ra
<1>7. \A a \in BaseAddr : Line(a)' = Line(a)
  <2>1. [a \in BaseAddr |-> Line(a)]' = [a \in BaseAddr |-> Line(a)]
    BY <1>2, FlatStutter DEF Flat!flatVars
  <2>2. QED
    BY <2>1
<1>8. LdStUnderWay' = LdStUnderWay
  BY <1>2, DataUnchanged DEF LdStUnderWay, WbInput, Ra
<1>9. \A l \in Lars : Window(l)' = Window(l)
  BY <1>2 DEF Window
<1>10. Window(LdStUnderWay.index)' = Window(LdStUnderWay.index)
  BY <1>2, <1>8 DEF Window
<1>11. /\ \A l \in Lars : Moves(l)' <=> Moves(l)
       /\ \A a \in BaseAddr : SourceOf(a)' = SourceOf(a)
  BY <1>8, <1>10 DEF Moves, StoresTo, SourceOf
<1>12. \A a \in BaseAddr : AfterResult(a)' = AfterResult(a)
  <2>1. Window(Ra(to_wb))' = Window(Ra(to_wb)) /\ Window(wr.index)' = Window(wr.index)
    BY <1>2, DataUnchanged DEF Window, Ra
  <2>2. QED
    BY <1>2, <1>7, <2>1, DataUnchanged DEF AfterResult, AfterRequest
<1>13. ASSUME NEW a \in BaseAddr, seq_memory'[a] # Unknown
       PROVE  SourceOf(a)' # NoAddr /\ seq_memory'[a] = AfterResult(SourceOf(a))'
  <2>1. SourceOf(a) # NoAddr /\ seq_memory[a] = AfterResult(SourceOf(a))
    BY <1>1, <1>13, DataUnchanged DEF SequentialInTheEnd
  <2>2. PICK s : s = SourceOf(a) /\ s = SourceOf(a)'
    BY <1>11
  <2>3. s \in BaseAddr
    <3>1. LarInv /\ SysTypes
      BY <1>1 DEF SysInv
    <3>2. StoresTo(a) => LdStUnderWay.index \in Lars
      BY <1>1, LdStIndexType DEF StoresTo
    <3>3. QED
      BY <2>1, <2>2, <3>1, <3>2, WindowTypes DEF SourceOf
  <2>4. AfterResult(SourceOf(a)) = AfterResult(s)
    BY <2>2
  <2>5. AfterResult(SourceOf(a))' = AfterResult(s)'
    BY <2>2 DEF AfterResult, AfterRequest, Line
  <2>6. QED
    BY <1>12, <2>1, <2>2, <2>3, <2>4, <2>5, DataUnchanged
<1>14. SequentialInTheEnd'
  BY <1>1, <1>8, <1>9, <1>11, <1>13, DataUnchanged DEF SequentialInTheEnd
<1>15. QED
  BY <1>3, <1>4, <1>5, <1>6, <1>14 DEF DataInv

\* What the pipeline has under way always adds up to what the sequential machine has:
\* in every state of it, with any instructions, results, addresses and latencies.
THEOREM PipelineDataInvariant == DataSpec => []DataInv
  BY DataInitHasInv, DataNextKeepsInv, DataStutterKeepsInv, PTL DEF DataSpec

\* The execute stage drives write-back and the LAR file only as LarFileSystem allows,
\* so everything proved there of any sequence of instructions holds in the pipeline.
THEOREM PipelineDrivesLarFileSystem == DataSpec => SysSpec
<1>1. DataInit => SysInit
  BY DEF DataInit
<1>2. DataInv /\ [DataNext]_dataVars => [SysNext]_vars
  BY DataNextKeepsInv, DataUnchanged
<1>3. QED
  BY <1>1, <1>2, PipelineDataInvariant, PTL DEF DataSpec, SysSpec

-----------------------------------------------------------------------------
(* What the forwarder finds is what the LAR will show *)

\* The LAR file shows the data of the element of a LAR, which the block RAM has or
\* is about to take.
LEMMA SettledLine ==
    ASSUME SysInv, DataTypes, LdStHasTheBack, Settled, NEW t \in Tags, Allocated(t)
    PROVE  Line(base_addr[t]) = CurrentData(t)
<1>1. LarInv /\ wr_state = "WrStIdle"
  BY SettledFacts DEF SysInv
<1>2. base_addr[t] \in BaseAddr
  BY <1>1 DEF LarInv, TypeOK
<1>3. HoldsLine(t, base_addr[t])
  BY <1>1 DEF HoldsLine, AwaitingRead, WaitsForRead
<1>4. QED
  BY <1>1, <1>2, <1>3, LineIsHeld

\* At the port of a LAR with a window: either one of the four results is the newest
\* data of its line, or none is for that line and what was read is its data.
LEMMA ForwardedIsCurrent ==
    ASSUME DataInv, NEW p \in Ports, Reads(p), NEW a \in BaseAddr, a = Window(Reader(p)),
           Reader(p) \in Lars, Settled
    PROVE  /\ Operands!CurrTrueData(p).base_addr = a
           /\ Operands!CurrTrueData(p).data = AfterResult(a)
<1>1. /\ SysInv /\ DataTypes /\ LdStHasTheBack /\ PastResultsAreUnderWay /\ PortsAreRecent
      /\ LarInv /\ Operands!NoResult.valid = FALSE /\ rd \in [Ports -> ReadData]
  BY DEF DataInv, SysInv, DataTypes, Operands!NoResult
<1>2. PICK l \in Lars, t \in Tags : l = Reader(p) /\ t = tag[l]
  BY <1>1 DEF LarInv, TypeOK
<1>3. t # UnallocatedTag /\ base_addr[t] = a /\ l # dzero
  BY <1>1, <1>2, WindowTypes, NoAddrAssumption
<1>4. Allocated(t)
  BY <1>1, <1>2, <1>3, RefCountBounds DEF Allocated
<1>5. /\ rd[p].base_addr = a
      /\ \/ rd[p].data = data[t]
         \/ past_results[3].valid /\ past_results[3].base_addr = a
  BY <1>1, <1>2, <1>3 DEF PortsAreRecent
<1>6. Forwards(p) = {k \in 0 .. 3 : past_results[k].valid /\ past_results[k].base_addr = a}
  BY <1>5 DEF Forwards, Operands!operand_forwarding_check
<1>7. /\ 0 \in Forwards(p) <=> to_wb.kind = "alu" /\ Window(Ra(to_wb)) = a
      /\ 0 \in Forwards(p) => past_results[0].computed_data = computed.data
      /\ 1 \in Forwards(p) <=> wr.req /\ Window(wr.index) = a
      /\ 1 \in Forwards(p) => past_results[1].computed_data = wr.data
      /\ 2 \in Forwards(p) <=> data_wr.req /\ base_addr[data_wr.index] = a
      /\ 2 \in Forwards(p) => past_results[2].computed_data = data_wr.data
  BY <1>1, <1>6, NoAddrAssumption
     DEF PastResultsAreUnderWay, Settled, ResultFor, Operands!Result, Operands!NoResult
<1>8. wr.req => wr.write_type = "OnlyData"
  BY <1>1, SettledFacts
<1>9. CurrentData(t) = Line(a)
  BY <1>1, <1>3, <1>4, SettledLine
<1>10. data_wr.req /\ base_addr[data_wr.index] = a => data_wr.index = t
  BY <1>1, <1>3, <1>4, DataWriteTypes
     DEF PastResultsAreUnderWay, Settled, LarInv, OneElementPerLine
<1>11. ~(data_wr.req /\ base_addr[data_wr.index] = a) => CurrentData(t) = data[t]
  BY <1>3 DEF CurrentData
<1>12. 3 \in Forwards(p) => past_results[3].computed_data = data[t]
  <2> SUFFICES ASSUME 3 \in Forwards(p) PROVE past_results[3].computed_data = data[t]
    OBVIOUS
  <2>1. past_results[3].valid /\ past_results[3].base_addr = a
    BY <1>6
  <2>2. PICK u \in Tags : /\ Allocated(u) /\ past_results[3].base_addr = base_addr[u]
                          /\ past_results[3].computed_data = data[u]
    BY <1>1, <2>1 DEF PastResultsAreUnderWay, Settled
  <2>3. u = t
    BY <1>1, <1>3, <1>4, <2>1, <2>2 DEF LarInv, OneElementPerLine
  <2>4. QED
    BY <2>2, <2>3
<1>13. Operands!CurrTrueData(p).data = AfterResult(a)
  <2>0. /\ Forwards(p) \subseteq 0 .. 3
        /\ Forwards(p) = {} => Operands!CurrTrueData(p).data = rd[p].data
        /\ \A k \in Forwards(p) : (\A n \in Forwards(p) : k <= n) =>
               Operands!CurrTrueData(p).data = past_results[k].computed_data
    BY <1>1, Forwarded
  <2>1. CASE 0 \in Forwards(p)
    BY <1>7, <2>0, <2>1 DEF AfterResult
  <2>2. CASE 0 \notin Forwards(p) /\ 1 \in Forwards(p)
    <3>1. Operands!CurrTrueData(p).data = wr.data
      BY <1>7, <2>0, <2>2
    <3>2. QED
      BY <1>7, <1>8, <2>2, <3>1 DEF AfterResult, AfterRequest
  <2>3. CASE 0 \notin Forwards(p) /\ 1 \notin Forwards(p)
    <3>1. AfterResult(a) = CurrentData(t)
      BY <1>7, <1>9, <2>3 DEF AfterResult, AfterRequest
    <3>2. CASE 2 \in Forwards(p)
      <4>1. Operands!CurrTrueData(p).data = data_wr.data
        BY <1>7, <2>0, <2>3, <3>2
      <4>2. QED
        BY <1>7, <1>10, <3>1, <3>2, <4>1 DEF CurrentData
    <3>3. CASE 2 \notin Forwards(p) /\ 3 \in Forwards(p)
      <4>1. Operands!CurrTrueData(p).data = data[t]
        BY <1>12, <2>0, <2>3, <3>3
      <4>2. QED
        BY <1>7, <1>11, <3>1, <3>3, <4>1
    <3>4. CASE 2 \notin Forwards(p) /\ 3 \notin Forwards(p)
      <4>1. Forwards(p) = {}
        BY <2>0, <2>3, <3>4
      <4>2. rd[p].data = data[t]
        BY <1>5, <1>6, <3>4
      <4>3. QED
        BY <1>7, <1>11, <2>0, <3>1, <3>4, <4>1, <4>2
    <3>5. QED
      BY <3>2, <3>3, <3>4
  <2>4. QED
    BY <2>1, <2>2, <2>3
<1>14. QED
  BY <1>1, <1>5, <1>13, Forwarded

\* Every instruction works on the operands that the sequential machine would give it,
\* wherever the results before it are.
THEOREM OperandsAreAsInSequence == DataSpec => []OperandsAreSequential
<1>1. DataInv => OperandsAreSequential
  <2> SUFFICES ASSUME DataInv, NEW p \in Ports, Reads(p), seq_window[Reader(p)] # NoAddr
               PROVE  LET a == seq_window[Reader(p)] IN
                      /\ Operands!CurrTrueData(p).base_addr = a
                      /\ seq_memory[a] # Unknown => Operands!CurrTrueData(p).data = seq_memory[a]
    BY DEF OperandsAreSequential
  <2>1. /\ SysInv /\ DataTypes /\ LdStHasTheBack /\ SequentialInTheEnd /\ LarInv
    BY DEF DataInv, SysInv
  <2>2. Settled
    BY <2>1 DEF Reads, IsReal, LdStHasTheBack, Settled, Ex!Bubble
  <2>3. PICK l \in Lars : l = Reader(p)
    <3>1. to_ex.instr.index \in [Ports -> Lars]
      BY <2>1, SlotFields DEF Reads, DataTypes
    <3>2. QED
      BY <3>1 DEF Reader
  <2>4. PICK a \in BaseAddr : a = Window(l) /\ a = seq_window[l]
    BY <2>1, <2>2, <2>3, SettledSequential, WindowTypes
  <2>5. /\ Operands!CurrTrueData(p).base_addr = a
        /\ Operands!CurrTrueData(p).data = AfterResult(a)
    BY <2>2, <2>3, <2>4, ForwardedIsCurrent
  <2>6. seq_memory[a] # Unknown => seq_memory[a] = AfterResult(a)
    BY <2>1, <2>2, SettledSequential
  <2>7. QED
    BY <2>3, <2>4, <2>5, <2>6
<1>2. QED
  BY <1>1, PipelineDataInvariant, PTL

\* When the pipeline has run empty, the LARs and memory are as if the instructions
\* had been executed one after another.
THEOREM PipelineDrains == DataSpec => []DrainsToSequentialState
<1>1. DataInv => DrainsToSequentialState
  <2> SUFFICES ASSUME DataInv, Drained
               PROVE  /\ \A a \in BaseAddr : seq_memory[a] # Unknown => Line(a) = seq_memory[a]
                      /\ \A l \in Lars : tag[l] = UnallocatedTag <=> seq_window[l] = NoAddr
                      /\ \A l \in Lars : tag[l] # UnallocatedTag =>
                             base_addr[tag[l]] = seq_window[l]
    BY DEF DrainsToSequentialState
  <2>1. /\ SysInv /\ DataTypes /\ LdStHasTheBack /\ SequentialInTheEnd /\ LarInv
    BY DEF DataInv, SysInv
  <2>2. /\ to_wb.kind \notin {"alu", "ldst"} /\ wb_state = "StRegular"
        /\ wr.req => wr.index = dzero
    BY DEF Drained, IsReal
  <2>3. Settled
    BY <2>1, <2>2 DEF LdStHasTheBack, Settled
  <2>4. /\ \A l \in Lars : seq_window[l] = Window(l)
        /\ \A a \in BaseAddr : seq_memory[a] # Unknown => seq_memory[a] = AfterResult(a)
    BY <2>1, <2>3, SettledSequential
  <2>5. \A a \in BaseAddr : AfterResult(a) = Line(a)
    BY <2>1, <2>2, WindowTypes, NoAddrAssumption DEF AfterResult, AfterRequest
  <2>6. QED
    BY <2>1, <2>4, <2>5, WindowTypes
<1>2. QED
  BY <1>1, PipelineDataInvariant, PTL

\* To the instructions of the pipeline the LAR file and memory are the flat memory.
THEOREM PipelineSeesFlatMemory == DataSpec => ImplementsFlatMemory
  BY PipelineDrivesLarFileSystem, LarFileIsFlatMemory, PTL
=============================================================================
