--------------------------- MODULE PipelineControl ---------------------------
(***************************************************************************)
(* The three stages of the pipeline and the instruction cache, with their   *)
(* registers and their stall lines: everything that decides which           *)
(* instruction is where at which edge.  What instructions compute is left   *)
(* out; so are the latencies of memory, of the units of the execute stage   *)
(* and of the LAR file, each of which may take any time.                    *)
(***************************************************************************)
EXTENDS Integers, Sequences

CONSTANTS NumAddrs, LineSize, NumLines, NoData, Unresolved,
          Programs   \* the programs to run: functions from addresses to instructions

Addrs == 0 .. NumAddrs - 1
Kinds == {"nop", "alu", "ctrl", "ldst"}

ASSUME SizesAssumption == {NumAddrs, LineSize, NumLines} \subseteq Nat \ {0}
ASSUME AddrsAssumption == NumAddrs % (LineSize * NumLines) = 0
\* An instruction knows its address, its kind, and where it may lead.
ASSUME ProgramsAssumption ==
    \A p \in Programs :
        /\ p \in [Addrs -> [kind : Kinds, at : Addrs, jmp : BOOLEAN, offset : Int]]
        /\ \A a \in Addrs : p[a].at = a
ASSUME UnresolvedAssumption == Unresolved \notin Addrs

VARIABLES
    program,                                      \* memory's instructions, never written
    ic_state, captured_req, captured_addr, captured_line, lines, ic_mem_access,
    waiting_line,                                 \* the line memory was asked for
    ifid_state, spec_reg_pc, to_ex,
    ex_state, captured_instr, captured_multi, to_wb,
    wb_state, captured_decoded_instr, wr

Ic == INSTANCE InstrCache
IfId == INSTANCE PipeStageIfId
Ex == INSTANCE PipeStageEx
Wb == INSTANCE PipeStageWb WITH Lars <- {1}, BaseAddr <- {0}, Data <- {0}, Zero <- 0,
                                DataType <- {0}, DataOffset <- {0}

vars == <<program, Ic!icacheVars, waiting_line, IfId!ifidVars, Ex!exVars, Wb!wbVars>>

NoLine == NumAddrs
Bubble == Ex!Bubble
IsBubble(instr) == instr.kind \in {"bubble", "nop"}

Init ==
    /\ program \in Programs
    /\ Ic!Init /\ IfId!Init /\ Ex!Init /\ Wb!Init
    /\ waiting_line = NoLine

\* What write-back makes of what the execute stage hands it.
WbInput == CASE to_wb.kind = "ldst" -> [group |-> 2, ra |-> 1, base_addr |-> 0,
                                        data_offset |-> 0, data_type |-> 0]
             [] to_wb.kind = "ctrl" -> Wb!NoWriteInstr
             [] OTHER -> Wb!Bubble

Line(addr) == [i \in 0 .. LineSize - 1 |-> program[addr + i]]

\* The line the cache asked for, or nothing.
MemAnswers == {[valid |-> FALSE]} \cup
              (IF waiting_line = NoLine THEN {} ELSE {[valid |-> TRUE, data |-> Line(waiting_line)]})

Memory(mem) ==
    waiting_line' = IF ic_mem_access.req THEN ic_mem_access.addr
                    ELSE IF mem.valid THEN NoLine ELSE waiting_line

\* The answers of this cycle: memory's, the casters', the multi-cycle units' and the
\* LAR file's, and what the types of the LARs ask for.  Each is an input only in
\* the states that look at it.
Inputs == [
    mem : MemAnswers,
    cast : IF ex_state = "StRegular" THEN Ex!PossibleCasts(to_ex) ELSE {"None"},
    multi : IF ex_state = "StRegular" THEN Ex!PossibleMulti(to_ex) ELSE {FALSE},
    caster_valid : IF ex_state \in {"StWaitForScalarCaster", "StWaitForVectorCaster"}
                   THEN BOOLEAN ELSE {FALSE},
    op_valid : IF ex_state = "StWaitForMultiCycleOp" THEN BOOLEAN ELSE {FALSE},
    lar_valid : IF wb_state = "StWaitForLarFileValid" THEN BOOLEAN ELSE {FALSE}]

\* One clock edge.
Edge(inp) ==
    LET next_state == Ex!NextState(inp.cast, inp.multi, inp.caster_valid, inp.op_valid)
        ex_stall == Ex!Stall(next_state)
        wb_stall == Wb!Stall(WbInput, inp.lar_valid)
        instr == IF Ic!Valid THEN Ic!Instr ELSE Bubble
    IN \E computed_pc \in Ex!ComputedPcs(to_ex) :
        /\ Ic!Clock(TRUE, IfId!RequestedAddr(Ic!Valid, instr, ex_stall, computed_pc), inp.mem)
        /\ IfId!Clock(Ic!Valid, instr, ex_stall, computed_pc, wb_stall)
        /\ Ex!Clock(to_ex, inp.multi, next_state)
        /\ Wb!Clock(WbInput, inp.lar_valid)
        /\ Memory(inp.mem)
        /\ UNCHANGED program

Next == \E inp \in Inputs : Edge(inp)

Spec == Init /\ [][Next]_vars

\* The clock ticks, and whatever is asked answers.
FairSpec ==
    /\ Spec
    /\ WF_vars(Next)
    /\ WF_vars(\E inp \in Inputs : inp.mem.valid /\ Edge(inp))
    /\ WF_vars(\E inp \in Inputs : inp.caster_valid /\ Edge(inp))
    /\ WF_vars(\E inp \in Inputs : inp.op_valid /\ Edge(inp))
    /\ WF_vars(\E inp \in Inputs : inp.lar_valid /\ Edge(inp))

-----------------------------------------------------------------------------
(* What the registers stand for *)

InstrSeq(slot) == IF IsBubble(slot) THEN <<>> ELSE <<slot.instr>>
InEx == IF ex_state = "StRegular" THEN to_ex ELSE captured_instr

Order == INSTANCE ProgramOrder WITH
    pc <- IF ifid_state = "StChangePc" THEN Unresolved ELSE spec_reg_pc,
    inflight <- InstrSeq(to_wb) \o InstrSeq(InEx)

-----------------------------------------------------------------------------
(* Properties *)

\* What the fetch stage makes of the instruction at an address.
Decoded(a) ==
    [instr |-> program[a], kind |-> program[a].kind,
     pc_val |-> IF program[a].kind = "ctrl" THEN (a + 1) % NumAddrs ELSE a]
Slots == {Bubble, IfId!NopBubble} \cup {Decoded(a) : a \in {b \in Addrs : program[b].kind # "nop"}}

\* The registers hold what their types allow: between the stages, bubbles and
\* decoded instructions of the program.
TypeOK ==
    /\ program \in Programs
    /\ ic_state \in {"StIdle", "StWaitForMem"}
    /\ captured_req \in BOOLEAN /\ captured_addr \in Addrs
    /\ DOMAIN lines = 0 .. NumLines - 1
    /\ waiting_line \in 0 .. NumAddrs
    /\ ifid_state \in {"StInit", "StRegular", "StChangePc",
                       "StWaitForLdStPart0", "StWaitForLdStPart1"}
    /\ spec_reg_pc \in Addrs
    /\ {to_ex, captured_instr, to_wb} \subseteq Slots
    /\ ex_state \in {"StRegular", "StWaitForScalarCaster", "StWaitForVectorCaster",
                     "StInjectCastedScalars", "StUseCastedDataSingleCycle",
                     "StUseCastedDataMultiCycle", "StWaitForMultiCycleOp"}
    /\ wb_state \in {"StRegular", "StPrepLdSt", "StWaitForLarFileValid"}

\* The pipeline is in order and loses nothing: whatever misses, casts, long
\* operations, branches and memory accesses meet, the instructions that reach
\* write-back are those of a path of the program, each of them once.
FollowsProgramOrder == Order!Spec

\* The cache has no idea of the fetch stage's program counter, nor the other way
\* round; yet the instruction taken is always the one at the program counter.
TakesInstrAtPc ==
    ifid_state = "StRegular" /\ Ic!Valid
        => captured_addr = spec_reg_pc /\ Ic!Instr = program[spec_reg_pc]

\* Write-back looks at its input in StRegular only, and the execute stage does not
\* look at write-back's stall: nothing may arrive while a load or store is served.
NothingReachesBusyWb == wb_state # "StRegular" => IsBubble(to_wb)

\* Fetching never stops: a miss is asked for again, a stall ends, a control-flow
\* instruction and a load or store hand the fetch stage back, and two instructions
\* whose lines share a place in the cache do not keep each other out.
Takes == ifid_state = "StRegular" /\ spec_reg_pc' # spec_reg_pc
KeepsFetching == []<><<Takes>>_vars

\* A line in the cache is the line in memory at its address.
CacheHoldsMemory ==
    \A i \in DOMAIN lines : lines[i].valid =>
        lines[i].data = Line(lines[i].tag * LineSize * NumLines + i * LineSize)

\* The line captured with a request, too, is a line of memory.
CapturedLineHoldsMemory ==
    captured_line.valid =>
        captured_line.data = Line(captured_line.tag * LineSize * NumLines
                                  + Ic!ArrIndex(captured_addr) * LineSize)

\* Memory is asked for the line that was missed, once, and only during the miss.
FetchesTheMissedLine ==
    /\ ic_mem_access.req =>
           /\ ic_state = "StWaitForMem" /\ waiting_line = NoLine
           /\ ic_mem_access.addr = Ic!LineAddr(captured_addr)
    /\ waiting_line # NoLine =>
           ic_state = "StWaitForMem" /\ waiting_line = Ic!LineAddr(captured_addr)

\* What the cache is about to answer was asked for at the program counter, unless
\* that is about to change.
RequestIsForPc ==
    ic_state = "StIdle" /\ captured_req /\ ifid_state # "StChangePc"
        => captured_addr = spec_reg_pc

\* Only results of group 0 keep the execute stage, and what keeps it is not
\* something the fetch stage waits for.
StalledByAlu ==
    IF ex_state = "StRegular" THEN captured_instr = Bubble
    ELSE captured_instr.kind \in {"alu", "nop"}

\* Where the instruction is that the fetch stage waits for.
FetchWaitsForYoungest ==
    /\ ifid_state # "StRegular" => ex_state = "StRegular"
    /\ CASE ifid_state = "StInit"             -> to_ex = Bubble
         [] ifid_state = "StRegular"          -> to_ex.kind \in {"bubble", "nop", "alu"}
         [] ifid_state = "StChangePc"         -> to_ex.kind = "ctrl"
         [] ifid_state = "StWaitForLdStPart0" -> to_ex.kind = "ldst"
         [] ifid_state = "StWaitForLdStPart1" -> to_ex = Bubble

\* A load or store is in write-back only while the fetch stage waits for it, in
\* one place: at write-back's input or inside.
LdStIsAlone ==
    /\ ifid_state # "StWaitForLdStPart1" => wb_state = "StRegular" /\ to_wb.kind # "ldst"
    /\ ifid_state = "StWaitForLdStPart1" => (wb_state = "StRegular") = (to_wb.kind = "ldst")

\* What holds after every edge, from which the properties follow.
PipeInv ==
    /\ TypeOK /\ CacheHoldsMemory /\ CapturedLineHoldsMemory /\ FetchesTheMissedLine
    /\ RequestIsForPc /\ StalledByAlu /\ FetchWaitsForYoungest /\ LdStIsAlone
    /\ NothingReachesBusyWb
=============================================================================
