--------------------------- MODULE LarFileSystem ---------------------------
(***************************************************************************)
(* The LAR file between the write-back stage and memory: every request it   *)
(* sees comes from PipeStageWb, and every answer from a memory that serves  *)
(* one read and one write at a time with any latency and in any order, one  *)
(* answer per edge.  MemoryAccessors.tla shows that the FIFOs and the bus   *)
(* guard in front of the RAM are such a memory.                             *)
(***************************************************************************)
EXTENDS LarFile

CONSTANT NoAddr
ASSUME NoAddrAssumption == NoAddr \notin BaseAddr

VARIABLES
    wb_state, captured_decoded_instr, wr,   \* the write-back stage
    main_mem,                               \* memory behind the ports
    pending_read,                           \* address of the read in progress
    pending_write                           \* request of the write in progress

wbVars  == <<wb_state, captured_decoded_instr, wr>>
memVars == <<main_mem, pending_read, pending_write>>
vars    == <<larVars, wbVars, memVars>>

Wb == INSTANCE PipeStageWb

SysInit ==
    /\ Init
    /\ Wb!Init
    /\ main_mem \in [BaseAddr -> Data]
    /\ pending_read = NoAddr
    /\ pending_write = NoReq

\* In its other states the write-back stage looks at no instruction.
IncomingInstr == IF wb_state = "StRegular" THEN Wb!Instr ELSE {Wb!Bubble}

Edge(instr, in_mem_read, in_mem_write) ==
    /\ Wb!Clock(instr, out_wr_valid)
    /\ Clock(wr, in_mem_read, in_mem_write)
    /\ pending_read' = IF out_mem_read.req THEN out_mem_read.base_addr
                       ELSE IF in_mem_read.valid THEN NoAddr ELSE pending_read
    /\ pending_write' = IF out_mem_write.req THEN out_mem_write
                        ELSE IF in_mem_write.valid THEN NoReq ELSE pending_write

\* A write reaches memory at any edge before its answer, or at that edge.
LandWrite ==
    /\ pending_write.req
    /\ main_mem' = [main_mem EXCEPT ![pending_write.base_addr] = pending_write.data]
MayLandWrite == UNCHANGED main_mem \/ LandWrite

NoAnswer(instr) ==
    /\ Edge(instr, NotValid, NotValid)
    /\ MayLandWrite

AnswerRead(instr) ==
    /\ pending_read # NoAddr
    /\ Edge(instr, [valid |-> TRUE, data |-> main_mem[pending_read]], NotValid)
    /\ MayLandWrite

AnswerWrite(instr) ==
    /\ Edge(instr, NotValid, WriteAnswer)
    /\ LandWrite

SysStep(instr) == NoAnswer(instr) \/ AnswerRead(instr) \/ AnswerWrite(instr)

SysNext == \E instr \in IncomingInstr : SysStep(instr)

SysSpec == SysInit /\ [][SysNext]_vars

-----------------------------------------------------------------------------
(* What the registers stand for *)

\* The data of element t once the block RAM has taken a write under way.
CurrentData(t) ==
    IF data_wr.req THEN IF data_wr.index = t THEN data_wr.data ELSE data[t]
    ELSE data[t]

WaitsForRead == \/ wr_state = "WrStWaitForJustMemRead"
                \/ wr_state = "WrStWaitForMemReadAndMemWrite" /\ ~captured_valid.read
WaitsForWrite == \/ wr_state = "WrStWaitForJustMemWrite"
                 \/ wr_state = "WrStWaitForMemReadAndMemWrite" /\ ~captured_valid.write

\* Element t is allocated to its address but its line is still on its way.
AwaitingRead(t) == WaitsForRead /\ tag[captured.index] = t

\* The line memory will hold at a once a write-back under way has arrived.
MemoryAt(a) ==
    IF out_mem_write.req /\ out_mem_write.base_addr = a THEN out_mem_write.data
    ELSE IF pending_write.req /\ pending_write.base_addr = a THEN pending_write.data
    ELSE main_mem[a]

HoldsLine(t, a) == Allocated(t) /\ base_addr[t] = a /\ ~AwaitingRead(t)

Line(a) == IF \E t \in Tags : HoldsLine(t, a)
           THEN CurrentData(CHOOSE t \in Tags : HoldsLine(t, a))
           ELSE MemoryAt(a)

\* The address a LAR looks at.
Window(l) == IF tag[l] = UnallocatedTag THEN NoAddr ELSE base_addr[tag[l]]

Flat == INSTANCE FlatMemory WITH
    memory <- [a \in BaseAddr |-> Line(a)],
    window <- [l \in Lars |-> Window(l)]

-----------------------------------------------------------------------------
(* Properties *)

\* The LAR file implements a flat memory: no sequence of results, loads and
\* stores, with any memory latency, loses a write, tears an alias apart or reads
\* a line that has not been written back yet.
ImplementsFlatMemory == Flat!Spec

\* A request reaches the LAR file only while its FSM is idle; in the other states
\* it would be ignored without a trace.
NoRequestIsIgnored == wr.req /\ wr.index # dzero => wr_state = "WrStIdle"

\* The data snapshot of a store is the newest data of the LAR, although the block
\* RAM takes a result one edge after the FSM has accepted it.
SnapshotIsCurrent ==
    wr_state = "WrStStartLdSt" =>
        /\ captured.curr = tag[captured.index]
        /\ captured.data = CurrentData(captured.curr)

\* A clean element equals its line in memory, so dropping it loses nothing.
CleanLineEqualsMemory ==
    \A t \in Tags : Allocated(t) /\ ~dirty[t] /\ ~AwaitingRead(t)
                        => CurrentData(t) = MemoryAt(base_addr[t])

\* The memory ports carry one request at a time: no request arrives while an
\* earlier one of its kind is unanswered, and a line is not read while its
\* write-back is still under way.
OneRequestAtATime ==
    /\ out_mem_read.req => pending_read = NoAddr
    /\ out_mem_write.req => ~pending_write.req
    /\ out_mem_read.req => ~pending_write.req
    /\ pending_read # NoAddr /\ pending_write.req => pending_read # pending_write.base_addr

\* Values of the registers this module adds.
WbRequest == {NoReq} \cup WriteReq \cup LdStReq
MemWrite == [req : {TRUE}, base_addr : BaseAddr, data : Data]
SysTypes ==
    /\ wb_state \in {"StRegular", "StPrepLdSt", "StWaitForLarFileValid"}
    /\ captured_decoded_instr \in Wb!Instr
    /\ wb_state = "StPrepLdSt" => captured_decoded_instr \in Wb!LdStInstr
    /\ wr \in WbRequest
    /\ main_mem \in [BaseAddr -> Data]
    /\ pending_read \in BaseAddr \cup {NoAddr}
    /\ pending_write \in {NoReq} \cup MemWrite

\* While the FSM is busy or just done, write-back waits for it and asks for nothing;
\* loads and stores are only asked for as it begins to wait.
WriteBackWaits ==
    /\ wr_state # "WrStIdle" \/ out_wr_valid =>
           wb_state = "StWaitForLarFileValid" /\ ~wr.req
    /\ out_wr_valid => wr_state = "WrStIdle"
    /\ wr.req => (wr.write_type \in {"Ld", "St"} <=> wb_state = "StWaitForLarFileValid")

ReadUnderWay == out_mem_read.req \/ pending_read # NoAddr
WriteUnderWay == out_mem_write.req \/ pending_write.req

\* The line the LAR of the load or store under way now refers to.
NewLineAddr == base_addr[tag[captured.index]]

\* The FSM waits for exactly what memory has been asked for: each request was made
\* once, is at the port or in memory, and the line that is written back is not the one that is read.
WaitsForWhatIsUnderWay ==
    /\ ReadUnderWay <=> WaitsForRead
    /\ WriteUnderWay <=> WaitsForWrite
    /\ ~(out_mem_read.req /\ pending_read # NoAddr)
    /\ ~(out_mem_write.req /\ pending_write.req)
    /\ wr_state = "WrStStartLdSt" => captured_valid = NeitherValid
    /\ wr_state = "WrStWaitForMemReadAndMemWrite" =>
           /\ out_mem_read.req <=> out_mem_write.req
           /\ ~(captured_valid.read /\ captured_valid.write)
    /\ out_mem_read.req => out_mem_read.base_addr = NewLineAddr
    /\ pending_read # NoAddr => pending_read = NewLineAddr
    /\ out_mem_write.req => out_mem_write.base_addr # NewLineAddr
    /\ pending_write.req => pending_write.base_addr # NewLineAddr

\* What an accepted result makes of the block RAM's write port.
ResultWrite ==
    IF wr.req /\ wr.index # dzero /\ tag[wr.index] # UnallocatedTag
    THEN DataWrite(tag[wr.index], wr.data) ELSE NoReq

\* Before a load or store is captured, the result before it has been accepted twice,
\* and the block RAM already has what the second acceptance writes.
ResultIsInPlace ==
    /\ wb_state = "StPrepLdSt" => data_wr = ResultWrite
    /\ wb_state = "StWaitForLarFileValid" /\ wr.req /\ data_wr.req =>
           data[data_wr.index] = data_wr.data

\* The inductive invariant behind the theorems of LarFileSystem_proofs.
SysInv ==
    /\ LarInv
    /\ SysTypes
    /\ WriteBackWaits
    /\ WaitsForWhatIsUnderWay
    /\ ResultIsInPlace
    /\ SnapshotIsCurrent
    /\ CleanLineEqualsMemory

\* "If you do a store before there was any data in a specific LAR, the resulting
\* data WILL be zero": a comment at the store of a LAR that was never allocated.
\* Stated of the edge at which the FSM has just finished such a store.
FirstStoreIsZero ==
    out_wr_valid /\ captured.curr = UnallocatedTag /\ IsSt
        => CurrentData(tag[captured.index]) = Zero
=============================================================================
