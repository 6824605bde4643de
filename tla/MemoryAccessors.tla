--------------------------- MODULE MemoryAccessors ---------------------------
(***************************************************************************)
(* The LAR file wired to memory: the write-back stage, the LAR file, the    *)
(* FIFOs, the bus guard and the memory beyond it, with instruction reads of *)
(* any line in between.  This is LarFileSystem with its abstract memory     *)
(* replaced by the real way to memory, and it implements LarFileSystem;     *)
(* LarFileSystem implements FlatMemory.                                     *)
(***************************************************************************)
EXTENDS LarFile, Sequences

CONSTANTS
    NoAddr,
    InstrAddr   \* the lines that instructions are read from

ASSUME NoAddrAssumption == NoAddr \notin BaseAddr
ASSUME InstrAddrAssumption == InstrAddr \subseteq BaseAddr

VARIABLES
    wb_state, captured_decoded_instr, wr,   \* the write-back stage
    instr_req, instr_waiting,               \* the reader of instructions
    instr_fifo, read_fifo, write_fifo,
    stage_0_to_1, stage_1_to_2, cmd_accepted, answer, mem_access,
    main_mem, mem_queue, mem_out            \* the way to memory

wbVars == <<wb_state, captured_decoded_instr, wr>>
instrVars == <<instr_req, instr_waiting>>

Wb == INSTANCE PipeStageWb
Access == INSTANCE MemoryAccess WITH Addr <- BaseAddr

vars == <<larVars, wbVars, instrVars, Access!accessVars>>

AccessorsInit ==
    /\ Init
    /\ Wb!Init
    /\ Access!Init
    /\ instr_req = NoReq
    /\ instr_waiting = FALSE

\* The LAR file's ports, as the FIFOs see them.
ReadPort == IF out_mem_read.req
            THEN [req |-> TRUE, addr |-> out_mem_read.base_addr] ELSE NoReq
WritePort == IF out_mem_write.req
             THEN [req |-> TRUE, addr |-> out_mem_write.base_addr, data |-> out_mem_write.data]
             ELSE NoReq

\* The reader of instructions asks for a line and waits for it.
InstrClient ==
    /\ instr_req' \in (IF instr_waiting THEN {NoReq}
                       ELSE {NoReq} \cup [req : {TRUE}, addr : InstrAddr])
    /\ instr_waiting' = (instr_req'.req \/ (instr_waiting /\ ~instr_fifo.out.valid))

IncomingInstr == IF wb_state = "StRegular" THEN Wb!Instr ELSE {Wb!Bubble}

\* The write FIFO's valid is the whole of its answer.
WriteValid == [valid |-> write_fifo.out.valid]

Edge ==
    /\ \E instr \in IncomingInstr : Wb!Clock(instr, out_wr_valid)
    /\ Clock(wr, read_fifo.out, WriteValid)
    /\ InstrClient
    /\ Access!Clock(instr_req, ReadPort, WritePort)

EdgeServe == Edge /\ Access!Serve
EdgeNotYet == Edge /\ Access!NotYet

AccessorsNext == EdgeServe \/ EdgeNotYet

AccessorsSpec == AccessorsInit /\ [][AccessorsNext]_vars

\* The clock does not stop, and memory answers what it was asked.
FairAccessorsSpec == AccessorsSpec /\ WF_vars(AccessorsNext) /\ WF_vars(EdgeServe)

-----------------------------------------------------------------------------
(* Properties *)

\* What LarFileSystem calls the requests in progress.
PendingRead == IF read_fifo.to_mbg = NoReq THEN NoAddr ELSE read_fifo.to_mbg.addr
PendingWrite == IF write_fifo.to_mbg = NoReq THEN NoReq
                ELSE WriteBack(write_fifo.to_mbg.addr, write_fifo.to_mbg.data)

System == INSTANCE LarFileSystem WITH
    pending_read <- PendingRead, pending_write <- PendingWrite

\* A data FIFO holds a request exactly while it waits for the answer or hands it over:
\* what the LAR file has in progress is what the FIFOs hold.
FifosHoldWhatIsUnderWay ==
    \A p \in {"ReadData", "WriteData"} :
        Access!FifoOf(p).to_mbg # NoReq => Access!Waits(p) \/ Access!Out(p).valid

\* The line on its way to the LAR file is still the line in memory, and a write-back
\* whose answer is on its way is still what memory holds: nothing overtakes either.
AnswersAreCurrent ==
    /\ Access!HasMetMemory("ReadData") =>
           Access!Behind("ReadData").data = main_mem[read_fifo.to_mbg.addr]
    /\ Access!HasMetMemory("WriteData") =>
           main_mem[write_fifo.to_mbg.addr] = write_fifo.to_mbg.data

InstrReqTypeOK == instr_req \in {NoReq} \cup [req : {TRUE}, addr : InstrAddr]

\* The inductive invariant behind the theorems of MemoryAccessors_proofs.
AccessorsInv ==
    /\ System!SysInv
    /\ Access!AccessInv
    /\ FifosHoldWhatIsUnderWay
    /\ AnswersAreCurrent
    /\ InstrReqTypeOK

\* Behind the FIFOs and the bus guard, with instruction reads in between, the LAR
\* file sees exactly the memory LarFileSystem assumes: one answer per edge, the
\* data of the line as the last write-back left it.
ImplementsLarFileSystem == System!SysSpec

\* Every load or store of a LAR other than dzero comes to an end and the pipeline
\* goes on, although instruction reads go before both of its accesses.
LdStCompletes ==
    wb_state = "StPrepLdSt" /\ captured_decoded_instr.ra # dzero ~> wb_state = "StRegular"
=============================================================================
