--------------------------- MODULE MemoryBusGuard ---------------------------
(***************************************************************************)
(* The arbiter of the memory bus, a pipeline of three stages: accept one    *)
(* request and drive the bus; wait while memory sees it; tell the requester *)
(* that its answer is there.  The whole pipeline stalls while the oldest    *)
(* request has no answer.  Instruction reads go before data reads, and data *)
(* reads before data writes.                                                *)
(***************************************************************************)

CONSTANTS Addr, Data

VARIABLES
    stage_0_to_1, stage_1_to_2,  \* the type of request in each later stage
    cmd_accepted,                \* the port whose cmd_accepted is high, or "None"
    answer,                      \* the port whose valid is high, and its data
    mem_access                   \* the memory bus

mbgVars == <<stage_0_to_1, stage_1_to_2, cmd_accepted, answer, mem_access>>

Port == {"ReadInstr", "ReadData", "WriteData"}
ReqType == Port \cup {"None"}

NoReq == [req |-> FALSE]
NoAnswer == [port |-> "None"]

Init ==
    /\ stage_0_to_1 = "None"
    /\ stage_1_to_2 = "None"
    /\ cmd_accepted = "None"
    /\ answer = NoAnswer
    /\ mem_access = NoReq

\* The oldest request has no answer yet.
Stall(mem) == stage_1_to_2 # "None" /\ ~mem.valid

\* Mutant: a request that has just been accepted is accepted again.
Wants_Again(port, request) == request.req
\* A FIFO takes its request back one edge after it was accepted.
Wants(port, request) == request.req /\ cmd_accepted # port

prep_mem_read(addr) == mem_access' = [req |-> TRUE, mem_acc_type |-> "Read", addr |-> addr]
\* Mutant: the access type of the last read stays.
prep_mem_write_AsRead(w) == prep_mem_read(w.addr)
prep_mem_write(w) ==
    mem_access' = [req |-> TRUE, mem_acc_type |-> "Write", addr |-> w.addr, data |-> w.data]
stop_mem_access == mem_access' = NoReq

Accept(port) == stage_0_to_1' = port /\ cmd_accepted' = port

ServiceReadInstr(instr) ==
    /\ Wants("ReadInstr", instr)
    /\ prep_mem_read(instr.addr)
    /\ Accept("ReadInstr")

ServiceReadData(instr, read) ==
    /\ ~Wants("ReadInstr", instr)
    /\ Wants("ReadData", read)
    /\ prep_mem_read(read.addr)
    /\ Accept("ReadData")

ServiceWriteData(instr, read, write) ==
    /\ ~Wants("ReadInstr", instr) /\ ~Wants("ReadData", read)
    /\ Wants("WriteData", write)
    /\ prep_mem_write(write)
    /\ Accept("WriteData")

ServiceNothing(instr, read, write) ==
    /\ ~Wants("ReadInstr", instr) /\ ~Wants("ReadData", read) /\ ~Wants("WriteData", write)
    /\ stop_mem_access
    /\ Accept("None")

\* Stage 2: the requester's valid line goes high for one cycle.
Answer(mem) ==
    answer' = CASE stage_1_to_2 = "None" -> NoAnswer
                [] stage_1_to_2 = "WriteData" -> [port |-> "WriteData"]
                [] OTHER -> [port |-> stage_1_to_2, data |-> mem.data]

\* The stages move on, and stage 0 takes the first port that wants the bus.
Advance(instr, read, write) ==
    /\ stage_1_to_2' = stage_0_to_1
    /\ \/ ServiceReadInstr(instr)
       \/ ServiceReadData(instr, read)
       \/ ServiceWriteData(instr, read, write)
       \/ ServiceNothing(instr, read, write)

Flow(instr, read, write, mem) ==
    /\ ~Stall(mem)
    /\ Advance(instr, read, write)
    /\ Answer(mem)

\* Mutant: the bus goes on asking during a stall.
HoldStages_KeepsAsking(mem) ==
    /\ Stall(mem)
    /\ cmd_accepted' = "None"
    /\ answer' = NoAnswer
    /\ UNCHANGED <<stage_0_to_1, stage_1_to_2, mem_access>>
\* Everything is held, except that what was driven for one cycle is dropped.
HoldStages(mem) ==
    /\ Stall(mem)
    /\ stop_mem_access
    /\ cmd_accepted' = "None"
    /\ answer' = NoAnswer
    /\ UNCHANGED <<stage_0_to_1, stage_1_to_2>>

Clock(instr, read, write, mem) ==
    \/ Flow(instr, read, write, mem)
    \/ HoldStages(mem)
=============================================================================
