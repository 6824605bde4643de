---------------------------- MODULE MemoryAccess ----------------------------
(***************************************************************************)
(* The way to memory: one FIFO for each of the three clients' ports, the    *)
(* bus guard, and the memory on the other side of the CPU's bus.            *)
(*                                                                         *)
(* Memory answers each access of the bus once, in order, at the edge it     *)
(* samples it or at any later one.  The RAM of the top level does so at     *)
(* once (and ties valid high, which the guard ignores when it expects       *)
(* nothing); the guard's stall is for slower memories.                      *)
(***************************************************************************)
EXTENDS Sequences

CONSTANTS Addr, Data

VARIABLES
    instr_fifo, read_fifo, write_fifo,
    stage_0_to_1, stage_1_to_2, cmd_accepted, answer, mem_access,
    main_mem,
    mem_queue,   \* accesses sampled and not yet answered
    mem_out      \* memory's valid and data lines

fifoVars == <<instr_fifo, read_fifo, write_fifo>>
mbgVars == <<stage_0_to_1, stage_1_to_2, cmd_accepted, answer, mem_access>>
ramVars == <<main_mem, mem_queue, mem_out>>
accessVars == <<fifoVars, mbgVars, ramVars>>

InstrFifo == INSTANCE MemoryAccessFifo WITH fifo <- instr_fifo
ReadFifo == INSTANCE MemoryAccessFifo WITH fifo <- read_fifo
WriteFifo == INSTANCE MemoryAccessFifo WITH fifo <- write_fifo
Mbg == INSTANCE MemoryBusGuard

Port == Mbg!Port
NotValid == [valid |-> FALSE]
WriteAnswer == [valid |-> TRUE]

Init ==
    /\ InstrFifo!Init /\ ReadFifo!Init /\ WriteFifo!Init
    /\ Mbg!Init
    /\ main_mem \in [Addr -> Data]
    /\ mem_queue = <<>>
    /\ mem_out = NotValid

-----------------------------------------------------------------------------
(* Memory *)

Sampled == IF mem_access.req THEN Append(mem_queue, mem_access) ELSE mem_queue

\* The oldest access reads or writes the RAM, and valid goes high.  The RAM reads
\* its address on a write too, and returns what was there before.
Serve ==
    /\ Sampled # <<>>
    /\ mem_queue' = Tail(Sampled)
    /\ LET a == Head(Sampled) IN
       /\ mem_out' = [valid |-> TRUE, data |-> main_mem[a.addr]]
       /\ main_mem' = IF a.mem_acc_type = "Write"
                      THEN [main_mem EXCEPT ![a.addr] = a.data]
                      ELSE main_mem

NotYet ==
    /\ mem_queue' = Sampled
    /\ mem_out' = NotValid
    /\ UNCHANGED main_mem

-----------------------------------------------------------------------------
(* One edge of everything between the clients and memory *)

\* Mutant: the FIFOs share one valid line.
AnswerTo_AnyPort(port) ==
    IF answer.port = "None" THEN NotValid
    ELSE IF "WriteData" \in {port, answer.port} THEN WriteAnswer
    ELSE [valid |-> TRUE, data |-> answer.data]
\* What the guard tells a FIFO.
AnswerTo(port) ==
    IF answer.port # port THEN NotValid
    ELSE IF port = "WriteData" THEN WriteAnswer
    ELSE [valid |-> TRUE, data |-> answer.data]

Clock(instr_req, read_req, write_req) ==
    /\ InstrFifo!Clock(instr_req, cmd_accepted = "ReadInstr", AnswerTo("ReadInstr"))
    /\ ReadFifo!Clock(read_req, cmd_accepted = "ReadData", AnswerTo("ReadData"))
    /\ WriteFifo!Clock(write_req, cmd_accepted = "WriteData", AnswerTo("WriteData"))
    /\ Mbg!Clock(instr_fifo.to_mbg, read_fifo.to_mbg, write_fifo.to_mbg, mem_out)

-----------------------------------------------------------------------------
(* What the registers stand for *)

FifoOf(p) == CASE p = "ReadInstr" -> instr_fifo
               [] p = "ReadData"  -> read_fifo
               [] p = "WriteData" -> write_fifo
Out(p) == FifoOf(p).out

MemAnswers(p) == stage_1_to_2 = p /\ mem_out.valid

Behind(p) == CASE Out(p).valid -> Out(p)
               [] answer.port = p -> answer
               [] MemAnswers(p) -> mem_out

\* Port p has met memory and its answer is on the way to the client.
HasMetMemory(p) == Out(p).valid \/ answer.port = p \/ MemAnswers(p)

-----------------------------------------------------------------------------
(* Properties *)

\* What a FIFO holds of its client's request, and what it answers.
HeldRequest(p) == IF p = "WriteData" THEN [req : BOOLEAN, addr : Addr, data : Data]
                  ELSE [req : BOOLEAN, addr : Addr]
FifoAnswer(p) == IF p = "WriteData" THEN {WriteAnswer} ELSE [valid : {TRUE}, data : Data]

AccessTypeOK ==
    /\ \A p \in Port :
           FifoOf(p) \in [state : {"Idle", "WaitForMem"}, cmd_was_accepted : BOOLEAN,
                          to_mbg : {Mbg!NoReq} \cup HeldRequest(p),
                          out : {NotValid} \cup FifoAnswer(p)]
    /\ {stage_0_to_1, stage_1_to_2, cmd_accepted} \subseteq Mbg!ReqType
    /\ answer \in {Mbg!NoAnswer, [port |-> "WriteData"]}
                      \cup [port : {"ReadInstr", "ReadData"}, data : Data]
    /\ mem_out \in {NotValid} \cup [valid : {TRUE}, data : Data]
    /\ main_mem \in [Addr -> Data]

Waits(p) == FifoOf(p).state = "WaitForMem"
IsAccepted(p) == Waits(p) /\ (FifoOf(p).cmd_was_accepted \/ cmd_accepted = p)

\* A FIFO asks the guard exactly while it waits and does not yet know that it was
\* accepted, and keeps the request it was given until its answer is taken.
FifosHoldRequests ==
    \A p \in Port :
        /\ FifoOf(p).to_mbg.req <=> Waits(p) /\ ~FifoOf(p).cmd_was_accepted
        /\ FifoOf(p).cmd_was_accepted => Waits(p)
        /\ Waits(p) => Out(p) = NotValid
        /\ Waits(p) \/ Out(p).valid => FifoOf(p).to_mbg \in HeldRequest(p)

\* A request that was accepted is in one place only, and a place holds none that was
\* not: a second acceptance would use the bus twice, and the second answer would meet
\* a later request.
AcceptedOnce ==
    /\ \A p \in Port :
           p \in {stage_0_to_1, stage_1_to_2, answer.port} <=> IsAccepted(p)
    /\ stage_0_to_1 \in {stage_1_to_2, answer.port} => stage_0_to_1 = "None"
    /\ stage_1_to_2 = answer.port => stage_1_to_2 = "None"
    /\ cmd_accepted # "None" =>
           stage_0_to_1 = cmd_accepted /\ ~FifoOf(cmd_accepted).cmd_was_accepted

\* The access that port p's request becomes on the bus.
BusAccess(p) ==
    IF p = "WriteData"
    THEN [req |-> TRUE, mem_acc_type |-> "Write", addr |-> FifoOf(p).to_mbg.addr,
          data |-> FifoOf(p).to_mbg.data]
    ELSE [req |-> TRUE, mem_acc_type |-> "Read", addr |-> FifoOf(p).to_mbg.addr]

\* Memory and the guard agree on what is under way: the accesses memory has not
\* answered are those of the requests in the guard's two stages, in order, so an answer
\* is never taken for another request's, nor lost because no stage expects it.
AccessIf(cond, p) == IF cond THEN <<BusAccess(p)>> ELSE <<>>
StagesMatchMemory ==
    /\ mem_access = IF cmd_accepted = "None" THEN Mbg!NoReq ELSE BusAccess(cmd_accepted)
    /\ mem_out.valid => stage_1_to_2 # "None"
    /\ mem_queue = AccessIf(Mbg!Stall(mem_out), stage_1_to_2)
                       \o AccessIf(stage_0_to_1 # "None" /\ cmd_accepted = "None", stage_0_to_1)

\* A read and a write are never answered at one edge.  The LAR file's wait for
\* both would drop the pair and never end.
OneDataAnswerPerEdge == ~(Out("ReadData").valid /\ Out("WriteData").valid)

\* Inductive, whatever the clients ask.
AccessInv ==
    /\ AccessTypeOK
    /\ FifosHoldRequests
    /\ AcceptedOnce
    /\ StagesMatchMemory
    /\ OneDataAnswerPerEdge
=============================================================================
