---------------------- MODULE MemoryAccessSystem_proofs ----------------------
(***************************************************************************)
(* Proofs about the way to memory.  The first part is about MemoryAccess    *)
(* alone and holds whatever its clients ask; the second part adds the       *)
(* clients of MemoryAccessSystem and shows that each of its steps is one of *)
(* MemoryPorts.                                                             *)
(***************************************************************************)
EXTENDS MemoryAccessSystem, SequenceTheorems, TLAPS

\* What a client may put on its request line.
ClientRequest(p) == {NoReq} \cup (IF p = "WriteData" THEN WriteReq ELSE ReadReq)

\* A FIFO goes from f to g at an edge.
FifoClock(f, g, request, accepted, granted) ==
    \/ f.state = "Idle" /\ ~request.req /\ g = [f EXCEPT !.to_mbg = NoReq, !.out = NotValid]
    \/ /\ f.state = "Idle" /\ request.req
       /\ g = [state |-> "WaitForMem", cmd_was_accepted |-> FALSE,
               to_mbg |-> request, out |-> NotValid]
    \/ /\ f.state = "WaitForMem" /\ ~((accepted \/ f.cmd_was_accepted) /\ granted.valid)
       /\ g = [f EXCEPT !.cmd_was_accepted = accepted \/ f.cmd_was_accepted,
                        !.to_mbg = IF accepted THEN [f.to_mbg EXCEPT !.req = FALSE] ELSE f.to_mbg]
    \/ /\ f.state = "WaitForMem" /\ (accepted \/ f.cmd_was_accepted) /\ granted.valid
       /\ g = [state |-> "Idle", cmd_was_accepted |-> FALSE,
               to_mbg |-> IF accepted THEN [f.to_mbg EXCEPT !.req = FALSE] ELSE f.to_mbg,
               out |-> granted]

\* One edge of the way to memory, with request line R[p] at port p.
AccessStep(R) ==
    /\ Clock(R["ReadInstr"], R["ReadData"], R["WriteData"])
    /\ Serve \/ NotYet
    /\ \A p \in Port : R[p] \in ClientRequest(p)

LEMMA PortIs == /\ Port = {"ReadInstr", "ReadData", "WriteData"}
                /\ Mbg!ReqType = Port \cup {"None"} /\ "None" \notin Port
                /\ FifoOf("ReadInstr") = instr_fifo /\ FifoOf("ReadInstr")' = instr_fifo'
                /\ FifoOf("ReadData") = read_fifo /\ FifoOf("ReadData")' = read_fifo'
                /\ FifoOf("WriteData") = write_fifo /\ FifoOf("WriteData")' = write_fifo'
  BY DEF Port, Mbg!Port, Mbg!ReqType, FifoOf

LEMMA FifosClock ==
    ASSUME NEW R, AccessStep(R), NEW p \in Port
    PROVE  FifoClock(FifoOf(p), FifoOf(p)', R[p], cmd_accepted = p, AnswerTo(p))
<1>1. CASE p = "ReadInstr"
  <2>1. InstrFifo!Clock(R[p], cmd_accepted = p, AnswerTo(p))
    BY <1>1 DEF AccessStep, Clock
  <2>2. QED
    BY <1>1, <2>1, PortIs
       DEF FifoClock, InstrFifo!Clock, InstrFifo!IdleNoRequest, InstrFifo!IdleRequest,
           InstrFifo!WaitMore, InstrFifo!Grant, InstrFifo!Accepted, InstrFifo!ToMbg,
           InstrFifo!NoReq, InstrFifo!NotValid, NoReq, NotValid
<1>2. CASE p = "ReadData"
  <2>1. ReadFifo!Clock(R[p], cmd_accepted = p, AnswerTo(p))
    BY <1>2 DEF AccessStep, Clock
  <2>2. QED
    BY <1>2, <2>1, PortIs
       DEF FifoClock, ReadFifo!Clock, ReadFifo!IdleNoRequest, ReadFifo!IdleRequest,
           ReadFifo!WaitMore, ReadFifo!Grant, ReadFifo!Accepted, ReadFifo!ToMbg,
           ReadFifo!NoReq, ReadFifo!NotValid, NoReq, NotValid
<1>3. CASE p = "WriteData"
  <2>1. WriteFifo!Clock(R[p], cmd_accepted = p, AnswerTo(p))
    BY <1>3 DEF AccessStep, Clock
  <2>2. QED
    BY <1>3, <2>1, PortIs
       DEF FifoClock, WriteFifo!Clock, WriteFifo!IdleNoRequest, WriteFifo!IdleRequest,
           WriteFifo!WaitMore, WriteFifo!Grant, WriteFifo!Accepted, WriteFifo!ToMbg,
           WriteFifo!NoReq, WriteFifo!NotValid, NoReq, NotValid
<1>4. QED
  BY <1>1, <1>2, <1>3, PortIs

\* Fields of what FIFOs hold.
LEMMA HeldFields ==
    ASSUME NEW p \in Port, NEW r \in HeldRequest(p)
    PROVE  /\ r.req \in BOOLEAN /\ r.addr \in Addr
           /\ p = "WriteData" => r.data \in Data
           /\ [r EXCEPT !.req = FALSE] \in HeldRequest(p)
           /\ [r EXCEPT !.req = FALSE].req = FALSE
           /\ [r EXCEPT !.req = FALSE].addr = r.addr
           /\ p = "WriteData" => [r EXCEPT !.req = FALSE].data = r.data
<1>1. CASE p = "WriteData"
  <2>1. r \in [req : BOOLEAN, addr : Addr, data : Data]
    BY <1>1 DEF HeldRequest
  <2>2. QED
    BY <2>1, <1>1 DEF HeldRequest
<1>2. CASE p # "WriteData"
  <2>1. r \in [req : BOOLEAN, addr : Addr]
    BY <1>2 DEF HeldRequest
  <2>2. QED
    BY <2>1, <1>2 DEF HeldRequest
<1>3. QED
  BY <1>1, <1>2

LEMMA ClientRequestIsHeld ==
    ASSUME NEW p \in Port, NEW r \in ClientRequest(p)
    PROVE  /\ r.req \in BOOLEAN
           /\ r.req => r \in HeldRequest(p)
           /\ ~r.req => r = NoReq
<1>1. CASE r = NoReq
  BY <1>1 DEF NoReq
<1>2. CASE p = "WriteData" /\ r \in [req : {TRUE}, addr : Addr, data : Data]
  BY <1>2 DEF HeldRequest
<1>3. CASE p # "WriteData" /\ r \in [req : {TRUE}, addr : Addr]
  BY <1>3 DEF HeldRequest
<1>4. QED
  BY <1>1, <1>2, <1>3 DEF ClientRequest, ReadReq, WriteReq

\* The guard tells port p exactly when the answer is its own.
LEMMA AnswerToIs ==
    ASSUME AccessTypeOK, NEW p \in Port
    PROVE  /\ AnswerTo(p) \in {NotValid} \cup FifoAnswer(p)
           /\ AnswerTo(p).valid <=> answer.port = p
           /\ AnswerTo(p).valid \in BOOLEAN
           /\ answer.port = p /\ p # "WriteData" => AnswerTo(p).data = answer.data
           /\ answer.port \in Port \cup {"None"}
<1>1. \/ answer = [port |-> "None"]
      \/ answer = [port |-> "WriteData"]
      \/ answer \in [port : {"ReadInstr", "ReadData"}, data : Data]
  BY DEF AccessTypeOK, Mbg!NoAnswer
<1>2. QED
  BY <1>1, PortIs DEF AnswerTo, NotValid, WriteAnswer, FifoAnswer

-----------------------------------------------------------------------------
(* What an edge does to a FIFO *)

\* The request of port p keeps its address and data.
SameRequest(p) ==
    /\ FifoOf(p)'.to_mbg \in HeldRequest(p)
    /\ FifoOf(p)'.to_mbg.addr = FifoOf(p).to_mbg.addr
    /\ p = "WriteData" => FifoOf(p)'.to_mbg.data = FifoOf(p).to_mbg.data

LEMMA FifoMoves ==
    ASSUME AccessTypeOK, FifosHoldRequests, AcceptedOnce,
           NEW R, AccessStep(R), NEW p \in Port
    PROVE  /\ FifoOf(p)' \in [state : {"Idle", "WaitForMem"}, cmd_was_accepted : BOOLEAN,
                              to_mbg : {NoReq} \cup HeldRequest(p),
                              out : {NotValid} \cup FifoAnswer(p)]
           /\ ~Waits(p) /\ ~R[p].req =>
                 /\ FifoOf(p)'.state = "Idle" /\ FifoOf(p)'.cmd_was_accepted = FALSE
                 /\ FifoOf(p)'.to_mbg = NoReq /\ FifoOf(p)'.out = NotValid
           /\ ~Waits(p) /\ R[p].req =>
                 /\ FifoOf(p)'.state = "WaitForMem" /\ FifoOf(p)'.cmd_was_accepted = FALSE
                 /\ FifoOf(p)'.to_mbg = R[p] /\ FifoOf(p)'.out = NotValid
           /\ Waits(p) /\ answer.port # p =>
                 /\ FifoOf(p)'.state = "WaitForMem" /\ FifoOf(p)'.out = NotValid
                 /\ FifoOf(p)'.cmd_was_accepted <=> IsAccepted(p)
                 /\ FifoOf(p)'.to_mbg.req <=> ~IsAccepted(p)
                 /\ SameRequest(p)
           /\ answer.port = p =>
                 /\ Waits(p) /\ IsAccepted(p)
                 /\ FifoOf(p)'.state = "Idle" /\ FifoOf(p)'.cmd_was_accepted = FALSE
                 /\ FifoOf(p)'.to_mbg.req = FALSE
                 /\ FifoOf(p)'.out = AnswerTo(p)
                 /\ SameRequest(p)
<1>1. PICK f : f = FifoOf(p)
  OBVIOUS
<1>2. PICK g : g = FifoOf(p)'
  OBVIOUS
<1>3. PICK acc \in BOOLEAN : acc = (cmd_accepted = p)
  OBVIOUS
<1>4. PICK ans : ans = AnswerTo(p)
  OBVIOUS
<1>5. FifoClock(f, g, R[p], acc, ans)
  BY <1>1, <1>2, <1>3, <1>4, FifosClock
<1>6. f \in [state : {"Idle", "WaitForMem"}, cmd_was_accepted : BOOLEAN,
             to_mbg : {NoReq} \cup HeldRequest(p), out : {NotValid} \cup FifoAnswer(p)]
  BY <1>1 DEF AccessTypeOK, Mbg!NoReq, NoReq
<1>7. /\ f.to_mbg.req <=> f.state = "WaitForMem" /\ ~f.cmd_was_accepted
      /\ f.cmd_was_accepted => f.state = "WaitForMem"
      /\ f.state = "WaitForMem" => f.out = NotValid /\ f.to_mbg \in HeldRequest(p)
  BY <1>1 DEF FifosHoldRequests, Waits, Out
<1>8. IsAccepted(p) <=> f.state = "WaitForMem" /\ (f.cmd_was_accepted \/ acc)
  BY <1>1, <1>3 DEF IsAccepted, Waits
<1>9. /\ ans \in {NotValid} \cup FifoAnswer(p) /\ ans.valid \in BOOLEAN
      /\ ans.valid <=> answer.port = p
      /\ answer.port = p => IsAccepted(p)
  BY <1>4, AnswerToIs DEF AcceptedOnce
<1>10. R[p] \in ClientRequest(p)
  BY DEF AccessStep
<1>11. DEFINE m == IF acc THEN [f.to_mbg EXCEPT !.req = FALSE] ELSE f.to_mbg
<1>12. CASE f.state = "Idle" /\ ~R[p].req
  <2>1. g = [f EXCEPT !.to_mbg = NoReq, !.out = NotValid]
    BY <1>5, <1>12 DEF FifoClock
  <2>2. QED
    BY <1>1, <1>2, <1>6, <1>7, <1>8, <1>9, <1>12, <2>1 DEF Waits
<1>13. CASE f.state = "Idle" /\ R[p].req
  <2>1. g = [state |-> "WaitForMem", cmd_was_accepted |-> FALSE,
             to_mbg |-> R[p], out |-> NotValid]
    BY <1>5, <1>13 DEF FifoClock
  <2>2. R[p] \in HeldRequest(p)
    BY <1>10, <1>13, ClientRequestIsHeld
  <2>3. QED
    BY <1>1, <1>2, <1>8, <1>9, <1>13, <2>1, <2>2 DEF Waits
<1>14. ASSUME f.state = "WaitForMem"
       PROVE  /\ m \in HeldRequest(p) /\ m.addr = f.to_mbg.addr
              /\ p = "WriteData" => m.data = f.to_mbg.data
              /\ m.req <=> ~IsAccepted(p)
  BY <1>7, <1>8, <1>14, <1>3, HeldFields
<1>15. CASE f.state = "WaitForMem" /\ answer.port # p
  <2>1. g = [f EXCEPT !.cmd_was_accepted = acc \/ f.cmd_was_accepted, !.to_mbg = m]
    BY <1>5, <1>9, <1>15 DEF FifoClock
  <2> HIDE DEF m
  <2>2. m \in HeldRequest(p) /\ f.out = NotValid
    BY <1>7, <1>14, <1>15
  <2>3. g = [state |-> "WaitForMem", cmd_was_accepted |-> acc \/ f.cmd_was_accepted,
             to_mbg |-> m, out |-> NotValid]
    BY <1>6, <1>15, <2>1, <2>2
  <2>4. (acc \/ f.cmd_was_accepted) \in BOOLEAN
    BY <1>6
  <2>5. /\ g.state = "WaitForMem" /\ g.out = NotValid /\ g.to_mbg = m
        /\ g.cmd_was_accepted <=> IsAccepted(p)
    BY <1>8, <1>15, <2>3
  <2>6. SameRequest(p)
    BY <1>1, <1>2, <1>14, <1>15, <2>5 DEF SameRequest
  <2>7. g \in [state : {"Idle", "WaitForMem"}, cmd_was_accepted : BOOLEAN,
               to_mbg : {NoReq} \cup HeldRequest(p), out : {NotValid} \cup FifoAnswer(p)]
    BY <2>2, <2>3, <2>4
  <2>8. Waits(p)
    BY <1>1, <1>15 DEF Waits
  <2>9. QED
    BY <1>2, <1>14, <1>15, <2>5, <2>6, <2>7, <2>8
<1>16. CASE f.state = "WaitForMem" /\ answer.port = p
  <2>1. g = [state |-> "Idle", cmd_was_accepted |-> FALSE, to_mbg |-> m, out |-> ans]
    BY <1>5, <1>8, <1>9, <1>16 DEF FifoClock
  <2> HIDE DEF m
  <2>2. QED
    BY <1>1, <1>2, <1>4, <1>7, <1>8, <1>9, <1>14, <1>16, <2>1 DEF Waits, SameRequest
<1>17. QED
  BY <1>1, <1>6, <1>8, <1>9, <1>12, <1>13, <1>15, <1>16

-----------------------------------------------------------------------------
(* What an edge does to the guard and to memory *)

GuardStalls ==
    /\ UNCHANGED <<stage_0_to_1, stage_1_to_2>>
    /\ cmd_accepted' = "None" /\ answer' = [port |-> "None"] /\ mem_access' = NoReq

\* The guard accepts port q, or nothing.
GuardFlows(q) ==
    /\ stage_1_to_2' = stage_0_to_1 /\ stage_0_to_1' = q /\ cmd_accepted' = q
    /\ q = "None" => mem_access' = NoReq
    /\ q # "None" => Waits(q) /\ ~IsAccepted(q) /\ mem_access' = BusAccess(q)
    /\ answer' = IF stage_1_to_2 \in {"None", "WriteData"} THEN [port |-> stage_1_to_2]
                 ELSE [port |-> stage_1_to_2, data |-> mem_out.data]

LEMMA GuardMoves ==
    ASSUME AccessInv, NEW R, AccessStep(R)
    PROVE  \/ Mbg!Stall(mem_out) /\ GuardStalls
           \/ ~Mbg!Stall(mem_out) /\ \E q \in Port \cup {"None"} : GuardFlows(q)
<1>1. Mbg!Clock(instr_fifo.to_mbg, read_fifo.to_mbg, write_fifo.to_mbg, mem_out)
  BY DEF AccessStep, Clock
<1>2. CASE Mbg!HoldStages(mem_out)
  BY <1>2 DEF Mbg!HoldStages, Mbg!stop_mem_access, Mbg!NoReq, Mbg!NoAnswer, NoReq, GuardStalls
<1>3. CASE Mbg!Flow(instr_fifo.to_mbg, read_fifo.to_mbg, write_fifo.to_mbg, mem_out)
  <2>1. /\ ~Mbg!Stall(mem_out) /\ stage_1_to_2' = stage_0_to_1 /\ Mbg!Answer(mem_out)
        /\ \/ Mbg!ServiceReadInstr(instr_fifo.to_mbg)
           \/ Mbg!ServiceReadData(instr_fifo.to_mbg, read_fifo.to_mbg)
           \/ Mbg!ServiceWriteData(instr_fifo.to_mbg, read_fifo.to_mbg, write_fifo.to_mbg)
           \/ Mbg!ServiceNothing(instr_fifo.to_mbg, read_fifo.to_mbg, write_fifo.to_mbg)
    BY <1>3 DEF Mbg!Flow, Mbg!Advance
  <2>2. answer' = IF stage_1_to_2 \in {"None", "WriteData"} THEN [port |-> stage_1_to_2]
                  ELSE [port |-> stage_1_to_2, data |-> mem_out.data]
    BY <2>1 DEF Mbg!Answer, Mbg!NoAnswer
  <2>3. ASSUME NEW q \in Port, Mbg!Wants(q, FifoOf(q).to_mbg)
        PROVE  Waits(q) /\ ~IsAccepted(q)
    BY <2>3 DEF Mbg!Wants, AccessInv, FifosHoldRequests, IsAccepted
  <2>4. CASE Mbg!ServiceReadInstr(instr_fifo.to_mbg)
    <3>1. GuardFlows("ReadInstr")
      BY <2>1, <2>2, <2>3, <2>4, PortIs
         DEF Mbg!ServiceReadInstr, Mbg!Accept, Mbg!prep_mem_read, BusAccess, GuardFlows
    <3>2. QED
      BY <2>1, <3>1, PortIs
  <2>5. CASE Mbg!ServiceReadData(instr_fifo.to_mbg, read_fifo.to_mbg)
    <3>1. GuardFlows("ReadData")
      BY <2>1, <2>2, <2>3, <2>5, PortIs
         DEF Mbg!ServiceReadData, Mbg!Accept, Mbg!prep_mem_read, BusAccess, GuardFlows
    <3>2. QED
      BY <2>1, <3>1, PortIs
  <2>6. CASE Mbg!ServiceWriteData(instr_fifo.to_mbg, read_fifo.to_mbg, write_fifo.to_mbg)
    <3>1. GuardFlows("WriteData")
      BY <2>1, <2>2, <2>3, <2>6, PortIs
         DEF Mbg!ServiceWriteData, Mbg!Accept, Mbg!prep_mem_write, BusAccess, GuardFlows
    <3>2. QED
      BY <2>1, <3>1, PortIs
  <2>7. CASE Mbg!ServiceNothing(instr_fifo.to_mbg, read_fifo.to_mbg, write_fifo.to_mbg)
    <3>1. GuardFlows("None")
      BY <2>1, <2>2, <2>7
         DEF Mbg!ServiceNothing, Mbg!Accept, Mbg!stop_mem_access, Mbg!NoReq, NoReq, GuardFlows
    <3>2. QED
      BY <2>1, <3>1
  <2>8. QED
    BY <2>1, <2>4, <2>5, <2>6, <2>7
<1>4. QED
  BY <1>1, <1>2, <1>3 DEF Mbg!Clock, Mbg!HoldStages

\* The sequences of up to two accesses that occur.
LEMMA ShortSeqs ==
    ASSUME NEW a, NEW b
    PROVE  /\ <<>> \o <<>> = <<>> /\ <<a>> \o <<>> = <<a>>
           /\ <<>> \o <<b>> = <<b>> /\ <<a>> \o <<b>> = <<a, b>>
           /\ Append(<<>>, b) = <<b>> /\ Append(<<a>>, b) = <<a, b>>
           /\ Head(<<a>>) = a /\ Head(<<a, b>>) = a
           /\ Tail(<<a>>) = <<>> /\ Tail(<<a, b>>) = <<b>>
<1>1. /\ <<>> \o <<>> = <<>> /\ <<a>> \o <<>> = <<a>> /\ <<>> \o <<b>> = <<b>>
  OBVIOUS
<1>2. \A s \in Seq({a, b}) : Len(s) = 2 /\ s[1] = a /\ s[2] = b => s = <<a, b>>
  <2>1. <<a, b>> \in Seq({a, b}) /\ Len(<<a, b>>) = 2 /\ 1 .. 2 = {1, 2}
    OBVIOUS
  <2>2. QED
    BY <2>1, SeqEqual
<1>3. <<a>> \o <<b>> = <<a, b>> /\ Append(<<a>>, b) = <<a, b>> /\ Append(<<>>, b) = <<b>>
  <2>1. <<a>> \o <<b>> = <<a, b>>
    <3>1. <<a>> \o <<b>> \in Seq({a, b})
      OBVIOUS
    <3>2. Len(<<a>> \o <<b>>) = 2 /\ (<<a>> \o <<b>>)[1] = a /\ (<<a>> \o <<b>>)[2] = b
      OBVIOUS
    <3>3. QED
      BY <1>2, <3>1, <3>2
  <2>2. Append(<<a>>, b) = <<a, b>>
    <3>1. Append(<<a>>, b) \in Seq({a, b})
      OBVIOUS
    <3>2. Len(Append(<<a>>, b)) = 2 /\ Append(<<a>>, b)[1] = a /\ Append(<<a>>, b)[2] = b
      OBVIOUS
    <3>3. QED
      BY <1>2, <3>1, <3>2
  <2>3. Append(<<>>, b) = <<b>>
    <3>1. Append(<<>>, b) \in Seq({b})
      OBVIOUS
    <3>2. Len(Append(<<>>, b)) = 1 /\ Append(<<>>, b)[1] = b
      OBVIOUS
    <3>3. QED
      BY <3>1, <3>2
  <2>4. QED
    BY <2>1, <2>2, <2>3
<1>4. Head(<<a>>) = a /\ Head(<<a, b>>) = a /\ Tail(<<a>>) = <<>>
  OBVIOUS
<1>5. Tail(<<a, b>>) = <<b>>
  OBVIOUS
<1>6. QED
  BY <1>1, <1>3, <1>4, <1>5

\* What memory has when it has sampled the bus.
LEMMA SampledIs ==
    ASSUME AccessInv
    PROVE  Sampled = AccessIf(Mbg!Stall(mem_out), stage_1_to_2)
                         \o AccessIf(stage_0_to_1 # "None", stage_0_to_1)
<1> DEFINE x == AccessIf(Mbg!Stall(mem_out), stage_1_to_2)
           c == AccessIf(stage_0_to_1 # "None" /\ cmd_accepted = "None", stage_0_to_1)
<1>1. x = <<>> \/ x = <<BusAccess(stage_1_to_2)>>
  BY DEF AccessIf
<1>2. /\ mem_queue = x \o c
      /\ mem_access = IF cmd_accepted = "None" THEN NoReq ELSE BusAccess(cmd_accepted)
      /\ cmd_accepted # "None" => stage_0_to_1 = cmd_accepted
  BY DEF AccessInv, StagesMatchMemory, AcceptedOnce, Mbg!NoReq, NoReq
<1>3. mem_access.req <=> cmd_accepted # "None"
  BY <1>2 DEF BusAccess, NoReq
<1>4. CASE cmd_accepted = "None"
  BY <1>2, <1>3, <1>4 DEF Sampled, AccessIf
<1>5. CASE cmd_accepted # "None"
  <2>1. Sampled = Append(x \o <<>>, BusAccess(stage_0_to_1))
    BY <1>2, <1>3, <1>5 DEF Sampled, AccessIf
  <2>2. AccessIf(stage_0_to_1 # "None", stage_0_to_1) = <<BusAccess(stage_0_to_1)>>
    BY <1>2, <1>5 DEF AccessIf
  <2>3. CASE x = <<>>
    <3>1. Sampled = <<BusAccess(stage_0_to_1)>>
      BY <2>1, <2>3, ShortSeqs
    <3>2. QED
      BY <2>2, <2>3, <3>1, ShortSeqs
  <2>4. CASE x = <<BusAccess(stage_1_to_2)>>
    <3>1. Sampled = <<BusAccess(stage_1_to_2), BusAccess(stage_0_to_1)>>
      <4>1. x \o <<>> = <<BusAccess(stage_1_to_2)>>
        BY <2>4, ShortSeqs
      <4>2. QED
        BY <2>1, <4>1, ShortSeqs
    <3>2. <<BusAccess(stage_1_to_2)>> \o <<BusAccess(stage_0_to_1)>>
              = <<BusAccess(stage_1_to_2), BusAccess(stage_0_to_1)>>
      BY ShortSeqs
    <3>3. AccessIf(Mbg!Stall(mem_out), stage_1_to_2) = <<BusAccess(stage_1_to_2)>>
      BY <2>4
    <3> HIDE DEF x
    <3>4. QED
      BY <2>2, <3>1, <3>2, <3>3
  <2>5. QED
    BY <1>1, <2>3, <2>4
<1>6. QED
  BY <1>4, <1>5

\* The request that memory serves at an edge: the oldest of those in the stages.
ServedPort == IF Mbg!Stall(mem_out) THEN stage_1_to_2 ELSE stage_0_to_1

LEMMA MemoryServes ==
    ASSUME AccessInv, NEW R, AccessStep(R), Serve
    PROVE  /\ ServedPort \in Port /\ stage_1_to_2' = ServedPort
           /\ mem_queue' = AccessIf(Mbg!Stall(mem_out) /\ stage_0_to_1 # "None", stage_0_to_1)
           /\ mem_out' = [valid |-> TRUE, data |-> main_mem[FifoOf(ServedPort).to_mbg.addr]]
           /\ main_mem' = IF ServedPort = "WriteData"
                          THEN [main_mem EXCEPT ![FifoOf(ServedPort).to_mbg.addr]
                                                   = FifoOf(ServedPort).to_mbg.data]
                          ELSE main_mem
<1>1. Sampled = AccessIf(Mbg!Stall(mem_out), stage_1_to_2)
                    \o AccessIf(stage_0_to_1 # "None", stage_0_to_1)
  BY SampledIs
<1>2. /\ stage_0_to_1 \in Port \cup {"None"} /\ stage_1_to_2 \in Port \cup {"None"}
      /\ Mbg!Stall(mem_out) => stage_1_to_2 # "None"
  BY PortIs DEF AccessInv, AccessTypeOK, Mbg!Stall
<1>3. /\ Head(Sampled) = BusAccess(ServedPort) /\ ServedPort \in Port
      /\ Tail(Sampled) = AccessIf(Mbg!Stall(mem_out) /\ stage_0_to_1 # "None", stage_0_to_1)
  <2>1. CASE Mbg!Stall(mem_out) /\ stage_0_to_1 # "None"
    <3>1. Sampled = <<BusAccess(stage_1_to_2), BusAccess(stage_0_to_1)>>
      BY <1>1, <2>1, ShortSeqs DEF AccessIf
    <3>2. QED
      BY <1>2, <2>1, <3>1 DEF AccessIf, ServedPort
  <2>2. CASE Mbg!Stall(mem_out) /\ stage_0_to_1 = "None"
    <3>1. Sampled = <<BusAccess(stage_1_to_2)>>
      BY <1>1, <2>2 DEF AccessIf
    <3>2. QED
      BY <1>2, <2>2, <3>1 DEF AccessIf, ServedPort
  <2>3. CASE ~Mbg!Stall(mem_out)
    <3>1. stage_0_to_1 # "None"
      BY <1>1, <2>3 DEF AccessIf, Serve
    <3>2. Sampled = <<BusAccess(stage_0_to_1)>>
      BY <1>1, <2>3, <3>1 DEF AccessIf
    <3>3. QED
      BY <1>2, <2>3, <3>1, <3>2 DEF AccessIf, ServedPort
  <2>4. QED
    BY <2>1, <2>2, <2>3
<1>4. stage_1_to_2' = ServedPort
  BY GuardMoves DEF GuardStalls, GuardFlows, ServedPort
<1>5. /\ BusAccess(ServedPort).addr = FifoOf(ServedPort).to_mbg.addr
      /\ BusAccess(ServedPort).mem_acc_type = "Write" <=> ServedPort = "WriteData"
      /\ ServedPort = "WriteData" =>
             BusAccess(ServedPort).data = FifoOf(ServedPort).to_mbg.data
  BY DEF BusAccess
<1>6. QED
  BY <1>3, <1>4, <1>5 DEF Serve

LEMMA MemoryRests ==
    ASSUME AccessInv, NotYet
    PROVE  /\ mem_queue' = AccessIf(Mbg!Stall(mem_out), stage_1_to_2)
                               \o AccessIf(stage_0_to_1 # "None", stage_0_to_1)
           /\ mem_out' = NotValid /\ main_mem' = main_mem
  BY SampledIs DEF NotYet

-----------------------------------------------------------------------------
(* The invariant of the way to memory, whatever its clients ask *)

LEMMA AccessTypesStep ==
    ASSUME AccessInv, NEW R, AccessStep(R)
    PROVE  AccessTypeOK'
<1>1. AccessTypeOK /\ FifosHoldRequests /\ AcceptedOnce /\ StagesMatchMemory
  BY DEF AccessInv
<1>2. \A p \in Port :
          FifoOf(p)' \in [state : {"Idle", "WaitForMem"}, cmd_was_accepted : BOOLEAN,
                          to_mbg : {Mbg!NoReq} \cup HeldRequest(p),
                          out : {NotValid} \cup FifoAnswer(p)]
  BY <1>1, FifoMoves DEF NoReq, Mbg!NoReq
<1>3. {stage_0_to_1', stage_1_to_2', cmd_accepted'} \subseteq Mbg!ReqType
  BY <1>1, GuardMoves, PortIs DEF AccessTypeOK, GuardStalls, GuardFlows
<1>4. answer' \in {[port |-> "None"], [port |-> "WriteData"]}
                      \cup [port : {"ReadInstr", "ReadData"}, data : Data]
  <2>1. CASE GuardStalls
    BY <2>1 DEF GuardStalls
  <2>2. CASE ~Mbg!Stall(mem_out) /\ \E q \in Port \cup {"None"} : GuardFlows(q)
    <3>1. answer' = IF stage_1_to_2 \in {"None", "WriteData"} THEN [port |-> stage_1_to_2]
                    ELSE [port |-> stage_1_to_2, data |-> mem_out.data]
      BY <2>2 DEF GuardFlows
    <3>2. stage_1_to_2 \in {"None", "ReadInstr", "ReadData", "WriteData"}
      BY <1>1, PortIs DEF AccessTypeOK
    <3>3. stage_1_to_2 # "None" => mem_out.data \in Data
      <4>1. stage_1_to_2 # "None" => mem_out.valid
        BY <2>2 DEF Mbg!Stall
      <4>2. mem_out.valid = FALSE \/ mem_out.data \in Data
        <5>1. CASE mem_out = NotValid
          BY <5>1 DEF NotValid
        <5>2. CASE mem_out \in [valid : {TRUE}, data : Data]
          BY <5>2
        <5>3. QED
          BY <1>1, <5>1, <5>2 DEF AccessTypeOK
      <4>3. QED
        BY <4>1, <4>2
    <3>4. CASE stage_1_to_2 \in {"None", "WriteData"}
      BY <3>1, <3>4
    <3>5. CASE stage_1_to_2 \in {"ReadInstr", "ReadData"}
      BY <3>1, <3>3, <3>5
    <3>6. QED
      BY <3>2, <3>4, <3>5
  <2>3. QED
    BY <2>1, <2>2, GuardMoves
<1>5. /\ mem_out' \in {NotValid} \cup [valid : {TRUE}, data : Data]
      /\ main_mem' \in [Addr -> Data]
  <2>1. CASE Serve
    <3>1. PICK q \in Port : q = ServedPort
      BY <2>1, MemoryServes
    <3>2. PICK r \in HeldRequest(q) : r = FifoOf(q).to_mbg
      <4>1. q \in {stage_0_to_1, stage_1_to_2}
        BY <3>1 DEF ServedPort
      <4>2. QED
        BY <1>1, <4>1 DEF AcceptedOnce, IsAccepted, FifosHoldRequests
    <3>3. /\ r.addr \in Addr /\ (q = "WriteData" => r.data \in Data)
          /\ main_mem \in [Addr -> Data]
      BY <1>1, HeldFields DEF AccessTypeOK
    <3>4. /\ mem_out' = [valid |-> TRUE, data |-> main_mem[r.addr]]
          /\ main_mem' = IF q = "WriteData" THEN [main_mem EXCEPT ![r.addr] = r.data]
                         ELSE main_mem
      BY <2>1, <3>1, <3>2, MemoryServes
    <3>5. QED
      BY <3>3, <3>4
  <2>2. CASE NotYet
    BY <1>1, <2>2, MemoryRests DEF AccessTypeOK
  <2>3. QED
    BY <2>1, <2>2 DEF AccessStep
<1>6. QED
  BY <1>2, <1>3, <1>4, <1>5 DEF AccessTypeOK, Mbg!NoAnswer

LEMMA FifosHoldStep ==
    ASSUME AccessInv, NEW R, AccessStep(R)
    PROVE  FifosHoldRequests'
<1> SUFFICES ASSUME NEW p \in Port
             PROVE  /\ FifoOf(p)'.to_mbg.req <=> Waits(p)' /\ ~FifoOf(p)'.cmd_was_accepted
                    /\ FifoOf(p)'.cmd_was_accepted => Waits(p)'
                    /\ Waits(p)' => Out(p)' = NotValid
                    /\ Waits(p)' \/ Out(p)'.valid => FifoOf(p)'.to_mbg \in HeldRequest(p)
  BY PortIs DEF FifosHoldRequests, Port, Mbg!Port
<1>1. /\ AccessTypeOK /\ FifosHoldRequests /\ AcceptedOnce
      /\ Waits(p)' <=> FifoOf(p)'.state = "WaitForMem"
      /\ Out(p)' = FifoOf(p)'.out
      /\ R[p] \in ClientRequest(p)
      /\ ~NotValid.valid /\ ~NoReq.req
  BY DEF AccessInv, Waits, Out, NotValid, NoReq, AccessStep
<1>2. CASE ~Waits(p) /\ ~R[p].req
  <2>1. /\ FifoOf(p)'.state = "Idle" /\ FifoOf(p)'.cmd_was_accepted = FALSE
        /\ FifoOf(p)'.to_mbg = NoReq /\ FifoOf(p)'.out = NotValid
    BY <1>1, <1>2, FifoMoves
  <2>2. FifoOf(p)'.to_mbg.req = FALSE /\ Out(p)'.valid = FALSE
    BY <1>1, <2>1 DEF NoReq, NotValid
  <2>3. QED
    BY <1>1, <2>1, <2>2
<1>3. CASE ~Waits(p) /\ R[p].req
  BY <1>1, <1>3, FifoMoves, ClientRequestIsHeld
<1>4. CASE Waits(p) /\ answer.port # p
  BY <1>1, <1>4, FifoMoves DEF SameRequest
<1>5. CASE answer.port = p
  BY <1>1, <1>5, FifoMoves DEF SameRequest
<1>6. QED
  BY <1>2, <1>3, <1>4, <1>5

LEMMA AcceptedOnceStep ==
    ASSUME AccessInv, NEW R, AccessStep(R)
    PROVE  AcceptedOnce'
<1>1. AccessTypeOK /\ FifosHoldRequests /\ AcceptedOnce
  BY DEF AccessInv
<1>2. ASSUME NEW p \in Port
      PROVE  /\ Waits(p)' <=> FifoOf(p)'.state = "WaitForMem"
             /\ p \in {stage_0_to_1, stage_1_to_2} =>
                    Waits(p)' /\ FifoOf(p)'.cmd_was_accepted
             /\ p \notin {stage_0_to_1, stage_1_to_2} => ~FifoOf(p)'.cmd_was_accepted
             /\ Waits(p) /\ ~IsAccepted(p) => Waits(p)'
  <2>1. p \in {stage_0_to_1, stage_1_to_2} => IsAccepted(p) /\ answer.port # p
    BY <1>1, PortIs DEF AcceptedOnce
  <2>2. IsAccepted(p) => Waits(p) /\ p \in {stage_0_to_1, stage_1_to_2, answer.port}
    BY <1>1 DEF AcceptedOnce, IsAccepted
  <2>3. Waits(p)' <=> FifoOf(p)'.state = "WaitForMem"
    BY DEF Waits
  <2>4. answer.port = p => IsAccepted(p)
    BY <1>1 DEF AcceptedOnce
  <2>5. QED
    BY <1>1, <2>1, <2>2, <2>3, <2>4, FifoMoves
<1>3. CASE GuardStalls
  <2>1. /\ stage_0_to_1' = stage_0_to_1 /\ stage_1_to_2' = stage_1_to_2
        /\ cmd_accepted' = "None" /\ answer'.port = "None"
    BY <1>3 DEF GuardStalls
  <2>2. \A p \in Port :
            p \in {stage_0_to_1', stage_1_to_2', answer'.port} <=> IsAccepted(p)'
    BY <1>2, <2>1, PortIs DEF IsAccepted
  <2>3. QED
    BY <1>1, <2>1, <2>2, PortIs DEF AcceptedOnce, Port, Mbg!Port
<1>4. ASSUME NEW q \in Port \cup {"None"}, GuardFlows(q) PROVE AcceptedOnce'
  <2>1. /\ stage_0_to_1' = q /\ stage_1_to_2' = stage_0_to_1
        /\ cmd_accepted' = q /\ answer'.port = stage_1_to_2
        /\ q # "None" => Waits(q) /\ ~IsAccepted(q)
    BY <1>4 DEF GuardFlows
  <2>2. q # "None" => q \notin {stage_0_to_1, stage_1_to_2} /\ Waits(q)'
    BY <1>1, <1>2, <2>1 DEF AcceptedOnce
  <2>3. \A p \in Port :
            p \in {stage_0_to_1', stage_1_to_2', answer'.port} <=> IsAccepted(p)'
    BY <1>2, <2>1, <2>2, PortIs DEF IsAccepted
  <2>4. cmd_accepted' # "None" => ~FifoOf(q)'.cmd_was_accepted
    BY <1>2, <2>1, <2>2
  <2>5. QED
    BY <1>1, <2>1, <2>2, <2>3, <2>4 DEF AcceptedOnce, Port, Mbg!Port
<1>5. QED
  BY <1>3, <1>4, GuardMoves

\* The access a waiting port stands for stays as it is.
LEMMA BusAccessStays ==
    ASSUME AccessInv, NEW R, AccessStep(R), NEW p \in Port, Waits(p)
    PROVE  BusAccess(p)' = BusAccess(p)
<1>1. SameRequest(p)
  BY FifoMoves DEF AccessInv
<1>2. QED
  BY <1>1 DEF BusAccess, SameRequest

LEMMA StagesMatchStep ==
    ASSUME AccessInv, NEW R, AccessStep(R)
    PROVE  StagesMatchMemory'
<1>1. /\ AccessTypeOK /\ AcceptedOnce
      /\ stage_0_to_1 \in Port \cup {"None"} /\ stage_1_to_2 \in Port \cup {"None"}
  BY PortIs DEF AccessInv, AccessTypeOK
<1>2. \A p \in Port : p \in {stage_0_to_1, stage_1_to_2} => BusAccess(p)' = BusAccess(p)
  BY <1>1, BusAccessStays DEF AcceptedOnce, IsAccepted
<1>3. mem_access' = IF cmd_accepted' = "None" THEN NoReq ELSE BusAccess(cmd_accepted)'
  <2>1. CASE GuardStalls
    BY <2>1 DEF GuardStalls
  <2>2. ASSUME NEW q \in Port \cup {"None"}, GuardFlows(q)
        PROVE  mem_access' = IF cmd_accepted' = "None" THEN NoReq ELSE BusAccess(cmd_accepted)'
    <3>1. CASE q = "None"
      BY <2>2, <3>1 DEF GuardFlows
    <3>2. CASE q # "None"
      <4>1. mem_access' = BusAccess(q) /\ Waits(q) /\ cmd_accepted' = q /\ q \in Port
        BY <2>2, <3>2 DEF GuardFlows
      <4>2. BusAccess(q)' = BusAccess(q)
        BY <4>1, BusAccessStays
      <4>3. BusAccess(cmd_accepted)' = BusAccess(q)'
        BY <4>1 DEF BusAccess, FifoOf
      <4>4. QED
        BY <3>2, <4>1, <4>2, <4>3
    <3>3. QED
      BY <3>1, <3>2
  <2>3. QED
    BY <2>1, <2>2, GuardMoves
<1>4. /\ Mbg!Stall(mem_out) <=> stage_1_to_2 # "None" /\ ~mem_out.valid
      /\ Mbg!Stall(mem_out)' <=> stage_1_to_2' # "None" /\ ~mem_out'.valid
  BY DEF Mbg!Stall
<1>5. \/ /\ Mbg!Stall(mem_out) /\ stage_1_to_2' = stage_1_to_2
         /\ stage_0_to_1' = stage_0_to_1 /\ cmd_accepted' = "None"
      \/ /\ ~Mbg!Stall(mem_out) /\ stage_1_to_2' = stage_0_to_1
         /\ stage_0_to_1' = cmd_accepted'
  BY GuardMoves DEF GuardStalls, GuardFlows
<1>6. /\ \A p \in Port : stage_0_to_1' = p => BusAccess(stage_0_to_1)' = BusAccess(p)'
      /\ \A p \in Port : stage_1_to_2' = p => BusAccess(stage_1_to_2)' = BusAccess(p)'
  BY DEF BusAccess, FifoOf
<1>7. /\ Mbg!Stall(mem_out) => BusAccess(stage_1_to_2)' = BusAccess(stage_1_to_2)
      /\ Mbg!Stall(mem_out) /\ stage_0_to_1 # "None" =>
             BusAccess(stage_0_to_1)' = BusAccess(stage_0_to_1)
      /\ ~Mbg!Stall(mem_out) /\ stage_0_to_1 # "None" =>
             BusAccess(stage_1_to_2)' = BusAccess(stage_0_to_1)
  BY <1>1, <1>2, <1>4, <1>5, <1>6
<1> DEFINE x == IF Mbg!Stall(mem_out)' THEN <<BusAccess(stage_1_to_2)'>> ELSE <<>>
           y == IF stage_0_to_1' # "None" /\ cmd_accepted' = "None"
                THEN <<BusAccess(stage_0_to_1)'>> ELSE <<>>
<1>8. mem_queue' = x \o y /\ (mem_out'.valid => stage_1_to_2' # "None")
  <2>1. CASE Serve
    <3>1. /\ mem_out'.valid /\ stage_1_to_2' \in Port
          /\ mem_queue' = AccessIf(Mbg!Stall(mem_out) /\ stage_0_to_1 # "None", stage_0_to_1)
      BY <2>1, MemoryServes
    <3>2. mem_queue' = y
      BY <1>5, <1>7, <3>1 DEF AccessIf
    <3>3. x = <<>>
      BY <1>4, <3>1
    <3>4. y = <<>> \/ \E b : y = <<b>>
      OBVIOUS
    <3>5. <<>> \o y = y
      <4> HIDE DEF y
      <4>1. QED
        BY <3>4, ShortSeqs
    <3>6. QED
      BY <3>1, <3>2, <3>3, <3>5, PortIs
  <2>2. CASE NotYet
    <3>1. /\ ~mem_out'.valid
          /\ mem_queue' = AccessIf(Mbg!Stall(mem_out), stage_1_to_2)
                               \o AccessIf(stage_0_to_1 # "None", stage_0_to_1)
      BY <2>2, MemoryRests DEF NotValid
    <3>2. CASE Mbg!Stall(mem_out)
      <4>1. /\ x = AccessIf(Mbg!Stall(mem_out), stage_1_to_2)
            /\ y = AccessIf(stage_0_to_1 # "None", stage_0_to_1)
        BY <1>4, <1>5, <1>7, <3>1, <3>2 DEF AccessIf
      <4>2. QED
        BY <3>1, <4>1
    <3>3. CASE ~Mbg!Stall(mem_out)
      <4>1. /\ AccessIf(Mbg!Stall(mem_out), stage_1_to_2) = <<>> /\ y = <<>>
            /\ x = AccessIf(stage_0_to_1 # "None", stage_0_to_1)
        BY <1>4, <1>5, <1>7, <3>1, <3>3 DEF AccessIf
      <4>2. x = <<>> \/ \E b : x = <<b>>
        OBVIOUS
      <4>3. <<>> \o x = x \o <<>>
        <5> HIDE DEF x
        <5>1. QED
          BY <4>2, ShortSeqs
      <4>4. QED
        BY <3>1, <4>1, <4>3
    <3>4. QED
      BY <3>2, <3>3
  <2>3. QED
    BY <2>1, <2>2 DEF AccessStep
<1>9. QED
  BY <1>3, <1>8 DEF StagesMatchMemory, AccessIf, Mbg!NoReq, NoReq

\* A FIFO answers its client one edge after the guard has answered it.
LEMMA AccessStepOut ==
    ASSUME AccessInv, NEW R, AccessStep(R), NEW p \in Port
    PROVE  Out(p)'.valid <=> answer.port = p
<1>1. CASE answer.port = p
  <2>1. Out(p)' = AnswerTo(p)
    BY <1>1, FifoMoves DEF AccessInv, Out
  <2>2. QED
    BY <1>1, <2>1, AnswerToIs DEF AccessInv
<1>2. CASE answer.port # p
  <2>1. Out(p)' = NotValid
    BY <1>2, FifoMoves DEF AccessInv, Out
  <2>2. QED
    BY <1>2, <2>1 DEF NotValid
<1>3. QED
  BY <1>1, <1>2

LEMMA AccessStepKeepsInv ==
    ASSUME AccessInv, NEW R, AccessStep(R)
    PROVE  AccessInv'
<1>1. OneDataAnswerPerEdge'
  BY AccessStepOut, PortIs DEF OneDataAnswerPerEdge
<1>2. QED
  BY <1>1, AccessTypesStep, FifosHoldStep, AcceptedOnceStep, StagesMatchStep DEF AccessInv

LEMMA FifosInit ==
    ASSUME Init, NEW p \in Port
    PROVE  FifoOf(p) = [state |-> "Idle", cmd_was_accepted |-> FALSE,
                        to_mbg |-> NoReq, out |-> NotValid]
  BY PortIs DEF Init, InstrFifo!Init, ReadFifo!Init, WriteFifo!Init,
     InstrFifo!NoReq, ReadFifo!NoReq, WriteFifo!NoReq,
     InstrFifo!NotValid, ReadFifo!NotValid, WriteFifo!NotValid, NoReq, NotValid

LEMMA AccessInitHasInv ==
    ASSUME Init
    PROVE  AccessInv
<1>1. \A p \in Port : FifoOf(p) = [state |-> "Idle", cmd_was_accepted |-> FALSE,
                                   to_mbg |-> NoReq, out |-> NotValid]
  BY FifosInit
<1>2. /\ stage_0_to_1 = "None" /\ stage_1_to_2 = "None" /\ cmd_accepted = "None"
      /\ answer = [port |-> "None"] /\ mem_access = NoReq
      /\ main_mem \in [Addr -> Data] /\ mem_queue = <<>> /\ mem_out = NotValid
  BY DEF Init, Mbg!Init, Mbg!NoAnswer, Mbg!NoReq, NoReq
<1>3. AccessTypeOK
  <2>1. \A p \in Port :
            FifoOf(p) \in [state : {"Idle", "WaitForMem"}, cmd_was_accepted : BOOLEAN,
                           to_mbg : {Mbg!NoReq} \cup HeldRequest(p),
                           out : {NotValid} \cup FifoAnswer(p)]
    <3> SUFFICES ASSUME NEW p \in Port
                 PROVE  [state |-> "Idle", cmd_was_accepted |-> FALSE,
                         to_mbg |-> NoReq, out |-> NotValid]
                            \in [state : {"Idle", "WaitForMem"}, cmd_was_accepted : BOOLEAN,
                                 to_mbg : {Mbg!NoReq} \cup HeldRequest(p),
                                 out : {NotValid} \cup FifoAnswer(p)]
      BY <1>1
    <3>1. NoReq = Mbg!NoReq
      BY DEF Mbg!NoReq, NoReq
    <3>2. QED
      BY <3>1
  <2>2. {stage_0_to_1, stage_1_to_2, cmd_accepted} \subseteq Mbg!ReqType
    BY <1>2, PortIs
  <2>3. QED
    BY <1>2, <2>1, <2>2 DEF AccessTypeOK, Mbg!NoAnswer
<1>4. FifosHoldRequests /\ OneDataAnswerPerEdge
  BY <1>1, PortIs DEF FifosHoldRequests, OneDataAnswerPerEdge, Waits, Out, NoReq, NotValid
<1>5. AcceptedOnce
  BY <1>1, <1>2, PortIs DEF AcceptedOnce, IsAccepted, Waits
<1>6. StagesMatchMemory
  <2>1. ~Mbg!Stall(mem_out) /\ ~mem_out.valid
    BY <1>2 DEF Mbg!Stall, NotValid
  <2>2. QED
    BY <1>2, <2>1, ShortSeqs DEF StagesMatchMemory, AccessIf, Mbg!NoReq, NoReq
<1>7. QED
  BY <1>3, <1>4, <1>5, <1>6 DEF AccessInv

-----------------------------------------------------------------------------
(* The clients *)

Requests == [p \in Port |-> ReqOf(p)]

LEMMA ReqOfIs ==
    /\ ReqOf("ReadInstr") = instr_req /\ ReqOf("ReadInstr")' = instr_req'
    /\ ReqOf("ReadData") = read_req /\ ReqOf("ReadData")' = read_req'
    /\ ReqOf("WriteData") = write_req /\ ReqOf("WriteData")' = write_req'
  BY DEF ReqOf

LEMMA SysStepIsAccessStep ==
    ASSUME SysTypeOK, SysNext
    PROVE  AccessStep(Requests)
<1>1. Clock(instr_req, read_req, write_req) /\ (Serve \/ NotYet)
  BY DEF SysNext, EdgeServe, EdgeNotYet, Edge
<1>2. \A p \in Port : Requests[p] = ReqOf(p) /\ ReqOf(p) \in ClientRequest(p)
  BY PortIs, ReqOfIs DEF Requests, SysTypeOK, ClientRequest
<1>3. QED
  BY <1>1, <1>2, PortIs, ReqOfIs DEF AccessStep

LEMMA ClientsMove ==
    ASSUME SysTypeOK, Clients, NEW p \in Port
    PROVE  /\ ReqOf(p)' \in ClientRequest(p)
           /\ p \in waiting => ReqOf(p)' = NoReq
           /\ p \in waiting' <=> (p \in waiting /\ ~Out(p).valid) \/ ReqOf(p)'.req
           /\ waiting' \subseteq Port
  BY PortIs, ReqOfIs DEF Clients, MayAsk, ClientRequest, NoReq

LEMMA SysTypeStep ==
    ASSUME SysInv, SysNext
    PROVE  SysTypeOK'
<1>1. AccessInv' /\ Clients
  BY SysStepIsAccessStep, AccessStepKeepsInv DEF SysInv, SysNext, EdgeServe, EdgeNotYet, Edge
<1>2. waiting' \subseteq Port
  BY <1>1 DEF Clients
<1>3. /\ instr_req' \in {NoReq} \cup ReadReq /\ read_req' \in {NoReq} \cup ReadReq
      /\ write_req' \in {NoReq} \cup WriteReq
  BY <1>1 DEF Clients, MayAsk
<1>4. Port' = Port
  BY PortIs DEF Port, Mbg!Port
<1>5. QED
  BY <1>1, <1>2, <1>3, <1>4 DEF SysTypeOK, AccessInv, NoReq, ReadReq, WriteReq

LEMMA ClientsWaitStep ==
    ASSUME SysInv, SysNext
    PROVE  ClientsWait'
<1>1. SysTypeOK /\ AccessInv /\ ClientsWait /\ AccessStep(Requests) /\ Clients
  BY SysStepIsAccessStep DEF SysInv, SysNext, EdgeServe, EdgeNotYet, Edge
<1> SUFFICES ASSUME NEW p \in Port
             PROVE  /\ p \in waiting' <=> ReqOf(p)'.req \/ Waits(p)' \/ Out(p)'.valid
                    /\ ReqOf(p)'.req => ~Waits(p)' /\ ~Out(p)'.valid
  BY PortIs DEF ClientsWait, Port, Mbg!Port
<1>2. /\ p \in waiting <=> ReqOf(p).req \/ Waits(p) \/ Out(p).valid
      /\ ReqOf(p).req => ~Waits(p) /\ ~Out(p).valid
  BY <1>1 DEF ClientsWait
<1>3. /\ p \in waiting => ~ReqOf(p)'.req
      /\ p \in waiting' <=> (p \in waiting /\ ~Out(p).valid) \/ ReqOf(p)'.req
  BY <1>1, ClientsMove DEF NoReq
<1>4. Waits(p)' \/ Out(p)'.valid <=> ReqOf(p).req \/ Waits(p)
  <2>1. /\ AccessTypeOK /\ FifosHoldRequests /\ AcceptedOnce
        /\ Waits(p)' <=> FifoOf(p)'.state = "WaitForMem"
        /\ Out(p)' = FifoOf(p)'.out /\ ~NotValid.valid
        /\ Requests[p] = ReqOf(p)
    BY <1>1 DEF AccessInv, Waits, Out, NotValid, Requests
  <2>2. CASE answer.port = p
    <3>1. Waits(p) /\ FifoOf(p)'.out = AnswerTo(p)
      BY <1>1, <2>1, <2>2, FifoMoves
    <3>2. AnswerTo(p).valid
      BY <2>1, <2>2, AnswerToIs
    <3>3. QED
      BY <2>1, <3>1, <3>2
  <2>3. CASE answer.port # p /\ Waits(p)
    BY <1>1, <2>1, <2>3, FifoMoves
  <2>4. CASE ~Waits(p) /\ ReqOf(p).req
    <3>1. FifoOf(p)'.state = "WaitForMem"
      <4>1. ~Waits(p) /\ Requests[p].req
        BY <2>1, <2>4
      <4>2. QED
        BY <1>1, <2>1, <4>1, FifoMoves
    <3>2. QED
      BY <2>1, <2>4, <3>1
  <2>5. CASE answer.port # p /\ ~Waits(p) /\ ~ReqOf(p).req
    <3>1. FifoOf(p)'.state = "Idle" /\ FifoOf(p)'.out = NotValid
      <4>1. ~Waits(p) /\ ~Requests[p].req
        BY <2>1, <2>5
      <4>2. QED
        BY <1>1, <2>1, <4>1, FifoMoves
    <3>2. QED
      BY <2>1, <2>5, <3>1
  <2>6. QED
    BY <2>2, <2>3, <2>4, <2>5
<1>5. Waits(p) => ~Out(p).valid
  BY <1>1 DEF AccessInv, FifosHoldRequests, NotValid
<1>6. QED
  BY <1>2, <1>3, <1>4, <1>5

LEMMA SysNextKeepsInv == SysInv /\ SysNext => SysInv'
<1> SUFFICES ASSUME SysInv, SysNext PROVE SysInv'
  OBVIOUS
<1>1. AccessInv'
  BY SysStepIsAccessStep, AccessStepKeepsInv DEF SysInv
<1>2. QED
  BY <1>1, SysTypeStep, ClientsWaitStep DEF SysInv

LEMMA SysInitHasInv == SysInit => SysInv
<1> SUFFICES ASSUME SysInit PROVE SysInv
  OBVIOUS
<1>1. AccessInv
  BY AccessInitHasInv DEF SysInit
<1>2. SysTypeOK
  BY <1>1 DEF SysInit, SysTypeOK, AccessInv
<1>3. \A p \in Port : FifoOf(p).state = "Idle" /\ Out(p) = NotValid /\ ReqOf(p) = NoReq
  BY FifosInit, PortIs, ReqOfIs DEF SysInit, Out
<1>4. ClientsWait
  BY <1>3 DEF SysInit, ClientsWait, Waits, NotValid, NoReq
<1>5. QED
  BY <1>1, <1>2, <1>4 DEF SysInv

LEMMA AccessUnchanged ==
    ASSUME UNCHANGED accessVars
    PROVE  /\ UNCHANGED <<instr_fifo, read_fifo, write_fifo>>
           /\ UNCHANGED <<stage_0_to_1, stage_1_to_2, cmd_accepted, answer, mem_access>>
           /\ UNCHANGED <<main_mem, mem_queue, mem_out>>
  BY DEF accessVars, fifoVars, mbgVars, ramVars

LEMMA AccessStutterKeepsInv ==
    ASSUME AccessInv, UNCHANGED accessVars
    PROVE  AccessInv'
<1>1. AccessTypeOK'
  <2>1. \A p \in Port : FifoOf(p)' = FifoOf(p)
    BY AccessUnchanged DEF FifoOf
  <2>2. AccessTypeOK
    BY DEF AccessInv
  <2>3. QED
    BY <2>1, <2>2, AccessUnchanged DEF AccessTypeOK, Port, Mbg!Port
<1>2. FifosHoldRequests' /\ AcceptedOnce' /\ OneDataAnswerPerEdge'
  <2>1. FifosHoldRequests /\ AcceptedOnce /\ OneDataAnswerPerEdge
    BY DEF AccessInv
  <2>2. /\ \A p \in Port : /\ FifoOf(p)' = FifoOf(p) /\ Out(p)' = Out(p)
                           /\ (Waits(p)' <=> Waits(p)) /\ (IsAccepted(p)' <=> IsAccepted(p))
        /\ FifoOf(cmd_accepted)' = FifoOf(cmd_accepted)
        /\ Out("ReadData")' = Out("ReadData") /\ Out("WriteData")' = Out("WriteData")
    BY AccessUnchanged DEF FifoOf, Out, Waits, IsAccepted
  <2>3. FifosHoldRequests'
    BY <2>1, <2>2 DEF FifosHoldRequests, Port, Mbg!Port
  <2>4. AcceptedOnce'
    BY <2>1, <2>2, AccessUnchanged DEF AcceptedOnce, Port, Mbg!Port
  <2>5. OneDataAnswerPerEdge'
    BY <2>1, <2>2 DEF OneDataAnswerPerEdge
  <2>6. QED
    BY <2>3, <2>4, <2>5
<1>3. StagesMatchMemory'
  <2>1. /\ BusAccess(stage_0_to_1)' = BusAccess(stage_0_to_1)
        /\ BusAccess(stage_1_to_2)' = BusAccess(stage_1_to_2)
        /\ BusAccess(cmd_accepted)' = BusAccess(cmd_accepted)
    BY AccessUnchanged DEF BusAccess, FifoOf
  <2>2. Mbg!Stall(mem_out)' <=> Mbg!Stall(mem_out)
    BY AccessUnchanged DEF Mbg!Stall
  <2>3. QED
    BY <2>1, <2>2, AccessUnchanged DEF AccessInv, StagesMatchMemory, AccessIf
<1>4. QED
  BY <1>1, <1>2, <1>3 DEF AccessInv

LEMMA SysUnchanged ==
    ASSUME UNCHANGED vars
    PROVE  /\ UNCHANGED accessVars
           /\ UNCHANGED <<instr_fifo, read_fifo, write_fifo>>
           /\ UNCHANGED <<stage_0_to_1, stage_1_to_2, cmd_accepted, answer, mem_access>>
           /\ UNCHANGED <<main_mem, mem_queue, mem_out>>
           /\ UNCHANGED <<instr_req, read_req, write_req, waiting>>
<1>1. UNCHANGED accessVars /\ UNCHANGED <<instr_req, read_req, write_req, waiting>>
  BY DEF vars, clientVars
<1>2. QED
  BY <1>1, AccessUnchanged

LEMMA SysStutterKeepsInv == SysInv /\ UNCHANGED vars => SysInv'
<1> SUFFICES ASSUME SysInv, UNCHANGED vars PROVE SysInv'
  OBVIOUS
<1>1. AccessInv'
  BY AccessStutterKeepsInv, SysUnchanged DEF SysInv
<1>2. SysTypeOK'
  BY <1>1, SysUnchanged
     DEF SysInv, AccessInv, SysTypeOK, Port, Mbg!Port, NoReq, ReadReq, WriteReq
<1>3. ClientsWait'
  <2>1. \A p \in Port : /\ Out(p)' = Out(p) /\ (Waits(p)' <=> Waits(p))
                        /\ ReqOf(p)' = ReqOf(p)
    BY SysUnchanged DEF FifoOf, Out, Waits, ReqOf
  <2>2. QED
    BY <2>1, SysUnchanged DEF SysInv, ClientsWait, Port, Mbg!Port
<1>4. QED
  BY <1>1, <1>2, <1>3 DEF SysInv

\* The registers of the three FIFOs, the guard, memory and the clients always agree.
THEOREM AccessInvariant == SysSpec => []SysInv
  BY SysInitHasInv, SysNextKeepsInv, SysStutterKeepsInv, PTL DEF SysSpec

\* The guard's stages are the accesses memory has not answered, in order, so every
\* answer goes to the request it belongs to however slow memory is.
THEOREM AnswersMeetTheirRequests == SysSpec => []StagesMatchMemory
<1>1. SysInv => StagesMatchMemory
  BY DEF SysInv, AccessInv
<1>2. QED
  BY <1>1, AccessInvariant, PTL

\* No request is accepted twice, and an accepted request is in one place.
THEOREM RequestsAreAcceptedOnce == SysSpec => []AcceptedOnce
<1>1. SysInv => AcceptedOnce
  BY DEF SysInv, AccessInv
<1>2. QED
  BY <1>1, AccessInvariant, PTL

\* The LAR file never sees a read and a write answered at one edge, which its wait for
\* both would not survive.
THEOREM DataAnswersComeApart == SysSpec => []OneDataAnswerPerEdge
<1>1. SysInv => OneDataAnswerPerEdge
  BY DEF SysInv, AccessInv
<1>2. QED
  BY <1>1, AccessInvariant, PTL

-----------------------------------------------------------------------------
(* Refinement of MemoryPorts: what a port shows, before and after an edge *)

\* The request of a waiting client, in the form MemoryPorts knows.
LEMMA RqIs ==
    ASSUME NEW p \in Port, NEW r \in HeldRequest(p)
    PROVE  /\ Rq(r) = IF p = "WriteData" THEN [addr |-> r.addr, data |-> r.data]
                      ELSE [addr |-> r.addr]
           /\ Rq(r) \in IF p = "WriteData" THEN [addr : Addr, data : Data] ELSE [addr : Addr]
<1>1. CASE p = "WriteData"
  <2>1. r \in [req : BOOLEAN, addr : Addr, data : Data]
    BY <1>1 DEF HeldRequest
  <2>2. "data" \in DOMAIN r
    BY <2>1
  <2>3. QED
    BY <1>1, <2>1, <2>2 DEF Rq
<1>2. CASE p # "WriteData"
  <2>1. r \in [req : BOOLEAN, addr : Addr]
    BY <1>2 DEF HeldRequest
  <2>2. "data" \notin DOMAIN r
    BY <2>1
  <2>3. QED
    BY <1>2, <2>1, <2>2 DEF Rq
<1>3. QED
  BY <1>1, <1>2

\* A client's request, in its FIFO or still on the line.
LEMMA OutstandingIs ==
    ASSUME SysInv, NEW p \in Port, p \in waiting
    PROVE  /\ Outstanding(p) \in HeldRequest(p)
           /\ ReqOf(p).req => Outstanding(p) = ReqOf(p)
           /\ ~ReqOf(p).req => Outstanding(p) = FifoOf(p).to_mbg
<1>1. ReqOf(p) \in ClientRequest(p)
  BY PortIs, ReqOfIs DEF SysInv, SysTypeOK, ClientRequest
<1>2. ~ReqOf(p).req => FifoOf(p).to_mbg \in HeldRequest(p)
  BY DEF SysInv, ClientsWait, AccessInv, FifosHoldRequests
<1>3. QED
  BY <1>1, <1>2, ClientRequestIsHeld DEF Outstanding

LEMMA RequestEnters ==
    ASSUME AccessTypeOK, FifosHoldRequests, AcceptedOnce,
           NEW R, AccessStep(R), NEW p \in Port, ~Waits(p), R[p].req
    PROVE  FifoOf(p)'.to_mbg = R[p]
<1>1. FifoClock(FifoOf(p), FifoOf(p)', R[p], cmd_accepted = p, AnswerTo(p))
  BY FifosClock
<1>2. FifoOf(p)' = [state |-> "WaitForMem", cmd_was_accepted |-> FALSE,
                    to_mbg |-> R[p], out |-> NotValid]
  BY <1>1 DEF FifoClock, Waits
<1>3. QED
  BY <1>2

\* It stays the same until its answer has come.
LEMMA RequestStays ==
    ASSUME SysInv, SysInv', SysNext, NEW p \in Port, p \in waiting, ~Out(p).valid
    PROVE  /\ p \in waiting'
           /\ Rq(Outstanding(p))' = Rq(Outstanding(p))
<1>1. /\ AccessInv /\ AccessTypeOK /\ FifosHoldRequests /\ AcceptedOnce
      /\ AccessStep(Requests) /\ Clients /\ SysTypeOK /\ Requests[p] = ReqOf(p)
  BY SysStepIsAccessStep DEF SysInv, AccessInv, SysNext, EdgeServe, EdgeNotYet, Edge, Requests
<1>2. p \in waiting' /\ ReqOf(p)' = NoReq
  BY <1>1, ClientsMove
<1>3. Outstanding(p)' = FifoOf(p)'.to_mbg
  BY <1>2 DEF Outstanding, NoReq
<1>4. FifoOf(p)'.to_mbg \in HeldRequest(p)
  <2>1. Outstanding(p)' \in HeldRequest(p)
    BY <1>2, OutstandingIs, PortIs DEF SysInv, ClientsWait, AccessInv, FifosHoldRequests,
       Outstanding, NoReq
  <2>2. QED
    BY <1>3, <2>1
<1>5. CASE ReqOf(p).req
  <2>1. ~Waits(p)
    BY <1>5 DEF SysInv, ClientsWait
  <2>2. ~Waits(p) /\ Requests[p].req
    BY <1>1, <1>5, <2>1
  <2>3. FifoOf(p)'.to_mbg = Requests[p]
    BY <1>1, <2>2, RequestEnters
  <2>4. Outstanding(p)' = Outstanding(p)
    BY <1>1, <1>3, <1>5, <2>3, OutstandingIs
  <2>5. QED
    BY <1>2, <2>4 DEF Rq
<1>6. CASE ~ReqOf(p).req
  <2>1. Waits(p)
    BY <1>6 DEF SysInv, ClientsWait
  <2>2. SameRequest(p)
    BY <1>1, <2>1, FifoMoves
  <2>3. /\ Outstanding(p) = FifoOf(p).to_mbg /\ Outstanding(p) \in HeldRequest(p)
    BY <1>6, OutstandingIs
  <2>4. /\ Outstanding(p)'.addr = Outstanding(p).addr
        /\ p = "WriteData" => Outstanding(p)'.data = Outstanding(p).data
    BY <1>3, <2>2, <2>3 DEF SameRequest
  <2>5. Rq(Outstanding(p))' = IF p = "WriteData"
                              THEN [addr |-> Outstanding(p)'.addr, data |-> Outstanding(p)'.data]
                              ELSE [addr |-> Outstanding(p)'.addr]
    <3>1. PICK r : r = Outstanding(p)'
      OBVIOUS
    <3>2. Rq(r) = Rq(Outstanding(p))'
      BY <3>1 DEF Rq
    <3>3. r \in HeldRequest(p)
      BY <1>3, <1>4, <3>1
    <3>4. QED
      BY <3>1, <3>2, <3>3, RqIs
  <2>6. QED
    BY <1>2, <2>3, <2>4, <2>5, RqIs
<1>7. QED
  BY <1>5, <1>6

\* Port p's answer is in one place only.
LEMMA AnswerIsInOnePlace ==
    ASSUME AccessInv, NEW p \in Port
    PROVE  /\ Out(p).valid => answer.port # p /\ stage_1_to_2 # p /\ stage_0_to_1 # p
           /\ answer.port = p => stage_1_to_2 # p /\ stage_0_to_1 # p
           /\ stage_1_to_2 = p => stage_0_to_1 # p
           /\ Waits(p) => ~Out(p).valid
<1>1. Waits(p) => ~Out(p).valid
  BY DEF AccessInv, FifosHoldRequests, NotValid
<1>2. p \in {stage_0_to_1, stage_1_to_2, answer.port} => Waits(p)
  BY DEF AccessInv, AcceptedOnce, IsAccepted
<1>3. QED
  BY <1>1, <1>2, PortIs DEF AccessInv, AcceptedOnce

\* How answers travel: from memory to the guard, from the guard to the FIFO.
LEMMA AnswersTravel ==
    ASSUME AccessInv, NEW R, AccessStep(R), NEW p \in Port
    PROVE  /\ Out(p)'.valid <=> answer.port = p
           /\ answer.port = p => Out(p)' = AnswerTo(p)
           /\ answer'.port = p <=> MemAnswers(p)
           /\ MemAnswers(p) /\ p # "WriteData" => answer'.data = mem_out.data
           /\ MemAnswers(p)' <=> Serve /\ ServedPort = p
<1>1. Out(p)'.valid <=> answer.port = p
  BY AccessStepOut
<1>2. answer.port = p => Out(p)' = AnswerTo(p)
  BY FifoMoves DEF AccessInv, Out
<1>3. /\ answer'.port = p <=> MemAnswers(p)
      /\ MemAnswers(p) /\ p # "WriteData" => answer'.data = mem_out.data
  <2>1. CASE Mbg!Stall(mem_out) /\ GuardStalls
    <3>1. answer'.port = "None" /\ ~mem_out.valid
      BY <2>1 DEF GuardStalls, Mbg!Stall
    <3>2. QED
      BY <3>1, PortIs DEF MemAnswers
  <2>2. ASSUME ~Mbg!Stall(mem_out), NEW q \in Port \cup {"None"}, GuardFlows(q)
        PROVE  /\ answer'.port = p <=> MemAnswers(p)
               /\ MemAnswers(p) /\ p # "WriteData" => answer'.data = mem_out.data
    <3>1. stage_1_to_2 = p => mem_out.valid
      BY <2>2, PortIs DEF Mbg!Stall
    <3>2. answer' = IF stage_1_to_2 \in {"None", "WriteData"} THEN [port |-> stage_1_to_2]
                    ELSE [port |-> stage_1_to_2, data |-> mem_out.data]
      BY <2>2 DEF GuardFlows
    <3>3. QED
      BY <3>1, <3>2, PortIs DEF MemAnswers
  <2>3. QED
    BY <2>1, <2>2, GuardMoves
<1>4. MemAnswers(p)' <=> Serve /\ ServedPort = p
  <2>1. MemAnswers(p)' <=> stage_1_to_2' = p /\ mem_out'.valid
    BY DEF MemAnswers
  <2>2. CASE Serve
    BY <2>1, <2>2, MemoryServes
  <2>3. CASE NotYet
    <3>1. mem_out' = NotValid
      BY <2>3 DEF NotYet
    <3>2. ~Serve
      BY <3>1, MemoryServes DEF NotValid
    <3>3. QED
      BY <2>1, <3>1, <3>2 DEF NotValid
  <2>4. QED
    BY <2>2, <2>3 DEF AccessStep
<1>5. QED
  BY <1>1, <1>2, <1>3, <1>4

LEMMA MetMoves ==
    ASSUME AccessInv, AccessInv', NEW R, AccessStep(R), NEW p \in Port
    PROVE  /\ HasMetMemory(p)' <=> answer.port = p \/ MemAnswers(p) \/ (Serve /\ ServedPort = p)
           /\ answer.port = p /\ p # "WriteData" => Behind(p)'.data = answer.data
           /\ MemAnswers(p) /\ p # "WriteData" => Behind(p)'.data = mem_out.data
           /\ Serve /\ ServedPort = p /\ p # "WriteData" =>
                 Behind(p)'.data = main_mem[FifoOf(p).to_mbg.addr]
<1>1. HasMetMemory(p)' <=> Out(p)'.valid \/ answer'.port = p \/ MemAnswers(p)'
  BY DEF HasMetMemory
<1>2. Behind(p)' = CASE Out(p)'.valid -> Out(p)'
                     [] answer'.port = p -> answer'
                     [] MemAnswers(p)' -> mem_out'
  BY DEF Behind
<1>3. /\ Out(p)'.valid => answer'.port # p /\ ~MemAnswers(p)'
      /\ answer'.port = p => ~MemAnswers(p)'
  <2>1. Out(p)'.valid => answer'.port # p /\ stage_1_to_2' # p
    BY PortIs DEF AccessInv, AcceptedOnce, IsAccepted, FifosHoldRequests, NotValid, Port, Mbg!Port
  <2>2. answer'.port = p => stage_1_to_2' # p
    BY PortIs DEF AccessInv, AcceptedOnce, Port, Mbg!Port
  <2>3. QED
    BY <2>1, <2>2 DEF MemAnswers
<1>4. answer.port = p /\ p # "WriteData" => Behind(p)'.data = answer.data
  <2>1. AccessTypeOK
    BY DEF AccessInv
  <2>2. QED
    BY <1>2, <1>3, <2>1, AnswersTravel, AnswerToIs
<1>5. MemAnswers(p) /\ p # "WriteData" => Behind(p)'.data = mem_out.data
  BY <1>2, <1>3, AnswersTravel
<1>6. Serve /\ ServedPort = p => mem_out'.data = main_mem[FifoOf(p).to_mbg.addr]
  BY MemoryServes
<1>7. Serve /\ ServedPort = p /\ p # "WriteData" =>
          Behind(p)'.data = main_mem[FifoOf(p).to_mbg.addr]
  BY <1>2, <1>3, <1>6, AnswersTravel
<1>8. QED
  BY <1>1, <1>4, <1>5, <1>7, AnswersTravel

-----------------------------------------------------------------------------
(* Refinement of MemoryPorts: what happens at a port *)

\* What MemoryPorts lets port p ask.
PortRequest(p) == IF p = "WriteData" THEN [addr : Addr, data : Data] ELSE [addr : Addr]

FreePort == [stage |-> "Free"]
AskedPort(r) == [stage |-> "Asked", request |-> r]
ServedPortWith(r, d) == [stage |-> "Served", request |-> r, data |-> d]

LEMMA StepFacts ==
    ASSUME SysInv, SysInv', SysNext
    PROVE  /\ AccessInv /\ AccessInv' /\ AccessStep(Requests) /\ Clients
           /\ SysTypeOK /\ AccessTypeOK /\ FifosHoldRequests /\ AcceptedOnce
           /\ ClientsWait /\ ClientsWait'
  BY SysStepIsAccessStep DEF SysInv, AccessInv, SysNext, EdgeServe, EdgeNotYet, Edge

\* A free port stays free or takes a request.
LEMMA FreePortMoves ==
    ASSUME SysInv, SysInv', SysNext, NEW p \in Port, p \notin waiting
    PROVE  /\ PortShows(p) = FreePort
           /\ PortShows(p)' = FreePort \/ \E r \in PortRequest(p) : PortShows(p)' = AskedPort(r)
<1>1. PortShows(p) = FreePort
  BY DEF PortShows, FreePort
<1>2. CASE p \notin waiting'
  BY <1>1, <1>2 DEF PortShows, FreePort
<1>3. CASE p \in waiting'
  <2>1. ReqOf(p)'.req
    BY <1>3, StepFacts, ClientsMove
  <2>2. ReqOf(p)' \in HeldRequest(p)
    BY <2>1, StepFacts, ClientsMove, ClientRequestIsHeld
  <2>3. ~HasMetMemory(p)'
    <3>1. ~Waits(p)
      BY StepFacts DEF ClientsWait
    <3>2. p \notin {stage_0_to_1, stage_1_to_2, answer.port}
      BY <3>1, StepFacts DEF AcceptedOnce, IsAccepted
    <3>3. QED
      BY <3>2, StepFacts, MetMoves DEF MemAnswers, ServedPort
  <2>4. Outstanding(p)' = ReqOf(p)'
    BY <2>1 DEF Outstanding
  <2>5. PICK r : r = ReqOf(p)'
    OBVIOUS
  <2>6. Rq(Outstanding(p))' = Rq(r) /\ Rq(r) \in PortRequest(p)
    BY <2>2, <2>4, <2>5, RqIs DEF Rq, PortRequest
  <2>7. PortShows(p)' = AskedPort(Rq(r))
    BY <1>3, <2>3, <2>6 DEF PortShows, AskedPort
  <2>8. QED
    BY <1>1, <2>6, <2>7
<1>4. QED
  BY <1>2, <1>3

\* A client that is answered at this edge leaves.
LEMMA AnsweredPortMoves ==
    ASSUME SysInv, SysInv', SysNext, NEW p \in Port, p \in waiting, Out(p).valid
    PROVE  PortShows(p).stage = "Served" /\ PortShows(p)' = FreePort
<1>1. p \notin waiting'
  BY StepFacts, ClientsMove DEF NoReq
<1>2. QED
  BY <1>1 DEF PortShows, HasMetMemory, FreePort

\* A client whose request has met memory, or that waits for memory, goes on waiting.
LEMMA WaitingPortStays ==
    ASSUME SysInv, SysInv', SysNext, NEW p \in Port, p \in waiting, ~Out(p).valid,
           ~(Serve /\ ServedPort = p)
    PROVE  PortShows(p)' = PortShows(p)
<1>1. p \in waiting' /\ Rq(Outstanding(p))' = Rq(Outstanding(p))
  BY RequestStays
<1>2. HasMetMemory(p)' <=> HasMetMemory(p)
  BY StepFacts, MetMoves DEF HasMetMemory
<1>3. ASSUME HasMetMemory(p), p # "WriteData"
      PROVE  Behind(p)'.data = Behind(p).data
  <2>1. answer.port = p => ~MemAnswers(p)
    BY StepFacts, AnswerIsInOnePlace DEF MemAnswers
  <2>2. CASE answer.port = p
    <3>1. Behind(p) = answer
      BY <2>1, <2>2 DEF Behind
    <3>2. QED
      BY <1>3, <2>2, <3>1, StepFacts, MetMoves
  <2>3. CASE MemAnswers(p)
    <3>1. Behind(p) = mem_out
      BY <2>1, <2>3 DEF Behind
    <3>2. QED
      BY <1>3, <2>3, <3>1, StepFacts, MetMoves
  <2>4. QED
    BY <1>3, <2>2, <2>3 DEF HasMetMemory
<1>4. QED
  BY <1>1, <1>2, <1>3 DEF PortShows

\* The request memory serves.
LEMMA ServedPortMoves ==
    ASSUME SysInv, SysInv', SysNext, Serve, NEW p \in Port, p = ServedPort
    PROVE  \E r \in PortRequest(p), d \in Data :
               /\ PortShows(p) = AskedPort(r) /\ PortShows(p)' = ServedPortWith(r, d)
               /\ main_mem' = IF p = "WriteData" THEN [main_mem EXCEPT ![r.addr] = r.data]
                              ELSE main_mem
               /\ p # "WriteData" => d = main_mem[r.addr]
<1>1. p \in {stage_0_to_1, stage_1_to_2} /\ Waits(p)
  BY StepFacts DEF ServedPort, AcceptedOnce, IsAccepted
<1>2. /\ p \in waiting /\ ~ReqOf(p).req /\ ~Out(p).valid
      /\ Outstanding(p) = FifoOf(p).to_mbg
      /\ Outstanding(p) \in HeldRequest(p)
  BY <1>1, StepFacts, OutstandingIs, AnswerIsInOnePlace DEF ClientsWait
<1>3. ~HasMetMemory(p)
  <2>1. answer.port # p
    BY <1>1, StepFacts, AnswerIsInOnePlace
  <2>2. ~MemAnswers(p)
    <3>1. CASE Mbg!Stall(mem_out)
      BY <3>1 DEF MemAnswers, Mbg!Stall
    <3>2. CASE ~Mbg!Stall(mem_out)
      BY <3>2, StepFacts, AnswerIsInOnePlace DEF MemAnswers, ServedPort
    <3>3. QED
      BY <3>1, <3>2
  <2>3. QED
    BY <1>2, <2>1, <2>2 DEF HasMetMemory
<1>4. PICK r \in PortRequest(p) : r = Rq(Outstanding(p))
  BY <1>2, RqIs DEF PortRequest
<1>5. r.addr = FifoOf(p).to_mbg.addr /\ (p = "WriteData" => r.data = FifoOf(p).to_mbg.data)
  BY <1>2, <1>4, RqIs
<1>6. /\ main_mem' = IF p = "WriteData" THEN [main_mem EXCEPT ![r.addr] = r.data] ELSE main_mem
      /\ main_mem \in [Addr -> Data]
  BY <1>5, StepFacts, MemoryServes DEF AccessTypeOK
<1>7. r.addr \in Addr /\ (p = "WriteData" => r.data \in Data)
  BY DEF PortRequest
<1>8. main_mem[r.addr] \in Data
  BY <1>6, <1>7
<1>9. /\ HasMetMemory(p)' /\ p \in waiting' /\ Rq(Outstanding(p))' = r
      /\ p # "WriteData" => Behind(p)'.data = main_mem[r.addr]
  BY <1>2, <1>4, <1>5, StepFacts, MetMoves, RequestStays
<1>10. PICK d \in Data : d = IF p = "WriteData" THEN CHOOSE e \in Data : TRUE
                             ELSE main_mem[r.addr]
  BY <1>8
<1>11. PortShows(p) = AskedPort(r)
  BY <1>2, <1>3, <1>4 DEF PortShows, AskedPort
<1>12. PortShows(p)' = ServedPortWith(r, d)
  BY <1>9, <1>10 DEF PortShows, ServedPortWith
<1>13. QED
  BY <1>6, <1>10, <1>11, <1>12

\* A port whose request is not served at this edge.
LEMMA OtherPortsMove ==
    ASSUME SysInv, SysInv', SysNext, NEW p \in Port, ~(Serve /\ ServedPort = p)
    PROVE  Ports!Ask(p) \/ Ports!Reply(p) \/ Ports!Stay(p)
<1>1. CASE p \notin waiting
  <2>1. /\ PortShows(p) = FreePort
        /\ PortShows(p)' = FreePort \/ \E r \in PortRequest(p) : PortShows(p)' = AskedPort(r)
    BY <1>1, FreePortMoves
  <2>2. CASE PortShows(p)' = FreePort
    BY <2>1, <2>2, PortIs DEF Ports!Stay
  <2>3. CASE \E r \in PortRequest(p) : PortShows(p)' = AskedPort(r)
    BY <2>1, <2>3, PortIs DEF Ports!Ask, Ports!Free, Ports!Asked, FreePort, AskedPort, PortRequest
  <2>4. QED
    BY <2>1, <2>2, <2>3
<1>2. CASE p \in waiting /\ Out(p).valid
  <2>1. PortShows(p).stage = "Served" /\ PortShows(p)' = FreePort
    BY <1>2, AnsweredPortMoves
  <2>2. QED
    BY <2>1, PortIs DEF Ports!Reply, Ports!Free, FreePort
<1>3. CASE p \in waiting /\ ~Out(p).valid
  <2>1. PortShows(p)' = PortShows(p)
    BY <1>3, WaitingPortStays
  <2>2. QED
    BY <2>1 DEF Ports!Stay
<1>4. QED
  BY <1>1, <1>2, <1>3

LEMMA PortIsServed ==
    ASSUME SysInv, SysInv', SysNext, Serve, NEW p \in Port, p = ServedPort
    PROVE  Ports!Meet(p)
<1>1. PICK r \in PortRequest(p), d \in Data :
         /\ PortShows(p) = AskedPort(r) /\ PortShows(p)' = ServedPortWith(r, d)
         /\ main_mem' = IF p = "WriteData" THEN [main_mem EXCEPT ![r.addr] = r.data]
                        ELSE main_mem
         /\ p # "WriteData" => d = main_mem[r.addr]
  BY ServedPortMoves
<1>2. /\ PortShows(p).stage = "Asked" /\ PortShows(p).request = r
      /\ PortShows(p)' = Ports!Served(r, d)
  BY <1>1 DEF AskedPort, ServedPortWith, Ports!Served
<1>3. Ports!IsWrite(r) <=> p = "WriteData"
  <2>1. CASE p = "WriteData"
    <3>1. r \in [addr : Addr, data : Data]
      BY <2>1 DEF PortRequest
    <3>2. QED
      BY <2>1, <3>1 DEF Ports!IsWrite
  <2>2. CASE p # "WriteData"
    <3>1. r \in [addr : Addr]
      BY <2>2 DEF PortRequest
    <3>2. QED
      BY <2>2, <3>1 DEF Ports!IsWrite
  <2>3. QED
    BY <2>1, <2>2
<1>4. QED
  BY <1>1, <1>2, <1>3 DEF Ports!Meet

LEMMA PortsInit ==
    ASSUME SysInit
    PROVE  Ports!Init
<1>1. main_mem \in [Addr -> Data] /\ waiting = {}
  BY DEF SysInit, Init
<1>2. \A p \in Port : PortShows(p) = Ports!Free
  BY <1>1 DEF PortShows, Ports!Free
<1>3. QED
  BY <1>1, <1>2 DEF Ports!Init

LEMMA PortsStep ==
    ASSUME SysInv, SysInv', SysNext
    PROVE  Ports!Next
<1> DEFINE port == [p \in Port |-> PortShows(p)]
<1>1. DOMAIN port' = Port
  BY PortIs
<1>2. CASE Serve
  <2>1. PICK p \in Port : p = ServedPort
    BY <1>2, StepFacts, MemoryServes
  <2>2. Ports!Meet(p)
    BY <1>2, <2>1, PortIsServed
  <2>3. Ports!Others(Port \ {p})
    BY <2>1, OtherPortsMove DEF Ports!Others
  <2>4. QED
    BY <1>1, <2>2, <2>3 DEF Ports!Next
<1>3. CASE NotYet
  <2>1. main_mem' = main_mem /\ ~mem_out'.valid
    BY <1>3 DEF NotYet, NotValid
  <2>2. ~Serve
    BY <2>1 DEF Serve
  <2>3. Ports!Others(Port)
    BY <2>2, OtherPortsMove DEF Ports!Others
  <2>4. QED
    BY <1>1, <2>1, <2>3 DEF Ports!Next
<1>4. QED
  BY <1>2, <1>3 DEF SysNext, EdgeServe, EdgeNotYet

LEMMA PortsStutter ==
    ASSUME UNCHANGED vars
    PROVE  UNCHANGED Ports!portVars
<1>1. ASSUME NEW p \in Port PROVE PortShows(p)' = PortShows(p)
  <2>1. /\ Out(p)' = Out(p) /\ ReqOf(p)' = ReqOf(p) /\ FifoOf(p)' = FifoOf(p)
        /\ MemAnswers(p)' <=> MemAnswers(p)
    BY SysUnchanged DEF Out, FifoOf, ReqOf, MemAnswers
  <2>2. /\ Outstanding(p)' = Outstanding(p) /\ (HasMetMemory(p)' <=> HasMetMemory(p))
        /\ Behind(p)' = Behind(p)
    BY <2>1, SysUnchanged DEF Outstanding, HasMetMemory, Behind
  <2>3. QED
    BY <2>2, SysUnchanged DEF PortShows, Rq
<1>2. [p \in Port |-> PortShows(p)]' = [p \in Port |-> PortShows(p)]
  BY <1>1, PortIs DEF Port, Mbg!Port
<1>3. QED
  BY <1>2, SysUnchanged DEF Ports!portVars

\* The FIFOs, the bus guard and memory are three independent ports to one memory: each
\* request meets memory once, as it was asked, and its answer comes back to its client.
THEOREM AccessIsMemoryPorts == SysSpec => ImplementsMemoryPorts
<1>1. SysInit => Ports!Init
  BY PortsInit
<1>2. SysInv /\ SysInv' /\ [SysNext]_vars => [Ports!Next]_(Ports!portVars)
  BY PortsStep, PortsStutter
<1>3. QED
  BY <1>1, <1>2, AccessInvariant, PTL DEF SysSpec, ImplementsMemoryPorts, Ports!Spec
=============================================================================
