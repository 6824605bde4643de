------------------------- MODULE MemoryAccessors_proofs -------------------------
(***************************************************************************)
(* Proofs about the LAR file wired to memory: the inductive invariant, and  *)
(* that MemoryAccessors implements LarFileSystem, and so FlatMemory, for    *)
(* every number of LARs, set of addresses and set of lines.                 *)
(*                                                                         *)
(* What LarFileSystem_proofs and MemoryAccessSystem_proofs prove is used    *)
(* here of Sys, the LAR file with its abstract memory as MemoryAccessors    *)
(* refines it, and of Way, the way to memory with the LAR file and the      *)
(* reader of instructions for clients.                                      *)
(***************************************************************************)
EXTENDS MemoryAccessors, TLAPS

Sys == INSTANCE LarFileSystem_proofs WITH
    pending_read <- PendingRead, pending_write <- PendingWrite
\* waiting belongs to clients this system does not have; nothing used here reads it.
Way == INSTANCE MemoryAccessSystem_proofs WITH
    Addr <- BaseAddr, read_req <- ReadPort, write_req <- WritePort, waiting <- {}

-----------------------------------------------------------------------------
(* Sys and Way are instances of the modules that MemoryAccessors extends and  *)
(* instantiates, so their definitions mean the same.                         *)

LEMMA LarFileIsSys ==
    /\ \A in_wr, in_mem_read, in_mem_write :
           Clock(in_wr, in_mem_read, in_mem_write) <=> Sys!Clock(in_wr, in_mem_read, in_mem_write)
    /\ Init <=> Sys!Init
  BY DEF Clock, Sys!Clock, IdleFsm, Sys!IdleFsm, IdleNoWrite, Sys!IdleNoWrite, InIdle,
         Sys!InIdle, NoReq, Sys!NoReq, NeitherValid, Sys!NeitherValid, stackVars,
         Sys!stackVars, dzero, Sys!dzero, NothingCaptured, Sys!NothingCaptured,
         IdleWriteData, Sys!IdleWriteData, UnallocatedTag, Sys!UnallocatedTag, DataWrite,
         Sys!DataWrite, IdleStartLdSt, Sys!IdleStartLdSt, StartsLdSt, Sys!StartsLdSt,
         TagSearch, Sys!TagSearch, Matches, Sys!Matches, Tags, Sys!Tags, Lars, Sys!Lars,
         Snapshot, Sys!Snapshot, Incr, Sys!Incr, StartLdStFsm, Sys!StartLdStFsm,
         HitOwnElement, Sys!HitOwnElement, InStartLdSt, Sys!InStartLdSt, stop_mem_read,
         Sys!stop_mem_read, stop_mem_write, Sys!stop_mem_write, finish_ldst,
         Sys!finish_ldst, shareddataVars, Sys!shareddataVars, HitFromUnallocated,
         Sys!HitFromUnallocated, JoinAliased, Sys!JoinAliased, IsSt, Sys!IsSt,
         HitFreeingOldTag, Sys!HitFreeingOldTag, PushOldTag, Sys!PushOldTag, CleanOldTag,
         Sys!CleanOldTag, prep_mem_write, Sys!prep_mem_write, WriteBack, Sys!WriteBack,
         WaitIn, Sys!WaitIn, HitLeavingSharedTag, Sys!HitLeavingSharedTag, Decr, Sys!Decr,
         MissFromUnallocated, Sys!MissFromUnallocated, InMiss, Sys!InMiss, AllocateTop,
         Sys!AllocateTop, IsLd, Sys!IsLd, prep_mem_read, Sys!prep_mem_read, ReadReq,
         Sys!ReadReq, MissSoleReference, Sys!MissSoleReference, MissLeavingSharedTag,
         Sys!MissLeavingSharedTag, WaitFsm, Sys!WaitFsm, WaitForJustMemRead,
         Sys!WaitForJustMemRead, InWait, Sys!InWait, metadataVars, Sys!metadataVars,
         FillData, Sys!FillData, WaitForJustMemWrite, Sys!WaitForJustMemWrite,
         WaitForMemReadAndMemWrite, Sys!WaitForMemReadAndMemWrite, WaitIsOver,
         Sys!WaitIsOver, ShareddataData, Sys!ShareddataData, Init, Sys!Init

LEMMA WbIsSys ==
    /\ \A instr, lar_valid : Wb!Clock(instr, lar_valid) <=> Sys!Wb!Clock(instr, lar_valid)
    /\ Wb!Init <=> Sys!Wb!Init
    /\ IncomingInstr = Sys!IncomingInstr
  BY DEF IncomingInstr, Sys!IncomingInstr, Lars, Sys!Lars, Wb!Clock, Sys!Wb!Clock,
         Wb!RegularWrite, Sys!Wb!RegularWrite, Wb!RegularNoWrite, Sys!Wb!RegularNoWrite,
         Wb!NoReq, Sys!Wb!NoReq, Wb!RegularLdSt, Sys!Wb!RegularLdSt, Wb!PrepLdSt,
         Sys!Wb!PrepLdSt, Wb!LdStRequest, Sys!Wb!LdStRequest, Wb!WaitForLarFileValid,
         Sys!Wb!WaitForLarFileValid, Wb!DropRequest, Sys!Wb!DropRequest,
         Wb!NothingCaptured, Sys!Wb!NothingCaptured, Wb!Bubble, Sys!Wb!Bubble, Wb!Init,
         Sys!Wb!Init, Wb!Instr, Sys!Wb!Instr, Wb!AluInstr, Sys!Wb!AluInstr, Wb!LdStInstr,
         Sys!Wb!LdStInstr, Wb!NoWriteInstr, Sys!Wb!NoWriteInstr

LEMMA SystemIsSys ==
    /\ System!SysInv <=> Sys!SysInv
    /\ System!SysInv' <=> Sys!SysInv'
  BY DEF System!Cardinality, Sys!Cardinality, System!SysInv, Sys!SysInv, System!LarInv,
         Sys!LarInv, System!TypeOK, Sys!TypeOK, System!Lars, Sys!Lars, System!Tags,
         Sys!Tags, System!NoReq, Sys!NoReq, System!NothingCaptured, Sys!NothingCaptured,
         System!dzero, Sys!dzero, System!Captured, Sys!Captured, System!RefCountsAreExact,
         Sys!RefCountsAreExact, System!UnallocatedTag, Sys!UnallocatedTag, System!Holders,
         Sys!Holders, System!StackHoldsFreeTags, Sys!StackHoldsFreeTags, System!FreeTags,
         Sys!FreeTags, System!DzeroIsZero, Sys!DzeroIsZero, System!OneElementPerLine,
         Sys!OneElementPerLine, System!Allocated, Sys!Allocated,
         System!SnapshotIsConsistent, Sys!SnapshotIsConsistent, System!TagSearch,
         Sys!TagSearch, System!Matches, Sys!Matches, System!Incr, Sys!Incr,
         System!DataWritesAvoidDzero, Sys!DataWritesAvoidDzero, System!SysTypes,
         Sys!SysTypes, System!Wb!Instr, Sys!Wb!Instr, System!Wb!AluInstr, Sys!Wb!AluInstr,
         System!Wb!LdStInstr, Sys!Wb!LdStInstr, System!Wb!NoWriteInstr,
         Sys!Wb!NoWriteInstr, System!Wb!Bubble, Sys!Wb!Bubble, System!WbRequest,
         Sys!WbRequest, System!WriteReq, Sys!WriteReq, System!LdStReq, Sys!LdStReq,
         System!MemWrite, Sys!MemWrite, System!WriteBackWaits, Sys!WriteBackWaits,
         System!WaitsForWhatIsUnderWay, Sys!WaitsForWhatIsUnderWay, System!ReadUnderWay,
         Sys!ReadUnderWay, System!WaitsForRead, Sys!WaitsForRead, System!WriteUnderWay,
         Sys!WriteUnderWay, System!WaitsForWrite, Sys!WaitsForWrite, System!NeitherValid,
         Sys!NeitherValid, System!NewLineAddr, Sys!NewLineAddr, System!ResultIsInPlace,
         Sys!ResultIsInPlace, System!ResultWrite, Sys!ResultWrite, System!DataWrite,
         Sys!DataWrite, System!SnapshotIsCurrent, Sys!SnapshotIsCurrent,
         System!CurrentData, Sys!CurrentData, System!CleanLineEqualsMemory,
         Sys!CleanLineEqualsMemory, System!AwaitingRead, Sys!AwaitingRead,
         System!MemoryAt, Sys!MemoryAt

LEMMA SystemStepIsSys ==
    /\ System!SysInit <=> Sys!SysInit
    /\ System!SysNext <=> Sys!SysNext
    /\ System!vars = Sys!vars
    /\ System!vars' = Sys!vars'
  BY DEF System!SysInit, Sys!SysInit, System!Init, Sys!Init, System!Lars, Sys!Lars,
         System!UnallocatedTag, Sys!UnallocatedTag, System!Tags, Sys!Tags, System!NoReq,
         Sys!NoReq, System!NothingCaptured, Sys!NothingCaptured, System!dzero, Sys!dzero,
         System!NeitherValid, Sys!NeitherValid, System!Wb!Init, Sys!Wb!Init,
         System!Wb!NothingCaptured, Sys!Wb!NothingCaptured, System!Wb!Bubble,
         Sys!Wb!Bubble, System!Wb!NoReq, Sys!Wb!NoReq, System!SysNext, Sys!SysNext,
         System!IncomingInstr, Sys!IncomingInstr, System!Wb!Instr, Sys!Wb!Instr,
         System!Wb!AluInstr, Sys!Wb!AluInstr, System!Wb!LdStInstr, Sys!Wb!LdStInstr,
         System!Wb!NoWriteInstr, Sys!Wb!NoWriteInstr, System!SysStep, Sys!SysStep,
         System!NoAnswer, Sys!NoAnswer, System!Edge, Sys!Edge, System!Wb!Clock,
         Sys!Wb!Clock, System!Wb!RegularWrite, Sys!Wb!RegularWrite,
         System!Wb!RegularNoWrite, Sys!Wb!RegularNoWrite, System!Wb!RegularLdSt,
         Sys!Wb!RegularLdSt, System!Wb!PrepLdSt, Sys!Wb!PrepLdSt, System!Wb!LdStRequest,
         Sys!Wb!LdStRequest, System!Wb!WaitForLarFileValid, Sys!Wb!WaitForLarFileValid,
         System!Wb!DropRequest, Sys!Wb!DropRequest, System!Clock, Sys!Clock,
         System!IdleFsm, Sys!IdleFsm, System!IdleNoWrite, Sys!IdleNoWrite, System!InIdle,
         Sys!InIdle, System!stackVars, Sys!stackVars, System!IdleWriteData,
         Sys!IdleWriteData, System!DataWrite, Sys!DataWrite, System!IdleStartLdSt,
         Sys!IdleStartLdSt, System!StartsLdSt, Sys!StartsLdSt, System!TagSearch,
         Sys!TagSearch, System!Matches, Sys!Matches, System!Snapshot, Sys!Snapshot,
         System!Incr, Sys!Incr, System!StartLdStFsm, Sys!StartLdStFsm,
         System!HitOwnElement, Sys!HitOwnElement, System!InStartLdSt, Sys!InStartLdSt,
         System!stop_mem_read, Sys!stop_mem_read, System!stop_mem_write,
         Sys!stop_mem_write, System!finish_ldst, Sys!finish_ldst, System!shareddataVars,
         Sys!shareddataVars, System!HitFromUnallocated, Sys!HitFromUnallocated,
         System!JoinAliased, Sys!JoinAliased, System!IsSt, Sys!IsSt,
         System!HitFreeingOldTag, Sys!HitFreeingOldTag, System!PushOldTag, Sys!PushOldTag,
         System!CleanOldTag, Sys!CleanOldTag, System!prep_mem_write, Sys!prep_mem_write,
         System!WriteBack, Sys!WriteBack, System!WaitIn, Sys!WaitIn,
         System!HitLeavingSharedTag, Sys!HitLeavingSharedTag, System!Decr, Sys!Decr,
         System!MissFromUnallocated, Sys!MissFromUnallocated, System!InMiss, Sys!InMiss,
         System!AllocateTop, Sys!AllocateTop, System!IsLd, Sys!IsLd, System!prep_mem_read,
         Sys!prep_mem_read, System!ReadReq, Sys!ReadReq, System!MissSoleReference,
         Sys!MissSoleReference, System!MissLeavingSharedTag, Sys!MissLeavingSharedTag,
         System!WaitFsm, Sys!WaitFsm, System!WaitForJustMemRead, Sys!WaitForJustMemRead,
         System!InWait, Sys!InWait, System!metadataVars, Sys!metadataVars,
         System!FillData, Sys!FillData, System!WaitForJustMemWrite,
         Sys!WaitForJustMemWrite, System!WaitForMemReadAndMemWrite,
         Sys!WaitForMemReadAndMemWrite, System!WaitIsOver, Sys!WaitIsOver,
         System!ShareddataData, Sys!ShareddataData, System!NotValid, Sys!NotValid,
         System!MayLandWrite, Sys!MayLandWrite, System!LandWrite, Sys!LandWrite,
         System!AnswerRead, Sys!AnswerRead, System!AnswerWrite, Sys!AnswerWrite,
         System!WriteAnswer, Sys!WriteAnswer, System!vars, Sys!vars, System!larVars,
         Sys!larVars, System!outVars, Sys!outVars, System!wbVars, Sys!wbVars,
         System!memVars, Sys!memVars

LEMMA AccessInvIsWay ==
    /\ Access!AccessInv <=> Way!AccessInv
    /\ Access!AccessInv' <=> Way!AccessInv'
  BY DEF Access!AccessInv, Way!AccessInv, Access!AccessTypeOK, Way!AccessTypeOK,
         Access!Port, Way!Port, Access!Mbg!Port, Way!Mbg!Port, Access!FifoOf, Way!FifoOf,
         Access!Mbg!NoReq, Way!Mbg!NoReq, Access!HeldRequest, Way!HeldRequest,
         Access!NotValid, Way!NotValid, Access!FifoAnswer, Way!FifoAnswer,
         Access!WriteAnswer, Way!WriteAnswer, Access!Mbg!ReqType, Way!Mbg!ReqType,
         Access!Mbg!NoAnswer, Way!Mbg!NoAnswer, Access!FifosHoldRequests,
         Way!FifosHoldRequests, Access!Waits, Way!Waits, Access!Out, Way!Out,
         Access!AcceptedOnce, Way!AcceptedOnce, Access!IsAccepted, Way!IsAccepted,
         Access!StagesMatchMemory, Way!StagesMatchMemory, Access!BusAccess, Way!BusAccess,
         Access!AccessIf, Way!AccessIf, Access!Mbg!Stall, Way!Mbg!Stall,
         Access!OneDataAnswerPerEdge, Way!OneDataAnswerPerEdge

LEMMA AccessStepIsWay ==
    /\ Access!Clock(instr_req, ReadPort, WritePort) <=> Way!Clock(instr_req, ReadPort, WritePort)
    /\ Access!Serve <=> Way!Serve
    /\ Access!NotYet <=> Way!NotYet
    /\ Access!Init <=> Way!Init
    /\ Access!accessVars = Way!accessVars
    /\ Access!accessVars' = Way!accessVars'
  BY DEF Access!Clock, Way!Clock, Access!InstrFifo!Clock, Way!InstrFifo!Clock,
         Access!InstrFifo!IdleNoRequest, Way!InstrFifo!IdleNoRequest,
         Access!InstrFifo!NoReq, Way!InstrFifo!NoReq, Access!InstrFifo!NotValid,
         Way!InstrFifo!NotValid, Access!InstrFifo!IdleRequest, Way!InstrFifo!IdleRequest,
         Access!InstrFifo!WaitMore, Way!InstrFifo!WaitMore, Access!InstrFifo!Accepted,
         Way!InstrFifo!Accepted, Access!InstrFifo!ToMbg, Way!InstrFifo!ToMbg,
         Access!InstrFifo!Grant, Way!InstrFifo!Grant, Access!AnswerTo, Way!AnswerTo,
         Access!NotValid, Way!NotValid, Access!WriteAnswer, Way!WriteAnswer,
         Access!ReadFifo!Clock, Way!ReadFifo!Clock, Access!ReadFifo!IdleNoRequest,
         Way!ReadFifo!IdleNoRequest, Access!ReadFifo!NoReq, Way!ReadFifo!NoReq,
         Access!ReadFifo!NotValid, Way!ReadFifo!NotValid, Access!ReadFifo!IdleRequest,
         Way!ReadFifo!IdleRequest, Access!ReadFifo!WaitMore, Way!ReadFifo!WaitMore,
         Access!ReadFifo!Accepted, Way!ReadFifo!Accepted, Access!ReadFifo!ToMbg,
         Way!ReadFifo!ToMbg, Access!ReadFifo!Grant, Way!ReadFifo!Grant,
         Access!WriteFifo!Clock, Way!WriteFifo!Clock, Access!WriteFifo!IdleNoRequest,
         Way!WriteFifo!IdleNoRequest, Access!WriteFifo!NoReq, Way!WriteFifo!NoReq,
         Access!WriteFifo!NotValid, Way!WriteFifo!NotValid, Access!WriteFifo!IdleRequest,
         Way!WriteFifo!IdleRequest, Access!WriteFifo!WaitMore, Way!WriteFifo!WaitMore,
         Access!WriteFifo!Accepted, Way!WriteFifo!Accepted, Access!WriteFifo!ToMbg,
         Way!WriteFifo!ToMbg, Access!WriteFifo!Grant, Way!WriteFifo!Grant,
         Access!Mbg!Clock, Way!Mbg!Clock, Access!Mbg!Flow, Way!Mbg!Flow, Access!Mbg!Stall,
         Way!Mbg!Stall, Access!Mbg!Advance, Way!Mbg!Advance, Access!Mbg!ServiceReadInstr,
         Way!Mbg!ServiceReadInstr, Access!Mbg!Wants, Way!Mbg!Wants,
         Access!Mbg!prep_mem_read, Way!Mbg!prep_mem_read, Access!Mbg!Accept,
         Way!Mbg!Accept, Access!Mbg!ServiceReadData, Way!Mbg!ServiceReadData,
         Access!Mbg!ServiceWriteData, Way!Mbg!ServiceWriteData, Access!Mbg!prep_mem_write,
         Way!Mbg!prep_mem_write, Access!Mbg!ServiceNothing, Way!Mbg!ServiceNothing,
         Access!Mbg!stop_mem_access, Way!Mbg!stop_mem_access, Access!Mbg!NoReq,
         Way!Mbg!NoReq, Access!Mbg!Answer, Way!Mbg!Answer, Access!Mbg!NoAnswer,
         Way!Mbg!NoAnswer, Access!Mbg!HoldStages, Way!Mbg!HoldStages, Access!Serve,
         Way!Serve, Access!Sampled, Way!Sampled, Access!NotYet, Way!NotYet, Access!Init,
         Way!Init, Access!InstrFifo!Init, Way!InstrFifo!Init, Access!ReadFifo!Init,
         Way!ReadFifo!Init, Access!WriteFifo!Init, Way!WriteFifo!Init, Access!Mbg!Init,
         Way!Mbg!Init, Access!accessVars, Way!accessVars, Access!fifoVars, Way!fifoVars,
         Access!mbgVars, Way!mbgVars, Access!ramVars, Way!ramVars

LEMMA PortsAreWay ==
    /\ \A p : /\ Access!FifoOf(p) = Way!FifoOf(p) /\ Access!FifoOf(p)' = Way!FifoOf(p)'
              /\ Access!Waits(p) <=> Way!Waits(p)
              /\ Access!Waits(p)' <=> Way!Waits(p)'
              /\ Access!Out(p) = Way!Out(p) /\ Access!Out(p)' = Way!Out(p)'
              /\ Access!HasMetMemory(p) <=> Way!HasMetMemory(p)
              /\ Access!HasMetMemory(p)' <=> Way!HasMetMemory(p)'
              /\ Access!Behind(p) = Way!Behind(p) /\ Access!Behind(p)' = Way!Behind(p)'
    /\ Way!NoReq = NoReq /\ Sys!NoReq = NoReq
  BY DEF Way!NoReq, NoReq, Sys!NoReq, Access!FifoOf, Way!FifoOf, Access!Waits, Way!Waits,
         Access!Out, Way!Out, Access!HasMetMemory, Way!HasMetMemory, Access!MemAnswers,
         Way!MemAnswers, Access!Behind, Way!Behind

-----------------------------------------------------------------------------
(* The invariant and the step, in the words of Sys and Way *)

DataPort == {"ReadData", "WriteData"}
Requests == Way!Requests

JointInv ==
    /\ Sys!SysInv
    /\ Way!AccessInv
    /\ \A p \in DataPort : Way!FifoOf(p).to_mbg # NoReq => Way!Waits(p) \/ Way!Out(p).valid
    /\ Way!HasMetMemory("ReadData") =>
           Way!Behind("ReadData").data = main_mem[read_fifo.to_mbg.addr]
    /\ Way!HasMetMemory("WriteData") =>
           main_mem[write_fifo.to_mbg.addr] = write_fifo.to_mbg.data
    /\ InstrReqTypeOK

LEMMA InvIsJoint == /\ AccessorsInv <=> JointInv
                    /\ AccessorsInv' <=> JointInv'
<1>1. AccessorsInv <=> JointInv
  BY SystemIsSys, AccessInvIsWay, PortsAreWay
     DEF AccessorsInv, JointInv, FifosHoldWhatIsUnderWay, AnswersAreCurrent, DataPort
<1>2. AccessorsInv' <=> JointInv'
  BY SystemIsSys, AccessInvIsWay, PortsAreWay
     DEF AccessorsInv, JointInv, FifosHoldWhatIsUnderWay, AnswersAreCurrent, DataPort, NoReq
<1>3. QED
  BY <1>1, <1>2

LEMMA PortNames ==
    /\ Way!Port = {"ReadInstr", "ReadData", "WriteData"} /\ DataPort \subseteq Way!Port
    /\ Way!FifoOf("ReadData") = read_fifo /\ Way!FifoOf("ReadData")' = read_fifo'
    /\ Way!FifoOf("WriteData") = write_fifo /\ Way!FifoOf("WriteData")' = write_fifo'
    /\ Requests["ReadInstr"] = instr_req
    /\ Requests["ReadData"] = ReadPort
    /\ Requests["WriteData"] = WritePort
  BY Way!PortIs, Way!ReqOfIs DEF DataPort, Requests, Way!Requests

\* What the LAR file asks, as the FIFOs see it.
LEMMA PortRequests ==
    ASSUME JointInv
    PROVE  /\ \A p \in Way!Port : Requests[p] \in Way!ClientRequest(p)
           /\ ReadPort.req <=> out_mem_read.req
           /\ WritePort.req <=> out_mem_write.req
           /\ out_mem_read.req => ReadPort.addr = out_mem_read.base_addr
                                  /\ out_mem_read.base_addr \in BaseAddr
           /\ out_mem_write.req => /\ WritePort.addr = out_mem_write.base_addr
                                   /\ WritePort.data = out_mem_write.data
                                   /\ out_mem_write = WriteBack(WritePort.addr, WritePort.data)
           /\ ReadPort.req \in BOOLEAN /\ WritePort.req \in BOOLEAN
<1>1. /\ out_mem_read \in {NoReq} \cup [req : {TRUE}, base_addr : BaseAddr]
      /\ out_mem_write \in {NoReq} \cup [req : {TRUE}, base_addr : BaseAddr, data : Data]
  BY DEF JointInv, Sys!SysInv, Sys!LarInv, Sys!TypeOK, Sys!NoReq, NoReq
<1>2. NoReq = [req |-> FALSE] /\ Way!NoReq = NoReq
  BY DEF NoReq, Way!NoReq
<1>3. /\ out_mem_read.req \in BOOLEAN
      /\ out_mem_read.req => out_mem_read.base_addr \in BaseAddr
  <2>1. CASE out_mem_read = NoReq
    BY <1>2, <2>1
  <2>2. CASE out_mem_read \in [req : {TRUE}, base_addr : BaseAddr]
    BY <2>2
  <2>3. QED
    BY <1>1, <2>1, <2>2
<1>4. /\ out_mem_write.req \in BOOLEAN
      /\ out_mem_write.req => /\ out_mem_write.base_addr \in BaseAddr
                              /\ out_mem_write.data \in Data
                              /\ out_mem_write = [req |-> TRUE, data |-> out_mem_write.data,
                                                  base_addr |-> out_mem_write.base_addr]
  <2>1. CASE out_mem_write = NoReq
    BY <1>2, <2>1
  <2>2. CASE out_mem_write \in [req : {TRUE}, base_addr : BaseAddr, data : Data]
    BY <2>2
  <2>3. QED
    BY <1>1, <2>1, <2>2
<1>5. ReadPort = IF out_mem_read.req
                 THEN [req |-> TRUE, addr |-> out_mem_read.base_addr] ELSE NoReq
  BY DEF ReadPort
<1>6. WritePort = IF out_mem_write.req
                  THEN [req |-> TRUE, addr |-> out_mem_write.base_addr,
                        data |-> out_mem_write.data] ELSE NoReq
  BY DEF WritePort
<1>7. instr_req \in Way!ClientRequest("ReadInstr")
  BY <1>2, InstrAddrAssumption
     DEF JointInv, InstrReqTypeOK, Way!ClientRequest, Way!ReadReq
<1>8. ReadPort \in Way!ClientRequest("ReadData")
  BY <1>2, <1>3, <1>5 DEF Way!ClientRequest, Way!ReadReq
<1>9. WritePort \in Way!ClientRequest("WriteData")
  BY <1>2, <1>4, <1>6 DEF Way!ClientRequest, Way!WriteReq
<1>10. out_mem_write.req => out_mem_write = WriteBack(WritePort.addr, WritePort.data)
  BY <1>4, <1>6 DEF WriteBack
<1>11. QED
  BY <1>2, <1>3, <1>4, <1>5, <1>6, <1>7, <1>8, <1>9, <1>10, PortNames

LEMMA StepIsJoint ==
    ASSUME JointInv, AccessorsNext
    PROVE  /\ Way!AccessStep(Requests)
           /\ Way!Serve \/ Way!NotYet
           /\ \E instr \in Sys!IncomingInstr : Sys!Wb!Clock(instr, out_wr_valid)
           /\ Sys!Clock(wr, read_fifo.out, WriteValid)
           /\ InstrReqTypeOK'
<1>1. Edge /\ (Access!Serve \/ Access!NotYet)
  BY DEF AccessorsNext, EdgeServe, EdgeNotYet
<1>2. Way!Clock(instr_req, ReadPort, WritePort) /\ (Way!Serve \/ Way!NotYet)
  BY <1>1, AccessStepIsWay DEF Edge
<1>3. Way!AccessStep(Requests)
  BY <1>2, PortNames, PortRequests DEF Way!AccessStep
<1>4. /\ \E instr \in Sys!IncomingInstr : Sys!Wb!Clock(instr, out_wr_valid)
      /\ Sys!Clock(wr, read_fifo.out, WriteValid)
  BY <1>1, LarFileIsSys, WbIsSys DEF Edge
<1>5. InstrReqTypeOK'
  BY <1>1 DEF Edge, InstrClient, InstrReqTypeOK, NoReq
<1>6. QED
  BY <1>2, <1>3, <1>4, <1>5

-----------------------------------------------------------------------------
(* Requests in progress are what the data FIFOs hold *)

LEMMA NoReqIsNotHeld ==
    ASSUME NEW p, NEW r \in Way!HeldRequest(p)
    PROVE  r # NoReq
<1>1. "addr" \in DOMAIN r
  BY DEF Way!HeldRequest
<1>2. DOMAIN NoReq = {"req"}
  BY DEF NoReq
<1>3. QED
  BY <1>1, <1>2

\* A FIFO holds a request exactly while it waits for its answer or hands it over.
LEMMA PortHolds ==
    ASSUME JointInv, NEW p \in DataPort
    PROVE  /\ Way!FifoOf(p).to_mbg # NoReq <=> Way!Waits(p) \/ Way!Out(p).valid
           /\ Way!FifoOf(p).to_mbg # NoReq => Way!FifoOf(p).to_mbg \in Way!HeldRequest(p)
           /\ Way!Waits(p) => ~Way!Out(p).valid
<1>1. /\ p \in Way!Port
      /\ Way!Waits(p) \/ Way!Out(p).valid => Way!FifoOf(p).to_mbg \in Way!HeldRequest(p)
  BY PortNames DEF JointInv, Way!AccessInv, Way!FifosHoldRequests
<1>2. NoReq \notin Way!HeldRequest(p)
  BY NoReqIsNotHeld
<1>3. Way!Waits(p) => ~Way!Out(p).valid
  BY <1>1, Way!AnswerIsInOnePlace DEF JointInv
<1>4. QED
  BY <1>1, <1>2, <1>3 DEF JointInv

LEMMA PendingReadIs ==
    ASSUME JointInv
    PROVE  /\ PendingRead # NoAddr <=> Way!Waits("ReadData") \/ Way!Out("ReadData").valid
           /\ PendingRead # NoAddr => /\ PendingRead = read_fifo.to_mbg.addr
                                      /\ PendingRead \in BaseAddr
<1>1. CASE read_fifo.to_mbg = NoReq
  BY <1>1, PortHolds, PortNames DEF PendingRead, DataPort
<1>2. CASE read_fifo.to_mbg # NoReq
  <2>1. read_fifo.to_mbg \in [req : BOOLEAN, addr : BaseAddr]
    BY <1>2, PortHolds, PortNames DEF Way!HeldRequest, DataPort
  <2>2. QED
    BY <1>2, <2>1, PortHolds, PortNames, NoAddrAssumption DEF PendingRead, DataPort
<1>3. QED
  BY <1>1, <1>2

LEMMA PendingWriteIs ==
    ASSUME JointInv
    PROVE  /\ PendingWrite.req <=> Way!Waits("WriteData") \/ Way!Out("WriteData").valid
           /\ PendingWrite.req \in BOOLEAN
           /\ PendingWrite.req => /\ PendingWrite.base_addr = write_fifo.to_mbg.addr
                                  /\ PendingWrite.data = write_fifo.to_mbg.data
                                  /\ PendingWrite.base_addr \in BaseAddr
                                  /\ PendingWrite.data \in Data
           /\ ~PendingWrite.req => PendingWrite = NoReq
<1>1. CASE write_fifo.to_mbg = NoReq
  BY <1>1, PortHolds, PortNames DEF PendingWrite, DataPort, NoReq
<1>2. CASE write_fifo.to_mbg # NoReq
  <2>1. write_fifo.to_mbg \in [req : BOOLEAN, addr : BaseAddr, data : Data]
    BY <1>2, PortHolds, PortNames DEF Way!HeldRequest, DataPort
  <2>2. PendingWrite = [req |-> TRUE, base_addr |-> write_fifo.to_mbg.addr,
                        data |-> write_fifo.to_mbg.data]
    BY <1>2 DEF PendingWrite, WriteBack
  <2>3. QED
    BY <1>2, <2>1, <2>2, PortHolds, PortNames DEF DataPort
<1>3. QED
  BY <1>1, <1>2

\* The LAR file asks only at a port that has nothing in progress.
LEMMA AsksAtIdlePort ==
    ASSUME JointInv, NEW p \in DataPort, Requests[p].req
    PROVE  ~Way!Waits(p) /\ ~Way!Out(p).valid
<1>1. /\ out_mem_read.req => PendingRead = NoAddr
      /\ out_mem_write.req => ~PendingWrite.req
  BY DEF JointInv, Sys!SysInv, Sys!WaitsForWhatIsUnderWay
<1>2. QED
  BY <1>1, PortNames, PortRequests, PendingReadIs, PendingWriteIs DEF DataPort

\* What an edge makes of a data FIFO's request.
LEMMA DataPortMoves ==
    ASSUME JointInv, AccessorsNext, NEW p \in DataPort
    PROVE  /\ Requests[p].req => Way!FifoOf(p)'.to_mbg = Requests[p] /\ Way!Waits(p)'
           /\ ~Requests[p].req /\ ~Way!Waits(p) => Way!FifoOf(p)'.to_mbg = NoReq
           /\ Way!Waits(p) => /\ ~Requests[p].req
                              /\ Way!SameRequest(p) /\ Way!FifoOf(p)'.to_mbg # NoReq
                              /\ Way!Waits(p)' \/ Way!Out(p)'.valid
<1>1. /\ p \in Way!Port /\ Way!AccessStep(Requests) /\ Way!AccessInv
      /\ Way!AccessTypeOK /\ Way!FifosHoldRequests /\ Way!AcceptedOnce
      /\ Way!NoReq = NoReq
  BY PortNames, StepIsJoint, PortsAreWay DEF JointInv, Way!AccessInv
<1>2. Requests[p].req => ~Way!Waits(p)
  BY AsksAtIdlePort
<1>3. Way!Waits(p)' <=> Way!FifoOf(p)'.state = "WaitForMem"
  BY DEF Way!Waits
<1>4. CASE Requests[p].req
  BY <1>1, <1>2, <1>3, <1>4, Way!FifoMoves
<1>5. CASE ~Requests[p].req /\ ~Way!Waits(p)
  BY <1>1, <1>5, Way!FifoMoves
<1>6. CASE Way!Waits(p)
  <2>1. Way!SameRequest(p)
    BY <1>1, <1>6, Way!FifoMoves
  <2>2. Way!FifoOf(p)'.to_mbg # NoReq
    BY <2>1, NoReqIsNotHeld DEF Way!SameRequest
  <2>3. CASE answer.port = p
    BY <1>1, <1>2, <1>6, <2>1, <2>2, <2>3, Way!AnswersTravel
  <2>4. CASE answer.port # p
    <3>1. Way!FifoOf(p)'.state = "WaitForMem"
      BY <1>1, <1>6, <2>4, Way!FifoMoves
    <3>2. QED
      BY <1>2, <1>3, <1>6, <2>1, <2>2, <3>1
  <2>5. QED
    BY <2>3, <2>4
<1>7. QED
  BY <1>2, <1>4, <1>5, <1>6

\* The requests in progress move as LarFileSystem says.
LEMMA PendingMoves ==
    ASSUME JointInv, AccessorsNext
    PROVE  /\ PendingRead' = IF out_mem_read.req THEN out_mem_read.base_addr
                             ELSE IF read_fifo.out.valid THEN NoAddr ELSE PendingRead
           /\ PendingWrite' = IF out_mem_write.req THEN out_mem_write
                              ELSE IF write_fifo.out.valid THEN NoReq ELSE PendingWrite
<1>1. /\ PendingRead' = IF read_fifo'.to_mbg = NoReq THEN NoAddr ELSE read_fifo'.to_mbg.addr
      /\ PendingWrite' = IF write_fifo'.to_mbg = NoReq THEN NoReq
                         ELSE WriteBack(write_fifo'.to_mbg.addr, write_fifo'.to_mbg.data)
  BY DEF PendingRead, PendingWrite, NoReq, WriteBack
<1>2. /\ Way!Out("ReadData") = read_fifo.out /\ Way!Out("WriteData") = write_fifo.out
  BY PortNames DEF Way!Out
<1>3. NoReq.req = FALSE
  BY DEF NoReq
<1>4. PendingRead' = IF out_mem_read.req THEN out_mem_read.base_addr
                     ELSE IF read_fifo.out.valid THEN NoAddr ELSE PendingRead
  <2>1. CASE out_mem_read.req
    BY <1>1, <1>3, <2>1, DataPortMoves, PortNames, PortRequests DEF DataPort
  <2>2. CASE ~out_mem_read.req /\ ~Way!Waits("ReadData")
    BY <1>1, <1>2, <2>2, DataPortMoves, PortNames, PortRequests, PendingReadIs DEF DataPort
  <2>3. CASE Way!Waits("ReadData")
    <3>1. /\ read_fifo'.to_mbg # NoReq /\ read_fifo'.to_mbg.addr = read_fifo.to_mbg.addr
          /\ ~out_mem_read.req /\ ~read_fifo.out.valid
      BY <1>2, <2>3, DataPortMoves, PortHolds, PortNames, PortRequests
         DEF DataPort, Way!SameRequest
    <3>2. QED
      BY <1>1, <2>3, <3>1, PendingReadIs
  <2>4. QED
    BY <2>1, <2>2, <2>3
<1>5. PendingWrite' = IF out_mem_write.req THEN out_mem_write
                      ELSE IF write_fifo.out.valid THEN NoReq ELSE PendingWrite
  <2>1. CASE out_mem_write.req
    BY <1>1, <1>3, <2>1, DataPortMoves, PortNames, PortRequests DEF DataPort
  <2>2. CASE ~out_mem_write.req /\ ~Way!Waits("WriteData")
    BY <1>1, <1>2, <2>2, DataPortMoves, PortNames, PortRequests, PendingWriteIs DEF DataPort
  <2>3. CASE Way!Waits("WriteData")
    <3>1. /\ write_fifo'.to_mbg # NoReq /\ write_fifo'.to_mbg.addr = write_fifo.to_mbg.addr
          /\ write_fifo'.to_mbg.data = write_fifo.to_mbg.data
          /\ ~out_mem_write.req /\ ~write_fifo.out.valid
      BY <1>2, <2>3, DataPortMoves, PortHolds, PortNames, PortRequests
         DEF DataPort, Way!SameRequest
    <3>2. PendingWrite' = WriteBack(write_fifo.to_mbg.addr, write_fifo.to_mbg.data)
      BY <1>1, <3>1
    <3>3. write_fifo.to_mbg # NoReq
      BY <2>3, PortHolds, PortNames DEF DataPort
    <3>4. QED
      BY <3>1, <3>2, <3>3 DEF PendingWrite
  <2>4. QED
    BY <2>1, <2>2, <2>3
<1>6. QED
  BY <1>4, <1>5

-----------------------------------------------------------------------------
(* One edge is a step of LarFileSystem *)

\* What the FIFOs hand the LAR file is what memory holds, and one answer at a time.
LEMMA AnswersToLarFile ==
    ASSUME JointInv
    PROVE  /\ read_fifo.out.valid =>
                 /\ PendingRead # NoAddr
                 /\ read_fifo.out = [valid |-> TRUE, data |-> main_mem[PendingRead]]
           /\ ~read_fifo.out.valid => read_fifo.out = Sys!NotValid
           /\ write_fifo.out.valid => WriteValid = Sys!WriteAnswer
           /\ ~write_fifo.out.valid => WriteValid = Sys!NotValid
           /\ ~(read_fifo.out.valid /\ write_fifo.out.valid)
<1>1. /\ Way!Out("ReadData") = read_fifo.out /\ Way!Out("WriteData") = write_fifo.out
      /\ Sys!NotValid = [valid |-> FALSE] /\ Way!NotValid = [valid |-> FALSE]
      /\ Sys!WriteAnswer = [valid |-> TRUE] /\ Way!WriteAnswer = [valid |-> TRUE]
  BY PortNames DEF Way!Out, Sys!NotValid, Way!NotValid, Sys!WriteAnswer, Way!WriteAnswer
<1>2. /\ read_fifo.out \in {[valid |-> FALSE]} \cup [valid : {TRUE}, data : Data]
      /\ write_fifo.out \in {[valid |-> FALSE], [valid |-> TRUE]}
  <2>1. \A p \in DataPort : Way!FifoOf(p).out \in {Way!NotValid} \cup Way!FifoAnswer(p)
    BY PortNames DEF JointInv, Way!AccessInv, Way!AccessTypeOK
  <2>2. QED
    BY <1>1, <2>1, PortNames DEF DataPort, Way!FifoAnswer
<1>3. read_fifo.out.valid => /\ PendingRead # NoAddr /\ PendingRead = read_fifo.to_mbg.addr
                             /\ Way!Behind("ReadData") = read_fifo.out
                             /\ read_fifo.out.data = main_mem[PendingRead]
  <2>1. read_fifo.out.valid => PendingRead # NoAddr /\ PendingRead = read_fifo.to_mbg.addr
    BY <1>1, PendingReadIs
  <2>2. read_fifo.out.valid => /\ Way!HasMetMemory("ReadData")
                               /\ Way!Behind("ReadData") = read_fifo.out
    <3>1. read_fifo.out.valid => answer.port # "ReadData" /\ stage_1_to_2 # "ReadData"
      BY <1>1, PortNames, Way!AnswerIsInOnePlace DEF JointInv
    <3>2. QED
      BY <1>1, <3>1 DEF Way!HasMetMemory, Way!Behind, Way!MemAnswers
  <2>3. QED
    BY <2>1, <2>2 DEF JointInv
<1>4. read_fifo.out.valid => read_fifo.out = [valid |-> TRUE, data |-> read_fifo.out.data]
  <2>1. CASE read_fifo.out = [valid |-> FALSE]
    BY <2>1
  <2>2. CASE read_fifo.out \in [valid : {TRUE}, data : Data]
    BY <2>2
  <2>3. QED
    BY <1>2, <2>1, <2>2
<1>5. ~read_fifo.out.valid => read_fifo.out = Sys!NotValid
  BY <1>1, <1>2
<1>6. /\ write_fifo.out.valid => WriteValid = Sys!WriteAnswer
      /\ ~write_fifo.out.valid => WriteValid = Sys!NotValid
  <2>1. WriteValid = [valid |-> write_fifo.out.valid]
    BY DEF WriteValid
  <2>2. CASE write_fifo.out = [valid |-> FALSE]
    BY <1>1, <2>1, <2>2
  <2>3. CASE write_fifo.out = [valid |-> TRUE]
    BY <1>1, <2>1, <2>3
  <2>4. QED
    BY <1>2, <2>2, <2>3
<1>7. ~(read_fifo.out.valid /\ write_fifo.out.valid)
  BY <1>1 DEF JointInv, Way!AccessInv, Way!OneDataAnswerPerEdge
<1>8. QED
  BY <1>3, <1>4, <1>5, <1>6, <1>7

\* Memory serves a request that waits and has not met memory yet.
LEMMA ServedPortWaits ==
    ASSUME JointInv, AccessorsNext, Way!Serve, NEW p \in Way!Port, p = Way!ServedPort
    PROVE  Way!Waits(p) /\ ~Way!HasMetMemory(p)
<1>1. /\ Way!AccessInv /\ Way!AcceptedOnce
      /\ p \in {stage_0_to_1, stage_1_to_2}
  BY DEF JointInv, Way!AccessInv, Way!ServedPort
<1>2. Way!Waits(p)
  BY <1>1 DEF Way!AcceptedOnce, Way!IsAccepted
<1>3. ~Way!Out(p).valid /\ answer.port # p
  BY <1>1, <1>2, Way!AnswerIsInOnePlace
<1>4. ~Way!MemAnswers(p)
  <2>1. CASE Way!Mbg!Stall(mem_out)
    BY <2>1 DEF Way!MemAnswers, Way!Mbg!Stall
  <2>2. CASE ~Way!Mbg!Stall(mem_out)
    BY <1>1, <2>2, Way!AnswerIsInOnePlace DEF Way!MemAnswers, Way!ServedPort
  <2>3. QED
    BY <2>1, <2>2
<1>5. QED
  BY <1>2, <1>3, <1>4 DEF Way!HasMetMemory

LandsWrite == Way!Serve /\ Way!ServedPort = "WriteData"

\* Memory changes only as the write in progress reaches it.
LEMMA MemoryMoves ==
    ASSUME JointInv, AccessorsNext
    PROVE  /\ ~LandsWrite => main_mem' = main_mem
           /\ LandsWrite => /\ PendingWrite.req /\ ~Way!HasMetMemory("WriteData")
                            /\ main_mem' = [main_mem EXCEPT ![PendingWrite.base_addr]
                                                               = PendingWrite.data]
<1>1. Way!AccessInv /\ Way!AccessStep(Requests) /\ (Way!Serve \/ Way!NotYet)
  BY StepIsJoint DEF JointInv
<1>2. CASE Way!Serve
  BY <1>1, <1>2, Way!MemoryServes, ServedPortWaits, PendingWriteIs, PortNames DEF LandsWrite
<1>3. CASE ~Way!Serve
  BY <1>1, <1>3 DEF LandsWrite, Way!NotYet
<1>4. QED
  BY <1>2, <1>3

\* A write whose answer is there has reached memory: writing it again changes nothing.
LEMMA WriteHasLanded ==
    ASSUME JointInv, AccessorsNext, write_fifo.out.valid
    PROVE  Sys!LandWrite
<1>1. Way!HasMetMemory("WriteData")
  BY PortNames DEF Way!HasMetMemory, Way!Out
<1>2. /\ PendingWrite.req /\ PendingWrite.base_addr \in BaseAddr
      /\ main_mem[PendingWrite.base_addr] = PendingWrite.data
  BY <1>1, PendingWriteIs, PortNames DEF JointInv, Way!Out
<1>3. main_mem' = main_mem /\ main_mem \in [BaseAddr -> Data]
  BY <1>1, MemoryMoves DEF JointInv, Sys!SysInv, Sys!SysTypes
<1>4. main_mem' = [main_mem EXCEPT ![PendingWrite.base_addr] = PendingWrite.data]
  BY <1>2, <1>3
<1>5. QED
  BY <1>2, <1>4 DEF Sys!LandWrite

LEMMA StepIsSysStep ==
    ASSUME JointInv, AccessorsNext
    PROVE  Sys!SysNext
<1>1. PICK instr \in Sys!IncomingInstr : Sys!Wb!Clock(instr, out_wr_valid)
  BY StepIsJoint
<1>2. Sys!Clock(wr, read_fifo.out, WriteValid)
  BY StepIsJoint
<1>3. Sys!MayLandWrite
  BY MemoryMoves DEF Sys!MayLandWrite, Sys!LandWrite
<1>4. /\ WriteValid.valid = write_fifo.out.valid
      /\ Sys!NotValid.valid = FALSE /\ Sys!WriteAnswer.valid = TRUE
      /\ Sys!NoReq = NoReq
  BY DEF WriteValid, Sys!NotValid, Sys!WriteAnswer, Sys!NoReq, NoReq
<1>5. Sys!Edge(instr, read_fifo.out, WriteValid)
  BY <1>1, <1>2, <1>4, PendingMoves DEF Sys!Edge
<1>6. CASE ~read_fifo.out.valid /\ ~write_fifo.out.valid
  <2>1. Sys!NoAnswer(instr)
    BY <1>3, <1>5, <1>6, AnswersToLarFile DEF Sys!NoAnswer
  <2>2. QED
    BY <2>1 DEF Sys!SysNext, Sys!SysStep
<1>7. CASE read_fifo.out.valid /\ ~write_fifo.out.valid
  <2>1. Sys!AnswerRead(instr)
    BY <1>3, <1>5, <1>7, AnswersToLarFile DEF Sys!AnswerRead
  <2>2. QED
    BY <2>1 DEF Sys!SysNext, Sys!SysStep
<1>8. CASE ~read_fifo.out.valid /\ write_fifo.out.valid
  <2>1. Sys!AnswerWrite(instr)
    BY <1>5, <1>8, AnswersToLarFile, WriteHasLanded DEF Sys!AnswerWrite
  <2>2. QED
    BY <2>1 DEF Sys!SysNext, Sys!SysStep
<1>9. QED
  BY <1>6, <1>7, <1>8, AnswersToLarFile

-----------------------------------------------------------------------------
(* The invariant is kept *)

\* A read whose line is on its way is still on its way, and no write-back reaches that
\* line meanwhile: the two in progress are for different lines.
LEMMA ReadStaysCurrent ==
    ASSUME JointInv, Way!AccessInv', AccessorsNext, Way!HasMetMemory("ReadData")'
    PROVE  Way!Behind("ReadData")'.data = main_mem'[read_fifo'.to_mbg.addr]
<1>1. /\ Way!AccessInv /\ Way!AcceptedOnce /\ Way!AccessStep(Requests)
      /\ "ReadData" \in Way!Port /\ "ReadData" \in DataPort
  BY StepIsJoint, PortNames DEF JointInv, Way!AccessInv, DataPort
<1>2. \/ answer.port = "ReadData"
      \/ Way!MemAnswers("ReadData")
      \/ Way!Serve /\ Way!ServedPort = "ReadData"
  BY <1>1, Way!MetMoves
<1>3. Way!Waits("ReadData")
  <2>1. answer.port = "ReadData" \/ Way!MemAnswers("ReadData") => Way!Waits("ReadData")
    BY <1>1 DEF Way!AcceptedOnce, Way!IsAccepted, Way!MemAnswers
  <2>2. QED
    BY <1>1, <1>2, <2>1, ServedPortWaits
<1>4. /\ read_fifo'.to_mbg.addr = read_fifo.to_mbg.addr
      /\ PendingRead # NoAddr /\ PendingRead = read_fifo.to_mbg.addr
      /\ ~Way!Out("ReadData").valid
  BY <1>1, <1>3, DataPortMoves, PendingReadIs, PortHolds, PortNames DEF Way!SameRequest
<1>5. PendingWrite.req => PendingWrite.base_addr # PendingRead
  BY <1>4 DEF JointInv, Sys!SysInv, Sys!WaitsForWhatIsUnderWay
<1>6. main_mem'[PendingRead] = main_mem[PendingRead]
  <2>1. CASE LandsWrite
    <3>1. main_mem \in [BaseAddr -> Data] /\ PendingRead \in BaseAddr
      BY <1>4, PendingReadIs DEF JointInv, Sys!SysInv, Sys!SysTypes
    <3>2. QED
      BY <1>5, <2>1, <3>1, MemoryMoves
  <2>2. CASE ~LandsWrite
    BY <2>2, MemoryMoves
  <2>3. QED
    BY <2>1, <2>2
<1>7. CASE answer.port = "ReadData"
  <2>1. Way!HasMetMemory("ReadData") /\ Way!Behind("ReadData") = answer
    <3>1. stage_1_to_2 # "ReadData"
      BY <1>1, <1>7, Way!AnswerIsInOnePlace
    <3>2. QED
      BY <1>4, <1>7, <3>1 DEF Way!HasMetMemory, Way!Behind, Way!MemAnswers
  <2>2. Way!Behind("ReadData")'.data = answer.data
    BY <1>1, <1>7, Way!MetMoves
  <2>3. QED
    BY <1>4, <1>6, <2>1, <2>2 DEF JointInv
<1>8. CASE Way!MemAnswers("ReadData")
  <2>1. Way!HasMetMemory("ReadData") /\ Way!Behind("ReadData") = mem_out
    <3>1. answer.port # "ReadData"
      BY <1>1, <1>8, Way!AnswerIsInOnePlace DEF Way!MemAnswers
    <3>2. QED
      BY <1>4, <1>8, <3>1 DEF Way!HasMetMemory, Way!Behind
  <2>2. Way!Behind("ReadData")'.data = mem_out.data
    BY <1>1, <1>8, Way!MetMoves
  <2>3. QED
    BY <1>4, <1>6, <2>1, <2>2 DEF JointInv
<1>9. CASE Way!Serve /\ Way!ServedPort = "ReadData"
  <2>1. Way!Behind("ReadData")'.data = main_mem[read_fifo.to_mbg.addr]
    BY <1>1, <1>9, Way!MetMoves, PortNames
  <2>2. QED
    BY <1>4, <1>6, <2>1
<1>10. QED
  BY <1>2, <1>7, <1>8, <1>9

\* A write-back that has met memory is what memory holds until its answer is taken.
LEMMA WriteStaysCurrent ==
    ASSUME JointInv, Way!AccessInv', AccessorsNext, Way!HasMetMemory("WriteData")'
    PROVE  main_mem'[write_fifo'.to_mbg.addr] = write_fifo'.to_mbg.data
<1>1. /\ Way!AccessInv /\ Way!AcceptedOnce /\ Way!AccessStep(Requests)
      /\ "WriteData" \in Way!Port /\ "WriteData" \in DataPort
  BY StepIsJoint, PortNames DEF JointInv, Way!AccessInv, DataPort
<1>2. answer.port = "WriteData" \/ Way!MemAnswers("WriteData") \/ LandsWrite
  BY <1>1, Way!MetMoves DEF LandsWrite
<1>3. Way!Waits("WriteData")
  <2>1. answer.port = "WriteData" \/ Way!MemAnswers("WriteData") => Way!Waits("WriteData")
    BY <1>1 DEF Way!AcceptedOnce, Way!IsAccepted, Way!MemAnswers
  <2>2. QED
    BY <1>1, <1>2, <2>1, ServedPortWaits DEF LandsWrite
<1>4. /\ write_fifo'.to_mbg.addr = write_fifo.to_mbg.addr
      /\ write_fifo'.to_mbg.data = write_fifo.to_mbg.data
  BY <1>1, <1>3, DataPortMoves, PortNames DEF Way!SameRequest
<1>5. /\ PendingWrite.base_addr = write_fifo.to_mbg.addr /\ PendingWrite.base_addr \in BaseAddr
      /\ PendingWrite.data = write_fifo.to_mbg.data
      /\ main_mem \in [BaseAddr -> Data]
  BY <1>3, PendingWriteIs DEF JointInv, Sys!SysInv, Sys!SysTypes
<1>6. CASE LandsWrite
  BY <1>4, <1>5, <1>6, MemoryMoves
<1>7. CASE ~LandsWrite
  <2>1. Way!HasMetMemory("WriteData")
    BY <1>2, <1>7 DEF Way!HasMetMemory
  <2>2. main_mem' = main_mem
    BY <1>7, MemoryMoves
  <2>3. QED
    BY <1>4, <2>1, <2>2 DEF JointInv
<1>8. QED
  BY <1>6, <1>7

LEMMA NextKeepsJoint ==
    ASSUME JointInv, AccessorsNext
    PROVE  JointInv'
<1>1. Sys!SysInv'
  BY StepIsSysStep, Sys!SysNextKeepsInv, NoAddrAssumption, NumLarsAssumption, ResetAssumption
     DEF JointInv
<1>2. Way!AccessInv'
  BY StepIsJoint, Way!AccessStepKeepsInv DEF JointInv
<1>3. ASSUME NEW p \in DataPort, Way!FifoOf(p)'.to_mbg # NoReq
      PROVE  Way!Waits(p)' \/ Way!Out(p)'.valid
  BY <1>3, DataPortMoves
<1>4. InstrReqTypeOK'
  BY StepIsJoint
<1>5. NoReq' = NoReq
  BY DEF NoReq
<1>6. QED
  BY <1>1, <1>2, <1>3, <1>4, <1>5, ReadStaysCurrent, WriteStaysCurrent DEF JointInv, DataPort

LEMMA InitHasJoint ==
    ASSUME AccessorsInit
    PROVE  JointInv /\ Sys!SysInit
<1>1. /\ Sys!Init /\ Sys!Wb!Init /\ Way!Init
      /\ instr_req = NoReq
  BY LarFileIsSys, WbIsSys, AccessStepIsWay DEF AccessorsInit
<1>2. /\ Way!AccessInv
      /\ \A p \in Way!Port : Way!FifoOf(p) = [state |-> "Idle", cmd_was_accepted |-> FALSE,
                                              to_mbg |-> Way!NoReq, out |-> Way!NotValid]
      /\ answer.port = "None" /\ mem_out = Way!NotValid
      /\ main_mem \in [BaseAddr -> Data]
  BY <1>1, Way!AccessInitHasInv, Way!FifosInit
     DEF Way!Init, Way!Mbg!Init, Way!Mbg!NoAnswer
<1>3. Way!NoReq = NoReq /\ Sys!NoReq = NoReq /\ Way!NotValid = [valid |-> FALSE]
  BY PortsAreWay DEF Way!NotValid
<1>4. \A p \in DataPort : /\ Way!FifoOf(p).to_mbg = NoReq
                          /\ ~Way!HasMetMemory(p)
  BY <1>2, <1>3, PortNames DEF Way!HasMetMemory, Way!Out, Way!MemAnswers, DataPort
<1>5. PendingRead = NoAddr /\ PendingWrite = NoReq
  BY <1>4, PortNames DEF PendingRead, PendingWrite, DataPort
<1>6. Sys!SysInit
  BY <1>1, <1>2, <1>3, <1>5 DEF Sys!SysInit
<1>7. Sys!SysInv
  BY <1>6, Sys!SysInitHasInv, NoAddrAssumption, NumLarsAssumption, ResetAssumption
<1>8. QED
  BY <1>1, <1>2, <1>4, <1>6, <1>7 DEF JointInv, DataPort, InstrReqTypeOK

LEMMA Unchanged ==
    ASSUME UNCHANGED vars
    PROVE  /\ UNCHANGED Sys!vars /\ UNCHANGED Way!accessVars
           /\ UNCHANGED <<read_fifo, write_fifo, main_mem, instr_req>>
<1>1. UNCHANGED <<larVars, wbVars, instrVars, Access!accessVars>>
  BY DEF vars
<1>2. UNCHANGED Way!accessVars
  BY <1>1, AccessStepIsWay
<1>3. UNCHANGED <<read_fifo, write_fifo, main_mem, instr_req>>
  BY <1>1, <1>2, Way!AccessUnchanged DEF instrVars
<1>4. UNCHANGED <<PendingRead, PendingWrite>>
  BY <1>3 DEF PendingRead, PendingWrite, NoReq, WriteBack
<1>5. UNCHANGED Sys!vars
  BY <1>1, <1>3, <1>4
     DEF Sys!vars, Sys!larVars, Sys!wbVars, Sys!memVars, Sys!metadataVars, Sys!shareddataVars,
         Sys!stackVars, Sys!outVars, larVars, wbVars, metadataVars, shareddataVars,
         stackVars, outVars
<1>6. QED
  BY <1>2, <1>3, <1>5

LEMMA StutterKeepsJoint ==
    ASSUME JointInv, UNCHANGED vars
    PROVE  JointInv'
<1>1. Sys!SysInv'
  BY Unchanged, Sys!SysStutterKeepsInv, NoAddrAssumption, NumLarsAssumption, ResetAssumption
     DEF JointInv
<1>2. Way!AccessInv'
  BY Unchanged, Way!AccessStutterKeepsInv DEF JointInv
<1>3. \A p \in DataPort : /\ Way!FifoOf(p)' = Way!FifoOf(p)
                          /\ Way!Waits(p)' <=> Way!Waits(p)
                          /\ Way!Out(p)' = Way!Out(p)
                          /\ Way!HasMetMemory(p)' <=> Way!HasMetMemory(p)
                          /\ Way!Behind(p)' = Way!Behind(p)
  BY Unchanged, Way!AccessUnchanged
     DEF Way!FifoOf, Way!Waits, Way!Out, Way!HasMetMemory, Way!Behind, Way!MemAnswers
<1>4. QED
  BY <1>1, <1>2, <1>3, Unchanged DEF JointInv, InstrReqTypeOK, NoReq, DataPort

-----------------------------------------------------------------------------
(* Theorems *)

\* The LAR file, the write-back stage, the FIFOs, the guard and memory always agree, with
\* instruction reads of any line in between.
THEOREM AccessorsInvariant == AccessorsSpec => []AccessorsInv
<1>1. AccessorsInit => AccessorsInv
  BY InitHasJoint, InvIsJoint
<1>2. AccessorsInv /\ [AccessorsNext]_vars => AccessorsInv'
  BY NextKeepsJoint, StutterKeepsJoint, InvIsJoint
<1>3. QED
  BY <1>1, <1>2, PTL DEF AccessorsSpec

\* The way to memory is the abstract memory of LarFileSystem: behind the FIFOs and the
\* guard, the LAR file cannot tell the difference.
THEOREM AccessorsAreLarFileSystem == AccessorsSpec => ImplementsLarFileSystem
<1>1. AccessorsInit => System!SysInit
  BY InitHasJoint, SystemStepIsSys
<1>2. AccessorsInv /\ [AccessorsNext]_vars => [System!SysNext]_(System!vars)
  BY StepIsSysStep, Unchanged, InvIsJoint, SystemStepIsSys
<1>3. QED
  BY <1>1, <1>2, AccessorsInvariant, PTL
     DEF AccessorsSpec, ImplementsLarFileSystem, System!SysSpec

\* So the LAR file wired to memory is a flat memory: no sequence of results, loads and
\* stores, with instruction reads in between and any memory latency, loses a write.
THEOREM AccessorsAreFlatMemory == AccessorsSpec => Sys!ImplementsFlatMemory
<1>1. Sys!SysSpec => Sys!ImplementsFlatMemory
  BY Sys!LarFileIsFlatMemory, NoAddrAssumption, NumLarsAssumption, ResetAssumption
<1>2. AccessorsInit => Sys!SysInit
  BY InitHasJoint
<1>3. AccessorsInv /\ [AccessorsNext]_vars => [Sys!SysNext]_(Sys!vars)
  BY StepIsSysStep, Unchanged, InvIsJoint
<1>4. QED
  BY <1>1, <1>2, <1>3, AccessorsInvariant, PTL DEF AccessorsSpec, Sys!SysSpec
=============================================================================
