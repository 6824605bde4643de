------------------------ MODULE LarFileSystem_proofs ------------------------
(***************************************************************************)
(* Proofs about the LAR file between write-back and memory, for every       *)
(* number of LARs, set of addresses and set of lines, every sequence of     *)
(* instructions and every latency and order of memory's answers.            *)
(***************************************************************************)
EXTENDS LarFileSystem, LarFile_proofs

-----------------------------------------------------------------------------
(* One step is one edge of every register, with at most one answer. *)

\* What memory may answer at an edge, and what it does to itself then.
MemoryAnswers(in_mem_read, in_mem_write) ==
    /\ in_mem_read \in InMemRead /\ in_mem_read.valid \in BOOLEAN
    /\ in_mem_write \in InMemWrite /\ in_mem_write.valid \in BOOLEAN
    /\ in_mem_read.valid => pending_read # NoAddr /\ in_mem_read.data = main_mem[pending_read]
    /\ in_mem_write.valid => LandWrite
    /\ ~(in_mem_read.valid /\ in_mem_write.valid)
    /\ MayLandWrite

LEMMA StepIsEdge ==
    ASSUME SysTypes, SysNext
    PROVE  \E instr \in Wb!Instr, in_mem_read \in InMemRead, in_mem_write \in InMemWrite :
               /\ Edge(instr, in_mem_read, in_mem_write)
               /\ MemoryAnswers(in_mem_read, in_mem_write)
<1>1. PICK instr \in IncomingInstr : SysStep(instr)
  BY DEF SysNext
<1>2. instr \in Wb!Instr
  BY <1>1 DEF IncomingInstr, Wb!Instr
<1>3. /\ NotValid \in InMemRead /\ NotValid \in InMemWrite /\ NotValid.valid = FALSE
      /\ WriteAnswer \in InMemWrite /\ WriteAnswer.valid = TRUE
  BY DEF InMemRead, InMemWrite, NotValid, WriteAnswer
<1>4. CASE NoAnswer(instr)
  <2>1. MemoryAnswers(NotValid, NotValid)
    BY <1>3, <1>4 DEF MemoryAnswers, NoAnswer
  <2>2. QED
    BY <1>2, <1>3, <1>4, <2>1 DEF NoAnswer
<1>5. CASE AnswerRead(instr)
  <2> DEFINE r == [valid |-> TRUE, data |-> main_mem[pending_read]]
  <2>1. r \in InMemRead
    BY <1>5 DEF AnswerRead, SysTypes, InMemRead, ReadAnswer
  <2>2. MemoryAnswers(r, NotValid)
    BY <1>3, <1>5, <2>1 DEF MemoryAnswers, AnswerRead
  <2>3. Edge(instr, r, NotValid)
    BY <1>5 DEF AnswerRead
  <2>4. QED
    BY <1>2, <1>3, <2>1, <2>2, <2>3
<1>6. CASE AnswerWrite(instr)
  <2>1. MemoryAnswers(NotValid, WriteAnswer)
    BY <1>3, <1>6 DEF MemoryAnswers, AnswerWrite, MayLandWrite
  <2>2. QED
    BY <1>2, <1>3, <1>6, <2>1 DEF AnswerWrite
<1>7. QED
  BY <1>1, <1>4, <1>5, <1>6 DEF SysStep

LEMMA WbRequestIsInWr == WbRequest \subseteq InWr
  BY DEF WbRequest, InWr

\* An edge of the system is an edge of the LAR file alone, with some inputs.
LEMMA EdgeIsLarStep ==
    ASSUME SysTypes, NEW instr, NEW in_mem_read \in InMemRead, NEW in_mem_write \in InMemWrite,
           Edge(instr, in_mem_read, in_mem_write)
    PROVE  Next
  BY WbRequestIsInWr DEF SysTypes, Edge, Clock, Next

LEMMA DataWriteTypes ==
    ASSUME LarInv
    PROVE  /\ data_wr.req \in BOOLEAN
           /\ data_wr.req => data_wr.index \in Tags /\ data_wr.data \in Data
<1>1. data_wr \in {NoReq} \cup [req : {TRUE}, index : Tags, data : Data]
  BY DEF LarInv, TypeOK
<1>2. NoReq.req = FALSE
  BY DEF NoReq
<1>3. QED
  BY <1>1, <1>2

\* What the registers between the LAR file and memory hold.
LEMMA PortTypes ==
    ASSUME LarInv, SysTypes
    PROVE  /\ out_mem_read.req \in BOOLEAN /\ out_mem_write.req \in BOOLEAN
           /\ out_mem_read.req => out_mem_read.base_addr \in BaseAddr
           /\ ~out_mem_read.req => out_mem_read = NoReq
           /\ out_mem_write.req => out_mem_write \in MemWrite
           /\ ~out_mem_write.req => out_mem_write = NoReq
           /\ pending_write.req \in BOOLEAN
           /\ pending_write.req => pending_write \in MemWrite
<1>1. NoReq.req = FALSE
  BY DEF NoReq
<1>2. \A w \in MemWrite : w.req = TRUE
  BY DEF MemWrite
<1>3. out_mem_read \in {NoReq} \cup [req : {TRUE}, base_addr : BaseAddr]
  BY DEF LarInv, TypeOK
<1>4. out_mem_write \in {NoReq} \cup MemWrite /\ pending_write \in {NoReq} \cup MemWrite
  BY DEF LarInv, TypeOK, SysTypes, MemWrite
<1>5. QED
  BY <1>1, <1>2, <1>3, <1>4

-----------------------------------------------------------------------------
(* Data and memory, seen through what is under way *)

\* A landing of the block RAM cannot be seen: an element's data changes when its
\* write is accepted.
LEMMA CurrentDataStep ==
    ASSUME LarInv, ShareddataData
    PROVE  /\ \A t \in Tags : CurrentData(t) \in Data
           /\ \A t \in Tags : data'[t] = CurrentData(t)
           /\ \A t \in Tags : CurrentData(t)' = IF data_wr'.req
                                                THEN IF data_wr'.index = t THEN data_wr'.data
                                                     ELSE CurrentData(t)
                                                ELSE CurrentData(t)
<1>1. data \in [Tags -> Data]
  BY DEF LarInv, TypeOK
<1>2. data_wr.req => data_wr.index \in Tags /\ data_wr.data \in Data
  BY DataWriteTypes
<1>3. \A t \in Tags : data'[t] = CurrentData(t)
  BY <1>1, <1>2 DEF ShareddataData, CurrentData
<1>4. \A t \in Tags : CurrentData(t) \in Data
  BY <1>1, <1>2 DEF CurrentData
<1>5. QED
  BY <1>3, <1>4 DEF CurrentData

\* Neither can the way of a write-back to memory: the line changes when the FSM asks for it.
LEMMA MemoryAtStep ==
    ASSUME LarInv, SysTypes, WaitsForWhatIsUnderWay,
           NEW instr, NEW in_mem_read, NEW in_mem_write,
           Edge(instr, in_mem_read, in_mem_write), MemoryAnswers(in_mem_read, in_mem_write)
    PROVE  \A a \in BaseAddr :
               /\ MemoryAt(a) \in Data
               /\ MemoryAt(a)' = IF out_mem_write'.req /\ out_mem_write'.base_addr = a
                                 THEN out_mem_write'.data ELSE MemoryAt(a)
<1> SUFFICES ASSUME NEW a \in BaseAddr
             PROVE  /\ MemoryAt(a) \in Data
                    /\ MemoryAt(a)' = IF out_mem_write'.req /\ out_mem_write'.base_addr = a
                                      THEN out_mem_write'.data ELSE MemoryAt(a)
  OBVIOUS
<1>1. /\ main_mem \in [BaseAddr -> Data]
      /\ ~(out_mem_write.req /\ pending_write.req)
  BY DEF SysTypes, WaitsForWhatIsUnderWay
<1>2. pending_write' = IF out_mem_write.req THEN out_mem_write
                       ELSE IF in_mem_write.valid THEN NoReq ELSE pending_write
  BY DEF Edge
<1>3. /\ \/ main_mem' = main_mem
         \/ /\ pending_write.req
            /\ main_mem' = [main_mem EXCEPT ![pending_write.base_addr] = pending_write.data]
      /\ in_mem_write.valid =>
            /\ pending_write.req
            /\ main_mem' = [main_mem EXCEPT ![pending_write.base_addr] = pending_write.data]
  BY DEF MemoryAnswers, MayLandWrite, LandWrite
<1>4. /\ out_mem_write.req => out_mem_write.data \in Data
      /\ pending_write.req => pending_write.data \in Data /\ pending_write.base_addr \in BaseAddr
  BY PortTypes DEF MemWrite
<1>5. MemoryAt(a) \in Data
  BY <1>1, <1>4 DEF MemoryAt
<1>6. (IF pending_write'.req /\ pending_write'.base_addr = a THEN pending_write'.data
       ELSE main_mem'[a]) = MemoryAt(a)
  <2>1. CASE out_mem_write.req
    BY <1>1, <1>2, <1>3, <2>1 DEF MemoryAt
  <2>2. CASE ~out_mem_write.req /\ in_mem_write.valid
    BY <1>1, <1>2, <1>3, <1>4, <2>2 DEF MemoryAt, NoReq
  <2>3. CASE ~out_mem_write.req /\ ~in_mem_write.valid
    BY <1>1, <1>2, <1>3, <1>4, <2>3 DEF MemoryAt
  <2>4. QED
    BY <2>1, <2>2, <2>3
<1>7. QED
  BY <1>5, <1>6 DEF MemoryAt

-----------------------------------------------------------------------------
(* The write-back stage *)

LEMMA InstrTypes ==
    ASSUME NEW instr \in Wb!Instr
    PROVE  /\ instr.group = 0 => instr.ra \in Lars /\ instr.computed_data \in Data
           /\ instr.group \in {2, 3} => instr \in Wb!LdStInstr
<1>1. /\ 0 \in Lars /\ Zero \in Data
  BY NumLarsAssumption, ResetAssumption DEF Lars
<1>2. CASE instr \in Wb!AluInstr
  BY <1>2 DEF Wb!AluInstr
<1>3. CASE instr \in Wb!LdStInstr
  BY <1>3 DEF Wb!LdStInstr
<1>4. CASE instr = Wb!NoWriteInstr \/ instr = Wb!Bubble
  BY <1>1, <1>4 DEF Wb!NoWriteInstr, Wb!Bubble
<1>5. QED
  BY <1>2, <1>3, <1>4 DEF Wb!Instr

LEMMA LdStRequestType ==
    ASSUME NEW instr \in Wb!LdStInstr
    PROVE  Wb!LdStRequest(instr) \in LdStReq
  BY DEF Wb!LdStInstr, Wb!LdStRequest, LdStReq

\* What each state of the write-back stage makes of its registers.
LEMMA WbMoves ==
    ASSUME SysTypes, NEW instr \in Wb!Instr, Wb!Clock(instr, out_wr_valid)
    PROVE  /\ wb_state = "StRegular" =>
                \/ wb_state' = "StRegular" /\ wr' \in {NoReq} \cup WriteReq
                \/ wb_state' = "StPrepLdSt" /\ wr' = wr
           /\ wb_state = "StPrepLdSt" =>
                wb_state' = "StWaitForLarFileValid" /\ wr' \in LdStReq
           /\ wb_state = "StWaitForLarFileValid" =>
                /\ wb_state' = IF out_wr_valid THEN "StRegular" ELSE "StWaitForLarFileValid"
                /\ wr' = NoReq
           /\ captured_decoded_instr' \in Wb!Instr
           /\ wb_state' = "StPrepLdSt" => captured_decoded_instr' \in Wb!LdStInstr
<1>1. NoReq = Wb!NoReq
  BY DEF NoReq, Wb!NoReq
<1>2. CASE wb_state = "StRegular"
  <2>1. CASE Wb!RegularWrite(instr)
    <3>1. wr' \in WriteReq
      BY <2>1, InstrTypes DEF Wb!RegularWrite, WriteReq
    <3>2. QED
      BY <1>2, <2>1, <3>1 DEF Wb!RegularWrite, SysTypes
  <2>2. CASE Wb!RegularNoWrite(instr)
    BY <1>1, <1>2, <2>2 DEF Wb!RegularNoWrite, SysTypes
  <2>3. CASE Wb!RegularLdSt(instr)
    BY <1>2, <2>3, InstrTypes DEF Wb!RegularLdSt
  <2>4. QED
    BY <1>2, <2>1, <2>2, <2>3 DEF Wb!Clock, Wb!PrepLdSt, Wb!WaitForLarFileValid
<1>3. CASE wb_state = "StPrepLdSt"
  <2>1. Wb!PrepLdSt
    BY <1>3 DEF Wb!Clock, Wb!RegularWrite, Wb!RegularNoWrite, Wb!RegularLdSt,
                Wb!WaitForLarFileValid
  <2>2. wr' \in LdStReq
    BY <1>3, <2>1, LdStRequestType DEF Wb!PrepLdSt, SysTypes
  <2>3. QED
    BY <1>3, <2>1, <2>2 DEF Wb!PrepLdSt, SysTypes
<1>4. CASE wb_state = "StWaitForLarFileValid"
  <2>1. Wb!WaitForLarFileValid(out_wr_valid)
    BY <1>4 DEF Wb!Clock, Wb!RegularWrite, Wb!RegularNoWrite, Wb!RegularLdSt, Wb!PrepLdSt
  <2>2. Wb!NothingCaptured \in Wb!Instr
    BY DEF Wb!NothingCaptured, Wb!Instr
  <2>3. QED
    BY <1>1, <1>4, <2>1, <2>2 DEF Wb!WaitForLarFileValid, Wb!DropRequest, SysTypes
<1>5. QED
  BY <1>2, <1>3, <1>4 DEF SysTypes

\* When the write FSM leaves the idle state and when it comes back to it.
LEMMA FsmMoves ==
    ASSUME LarInv, NEW in_mem_read, NEW in_mem_write, Clock(wr, in_mem_read, in_mem_write)
    PROVE  /\ wr_state = "WrStIdle" =>
                /\ IdleFsm(wr) /\ out_wr_valid' = FALSE
                /\ wr_state' # "WrStIdle" =>
                      /\ wr_state' = "WrStStartLdSt" /\ IdleStartLdSt(wr)
                      /\ wr.req /\ wr.write_type \in {"Ld", "St"}
           /\ wr_state # "WrStIdle" =>
                /\ StartLdStFsm \/ WaitFsm(in_mem_read, in_mem_write)
                /\ \/ wr_state' = "WrStIdle" /\ out_wr_valid' = TRUE
                   \/ wr_state' # "WrStIdle" /\ out_wr_valid' = out_wr_valid
<1>1. CASE IdleFsm(wr)
  BY <1>1 DEF IdleFsm, IdleNoWrite, IdleWriteData, IdleStartLdSt, InIdle, StartsLdSt
<1>2. CASE StartLdStFsm
  BY <1>2 DEF StartLdStFsm, HitOwnElement, HitFromUnallocated, HitFreeingOldTag,
              HitLeavingSharedTag, MissFromUnallocated, MissSoleReference, MissLeavingSharedTag,
              JoinAliased, InMiss, InStartLdSt, finish_ldst, WaitIn
<1>3. CASE WaitFsm(in_mem_read, in_mem_write)
  BY <1>3 DEF WaitFsm, WaitForJustMemRead, WaitForJustMemWrite, WaitForMemReadAndMemWrite,
              InWait, finish_ldst
<1>4. QED
  BY <1>1, <1>2, <1>3 DEF Clock

LEMMA RequestTypes ==
    ASSUME NEW w \in WbRequest
    PROVE  /\ w.req \in BOOLEAN
           /\ w \in WriteReq => w.req /\ w.write_type = "OnlyData"
           /\ w \in LdStReq => w.req /\ w.write_type \in {"Ld", "St"}
           /\ w = NoReq => ~w.req
<1>1. \A v \in WriteReq : v.req = TRUE /\ v.write_type = "OnlyData"
  BY DEF WriteReq
<1>2. \A v \in LdStReq : v.req = TRUE /\ v.write_type \in {"Ld", "St"}
  BY DEF LdStReq
<1>3. NoReq.req = FALSE
  BY DEF NoReq
<1>4. QED
  BY <1>1, <1>2, <1>3 DEF WbRequest

LEMMA TypesStep ==
    ASSUME LarInv, SysTypes, NEW instr \in Wb!Instr, NEW in_mem_read, NEW in_mem_write,
           Edge(instr, in_mem_read, in_mem_write), MemoryAnswers(in_mem_read, in_mem_write)
    PROVE  SysTypes'
<1>1. Wb!Clock(instr, out_wr_valid)
  BY DEF Edge
<1>2. /\ wb_state' \in {"StRegular", "StPrepLdSt", "StWaitForLarFileValid"}
      /\ wr' \in WbRequest
      /\ captured_decoded_instr' \in Wb!Instr
      /\ wb_state' = "StPrepLdSt" => captured_decoded_instr' \in Wb!LdStInstr
  BY <1>1, WbMoves DEF SysTypes, WbRequest
<1>3. main_mem' \in [BaseAddr -> Data]
  <2>1. pending_write.req => pending_write \in MemWrite
    BY PortTypes
  <2>2. QED
    BY <2>1 DEF MemoryAnswers, MayLandWrite, LandWrite, SysTypes, MemWrite
<1>4. pending_read' \in BaseAddr \cup {NoAddr}
  BY PortTypes DEF Edge, SysTypes
<1>5. pending_write' \in {NoReq} \cup MemWrite
  BY PortTypes DEF Edge, SysTypes
<1>6. QED
  BY <1>2, <1>3, <1>4, <1>5 DEF SysTypes

LEMMA WriteBackWaitsStep ==
    ASSUME LarInv, SysTypes, WriteBackWaits, NEW instr \in Wb!Instr,
           NEW in_mem_read, NEW in_mem_write,
           Edge(instr, in_mem_read, in_mem_write), MemoryAnswers(in_mem_read, in_mem_write)
    PROVE  WriteBackWaits'
<1>1. Wb!Clock(instr, out_wr_valid) /\ Clock(wr, in_mem_read, in_mem_write)
  BY DEF Edge
<1>2. wr \in WbRequest /\ wr' \in WbRequest
  BY TypesStep DEF SysTypes
<1>3. CASE wb_state = "StRegular"
  BY <1>1, <1>2, <1>3, WbMoves, FsmMoves, RequestTypes DEF WriteBackWaits
<1>4. CASE wb_state = "StPrepLdSt"
  BY <1>1, <1>2, <1>4, WbMoves, FsmMoves, RequestTypes DEF WriteBackWaits
<1>5. CASE wb_state = "StWaitForLarFileValid"
  BY <1>1, <1>2, <1>5, WbMoves, FsmMoves, RequestTypes DEF WriteBackWaits, NoReq
<1>6. QED
  BY <1>3, <1>4, <1>5 DEF SysTypes

-----------------------------------------------------------------------------
(* A load or store moves its LAR to another element, or its element to another  *)
(* line: what the six actions that do so have in common                         *)

LarMoves ==
    \/ HitFromUnallocated
    \/ HitFreeingOldTag
    \/ HitLeavingSharedTag
    \/ MissFromUnallocated
    \/ MissSoleReference
    \/ MissLeavingSharedTag

IsHit == captured.aliased # UnallocatedTag

LEMMA MoveKinds ==
    ASSUME LarInv, LarMoves
    PROVE  /\ wr_state = "WrStStartLdSt" /\ InStartLdSt
           /\ IsHit => /\ JoinAliased
                       /\ HitFromUnallocated \/ HitFreeingOldTag \/ HitLeavingSharedTag
           /\ ~IsHit => MissFromUnallocated \/ MissSoleReference \/ MissLeavingSharedTag
           /\ IsLd <=> ~IsSt
<1>1. wr_state = "WrStStartLdSt" /\ InStartLdSt
  BY DEF LarMoves, HitFromUnallocated, HitFreeingOldTag, HitLeavingSharedTag,
         MissFromUnallocated, MissSoleReference, MissLeavingSharedTag, JoinAliased, InMiss,
         InStartLdSt
<1>2. IsLd <=> ~IsSt
  BY <1>1, StartTypes DEF IsLd, IsSt
<1>3. QED
  BY <1>1, <1>2 DEF LarMoves, IsHit, HitFromUnallocated, HitFreeingOldTag, HitLeavingSharedTag,
         MissFromUnallocated, MissSoleReference, MissLeavingSharedTag, JoinAliased, InMiss

\* The LAR ends with an element that holds the new line; nothing else moves.
LEMMA MoveTag ==
    ASSUME LarInv, LarMoves, NEW t, t = tag'[captured.index]
    PROVE  /\ t \in Tags \ {UnallocatedTag} /\ tag' = [tag EXCEPT ![captured.index] = t]
           /\ base_addr'[t] = captured.new_addr
           /\ \A u \in Tags \ {t} : base_addr'[u] = base_addr[u]
           /\ IsHit => t = captured.aliased /\ t # captured.curr
           /\ ~IsHit => t = IF captured.ref_count = 1 THEN captured.curr ELSE captured.top
           /\ ~IsHit /\ captured.ref_count # 1 => t # captured.curr /\ ref_count[t] = 0
<1>1. /\ wr_state = "WrStStartLdSt"
      /\ tag \in [Lars -> Tags] /\ base_addr \in [Tags -> BaseAddr]
      /\ captured.index \in Lars \ {dzero} /\ captured.curr = tag[captured.index]
  BY MoveKinds, StartTypes, SnapshotFacts
<1>2. CASE IsHit
  <2>1. JoinAliased
    BY <1>2, MoveKinds
  <2>2. /\ captured.aliased \in Tags \ {UnallocatedTag}
        /\ base_addr[captured.aliased] = captured.new_addr
    BY <1>1, <1>2, SnapshotFacts, StartTypes DEF IsHit
  <2>3. QED
    BY <1>1, <1>2, <2>1, <2>2, JoinFacts
<1>3. CASE ~IsHit /\ captured.ref_count = 1
  <2>1. MissSoleReference
    BY <1>3, MoveKinds DEF MissFromUnallocated, MissLeavingSharedTag
  <2>2. /\ captured.curr \in Tags \ {UnallocatedTag}
        /\ base_addr' = [base_addr EXCEPT ![captured.curr] = captured.new_addr]
        /\ tag' = tag
    BY <1>1, <1>3, <2>1, OldElement DEF MissSoleReference
  <2>3. QED
    BY <1>1, <1>3, <2>2
<1>4. CASE ~IsHit /\ captured.ref_count # 1
  <2>1. InMiss /\ AllocateTop
    BY <1>4, MoveKinds DEF MissFromUnallocated, MissSoleReference, MissLeavingSharedTag
  <2>2. QED
    BY <1>1, <1>4, <2>1, AllocateFacts
<1>5. QED
  BY <1>2, <1>3, <1>4

\* The new element is in use; the old one still is unless this was its last LAR.
LEMMA MoveRefCounts ==
    ASSUME LarInv, LarMoves, NEW t, t = tag'[captured.index]
    PROVE  /\ ref_count'[t] # 0
           /\ \A u \in Tags \ {t, captured.curr} : ref_count'[u] = ref_count[u]
           /\ captured.curr # t =>
                 (ref_count'[captured.curr] # 0 <=> captured.ref_count > 1)
           /\ Allocated(captured.curr) <=> captured.ref_count # 0
           /\ captured.ref_count \in Nat
<1>1. /\ wr_state = "WrStStartLdSt"
      /\ ref_count \in [Tags -> Tags] /\ ref_count[UnallocatedTag] = 0
      /\ t \in Tags \ {UnallocatedTag} /\ captured.curr \in Tags
      /\ captured.ref_count = ref_count[captured.curr]
      /\ captured.ref_count = 0 <=> captured.curr = UnallocatedTag
      /\ captured.ref_count \in Nat
  BY MoveKinds, MoveTag, StartTypes, SnapshotFacts DEF Tags, Lars
<1>2. Allocated(captured.curr) <=> captured.ref_count # 0
  BY <1>1 DEF Allocated
<1>3. captured.ref_count > 1 =>
        /\ Decr(captured.ref_count) = captured.ref_count - 1
        /\ captured.curr # UnallocatedTag
  BY <1>1, OldElement
<1>4. CASE IsHit
  <2>1. /\ JoinAliased /\ t = captured.aliased /\ t # captured.curr
        /\ Incr(ref_count[t]) # 0
    BY <1>4, MoveKinds, MoveTag, JoinFacts
  <2>2. CASE HitFromUnallocated
    BY <1>1, <1>2, <2>1, <2>2 DEF HitFromUnallocated, Allocated
  <2>3. CASE HitFreeingOldTag
    BY <1>1, <1>2, <2>1, <2>3 DEF HitFreeingOldTag, Allocated
  <2>4. CASE HitLeavingSharedTag
    <3>1. /\ ref_count' = [ref_count EXCEPT ![t] = Incr(@), ![captured.curr] = Decr(@)]
          /\ captured.ref_count > 1
      BY <2>1, <2>4 DEF HitLeavingSharedTag
    <3>2. ref_count'[captured.curr] = captured.ref_count - 1
      BY <1>1, <1>3, <2>1, <3>1
    <3>3. QED
      BY <1>1, <1>2, <1>3, <2>1, <3>1, <3>2 DEF Allocated
  <2>5. QED
    BY <1>4, <2>2, <2>3, <2>4, MoveKinds
<1>5. CASE ~IsHit
  <2>1. CASE MissFromUnallocated
    BY <1>1, <1>2, <1>5, <2>1, MoveTag DEF MissFromUnallocated, Allocated
  <2>2. CASE MissSoleReference
    BY <1>1, <1>2, <1>5, <2>2, MoveTag DEF MissSoleReference, Allocated
  <2>3. CASE MissLeavingSharedTag
    <3>1. /\ t = captured.top /\ t # captured.curr
      BY <1>5, <2>3, MoveTag DEF MissLeavingSharedTag
    <3>2. /\ ref_count' = [ref_count EXCEPT ![t] = 1,
                                            ![captured.curr] = Decr(captured.ref_count)]
          /\ captured.ref_count > 1
      BY <2>3, <3>1 DEF MissLeavingSharedTag
    <3>3. ref_count'[captured.curr] = captured.ref_count - 1
      BY <1>1, <1>3, <3>1, <3>2
    <3>4. QED
      BY <1>1, <1>2, <1>3, <3>1, <3>2, <3>3 DEF Allocated
  <2>4. QED
    BY <1>5, <2>1, <2>2, <2>3, MoveKinds
<1>6. QED
  BY <1>2, <1>4, <1>5, <1>1

\* A line is asked for in a miss of a load, and written back where the LAR was the last
\* of its element and the element is dirty; the FSM waits for what it has asked for.
LEMMA MoveAsks ==
    ASSUME LarInv, LarMoves
    PROVE  /\ wr_state' \in {"WrStIdle", "WrStWaitForJustMemRead", "WrStWaitForJustMemWrite",
                             "WrStWaitForMemReadAndMemWrite"}
           /\ wr_state' \in {"WrStWaitForJustMemRead", "WrStWaitForMemReadAndMemWrite"}
                 <=> IsLd /\ ~IsHit
           /\ wr_state' \in {"WrStWaitForJustMemWrite", "WrStWaitForMemReadAndMemWrite"}
                 <=> captured.ref_count = 1 /\ captured.dirty
           /\ out_mem_read' = IF IsLd /\ ~IsHit THEN ReadReq(captured.new_addr) ELSE NoReq
           /\ out_mem_write' = IF captured.ref_count = 1 /\ captured.dirty
                               THEN WriteBack(captured.old_addr, captured.data) ELSE NoReq
<1>1. /\ IsLd <=> ~IsSt
      /\ captured.dirty \in BOOLEAN
  BY MoveKinds, SnapshotFacts DEF Captured
<1>2. CASE IsHit
  <2>1. out_mem_read' = NoReq
    BY <1>2, MoveKinds DEF JoinAliased, stop_mem_read
  <2>2. CASE captured.ref_count # 1
    BY <1>2, <2>1, <2>2, MoveKinds DEF HitFromUnallocated, HitFreeingOldTag,
       HitLeavingSharedTag, finish_ldst, stop_mem_write
  <2>3. CASE captured.ref_count = 1
    <3>1. HitFreeingOldTag
      BY <1>2, <2>3, MoveKinds DEF HitFromUnallocated, HitLeavingSharedTag
    <3>2. QED
      BY <1>1, <1>2, <2>1, <2>3, <3>1 DEF HitFreeingOldTag, finish_ldst, WaitIn,
         stop_mem_write, prep_mem_write
  <2>4. QED
    BY <2>2, <2>3
<1>3. CASE ~IsHit
  <2>1. CASE MissFromUnallocated
    BY <1>1, <1>3, <2>1 DEF MissFromUnallocated, AllocateTop, finish_ldst, WaitIn,
       stop_mem_read, stop_mem_write, prep_mem_read
  <2>2. CASE MissSoleReference
    BY <1>1, <1>3, <2>2 DEF MissSoleReference, finish_ldst, WaitIn, stop_mem_read,
       stop_mem_write, prep_mem_read, prep_mem_write
  <2>3. CASE MissLeavingSharedTag
    BY <1>1, <1>3, <2>3 DEF MissLeavingSharedTag, AllocateTop, finish_ldst, WaitIn,
       stop_mem_read, stop_mem_write, prep_mem_read
  <2>4. QED
    BY <1>3, <2>1, <2>2, <2>3, MoveKinds
<1>4. QED
  BY <1>2, <1>3

\* Only the new element's data changes, and only in a store: it takes the old data.
LEMMA MoveData ==
    ASSUME LarInv, LarMoves, ShareddataData, NEW t, t = tag'[captured.index]
    PROVE  /\ \A u \in Tags \ {t} : CurrentData(u)' = CurrentData(u)
           /\ IsLd => CurrentData(t)' = CurrentData(t)
           /\ IsSt /\ t # captured.curr /\ captured.ref_count # 0 =>
                 CurrentData(t)' = captured.data
           /\ t = captured.curr => CurrentData(t)' = CurrentData(t)
           /\ CurrentData(t)' \in Data
<1>1. /\ t \in Tags /\ captured.data \in Data
      /\ \A u \in Tags : CurrentData(u) \in Data
      /\ \A u \in Tags : CurrentData(u)' = IF data_wr'.req
                                            THEN IF data_wr'.index = u THEN data_wr'.data
                                                 ELSE CurrentData(u)
                                            ELSE CurrentData(u)
  BY MoveTag, MoveKinds, SnapshotFacts, CurrentDataStep DEF Captured
<1>2. \/ /\ data_wr' \in {NoReq, data_wr}
         /\ IsLd \/ t = captured.curr \/ captured.ref_count = 0
      \/ /\ IsSt /\ t # captured.curr
         /\ data_wr' = DataWrite(t, captured.data)
  <2>1. IsLd <=> ~IsSt
    BY MoveKinds
  <2>2. CASE IsHit
    <3>1. JoinAliased /\ t = captured.aliased /\ t # captured.curr
      BY <2>2, MoveKinds, MoveTag
    <3>2. QED
      BY <2>1, <3>1 DEF JoinAliased
  <2>3. CASE ~IsHit
    BY <2>1, <2>3, MoveKinds, MoveTag
       DEF MissFromUnallocated, MissSoleReference, MissLeavingSharedTag
  <2>4. QED
    BY <2>2, <2>3
<1>3. CASE data_wr' \in {NoReq, data_wr} /\ (IsLd \/ t = captured.curr \/ captured.ref_count = 0)
  <2>1. \A u \in Tags : CurrentData(u)' = CurrentData(u)
    <3>1. CASE data_wr' = NoReq
      BY <1>1, <3>1 DEF NoReq
    <3>2. CASE data_wr' = data_wr
      BY <1>1, <3>2 DEF CurrentData
    <3>3. QED
      BY <1>3, <3>1, <3>2
  <2>2. IsLd <=> ~IsSt
    BY MoveKinds
  <2>3. QED
    BY <1>1, <1>3, <2>1, <2>2
<1>4. CASE IsSt /\ t # captured.curr /\ data_wr' = DataWrite(t, captured.data)
  <2>1. data_wr'.req /\ data_wr'.index = t /\ data_wr'.data = captured.data
    BY <1>4 DEF DataWrite
  <2>2. ~IsLd
    BY <1>4, MoveKinds
  <2>3. QED
    BY <1>1, <1>4, <2>1, <2>2
<1>5. QED
  BY <1>2, <1>3, <1>4

\* A store leaves the new element dirty and a hit of a load leaves it as it was; an element
\* the LAR has left to others stays as it was.
LEMMA MoveDirty ==
    ASSUME LarInv, LarMoves, NEW t, t = tag'[captured.index]
    PROVE  /\ IsSt => dirty'[t]
           /\ IsLd /\ IsHit => dirty'[t] = dirty[t]
           /\ \A u \in Tags \ {t, captured.curr} : dirty'[u] = dirty[u]
           /\ captured.ref_count # 1 /\ t # captured.curr =>
                 dirty'[captured.curr] = dirty[captured.curr]
<1>1. /\ wr_state = "WrStStartLdSt" /\ dirty \in [Tags -> BOOLEAN]
      /\ t \in Tags \ {UnallocatedTag} /\ captured.curr \in Tags
      /\ IsLd <=> ~IsSt
      /\ IsSt \in BOOLEAN
  BY MoveKinds, MoveTag, StartTypes
<1>2. captured.dirty = dirty[captured.curr]
  BY <1>1 DEF LarInv, SnapshotIsConsistent
<1>3. CASE IsHit
  <2>1. /\ JoinAliased /\ t = captured.aliased /\ t # captured.curr
    BY <1>3, MoveKinds, MoveTag
  <2> DEFINE d == [dirty EXCEPT ![t] = @ \/ IsSt]
  <2>2. /\ d \in [Tags -> BOOLEAN] /\ d[t] = (dirty[t] \/ IsSt)
        /\ \A u \in Tags \ {t} : d[u] = dirty[u]
    BY <1>1
  <2>3. CASE dirty' = d
    <3> HIDE DEF d
    <3> QED BY <1>1, <2>1, <2>2, <2>3
  <2>4. CASE HitFreeingOldTag
    <3>1. dirty' = [d EXCEPT ![captured.curr] = FALSE] /\ captured.ref_count = 1
      BY <2>1, <2>4 DEF HitFreeingOldTag, CleanOldTag
    <3> HIDE DEF d
    <3>2. \A u \in Tags \ {captured.curr} : dirty'[u] = d[u]
      BY <1>1, <2>2, <3>1
    <3>3. QED
      BY <1>1, <2>1, <2>2, <3>1, <3>2
  <2>5. QED
    BY <1>3, <2>1, <2>3, <2>4, MoveKinds DEF HitFromUnallocated, HitLeavingSharedTag
<1>4. CASE ~IsHit /\ captured.ref_count = 1
  <2>1. MissSoleReference /\ t = captured.curr
    BY <1>4, MoveKinds, MoveTag DEF MissFromUnallocated, MissLeavingSharedTag
  <2>2. QED
    BY <1>1, <1>2, <1>4, <2>1 DEF MissSoleReference
<1>5. CASE ~IsHit /\ captured.ref_count # 1
  <2>1. AllocateTop /\ t = captured.top /\ t # captured.curr
    BY <1>5, MoveKinds, MoveTag DEF MissFromUnallocated, MissSoleReference, MissLeavingSharedTag
  <2>2. QED
    BY <1>1, <1>5, <2>1 DEF AllocateTop
<1>6. QED
  BY <1>3, <1>4, <1>5

\* The line that is written back is the old element's alone, and not the new line.
LEMMA MoveOldLine ==
    ASSUME LarInv, LarMoves, captured.ref_count = 1
    PROVE  /\ captured.curr \in Tags /\ Allocated(captured.curr)
           /\ captured.old_addr = base_addr[captured.curr]
           /\ captured.dirty = dirty[captured.curr]
           /\ captured.old_addr \in BaseAddr
           /\ captured.old_addr # captured.new_addr
           /\ \A u \in Tags : Allocated(u) /\ u # captured.curr => base_addr[u] # captured.old_addr
<1>1. /\ wr_state = "WrStStartLdSt"
      /\ captured.curr \in Tags /\ captured.aliased \in Tags
      /\ Allocated(captured.curr)
      /\ captured.aliased # UnallocatedTag =>
            Allocated(captured.aliased) /\ base_addr[captured.aliased] = captured.new_addr
      /\ captured.aliased = UnallocatedTag =>
            \A u \in Tags : Allocated(u) => base_addr[u] # captured.new_addr
  BY MoveKinds, StartTypes, OldElement, SnapshotFacts
<1>2. captured.old_addr = base_addr[captured.curr] /\ captured.dirty = dirty[captured.curr]
  BY <1>1 DEF LarInv, SnapshotIsConsistent
<1>3. \A u \in Tags : Allocated(u) /\ u # captured.curr => base_addr[u] # captured.old_addr
  BY <1>1, <1>2 DEF LarInv, OneElementPerLine
<1>4. captured.aliased # UnallocatedTag => captured.aliased # captured.curr
  BY MoveKinds, MoveTag DEF IsHit
<1>5. captured.old_addr # captured.new_addr
  BY <1>1, <1>2, <1>3, <1>4
<1>6. captured.old_addr \in BaseAddr
  BY <1>1, <1>2 DEF LarInv, TypeOK
<1>7. QED
  BY <1>1, <1>2, <1>3, <1>5, <1>6

-----------------------------------------------------------------------------
(* Requests to memory *)

LEMMA NothingUnderWay ==
    ASSUME LarInv, SysTypes, WaitsForWhatIsUnderWay,
           wr_state \in {"WrStIdle", "WrStStartLdSt"},
           NEW instr, NEW in_mem_read, NEW in_mem_write,
           Edge(instr, in_mem_read, in_mem_write), MemoryAnswers(in_mem_read, in_mem_write)
    PROVE  /\ out_mem_read = NoReq /\ out_mem_write = NoReq
           /\ pending_read' = NoAddr /\ ~pending_write'.req
<1>1. ~WaitsForRead /\ ~WaitsForWrite
  BY DEF WaitsForRead, WaitsForWrite
<1>2. /\ ~out_mem_read.req /\ ~out_mem_write.req
      /\ pending_read = NoAddr /\ ~pending_write.req
  BY <1>1 DEF WaitsForWhatIsUnderWay, ReadUnderWay, WriteUnderWay
<1>3. ~in_mem_read.valid /\ ~in_mem_write.valid
  BY <1>2 DEF MemoryAnswers, LandWrite
<1>4. QED
  BY <1>2, <1>3, PortTypes DEF Edge

LEMMA MemoryProtocolStart ==
    ASSUME LarInv, SysTypes, WaitsForWhatIsUnderWay, StartLdStFsm,
           NEW instr, NEW in_mem_read, NEW in_mem_write,
           Edge(instr, in_mem_read, in_mem_write), MemoryAnswers(in_mem_read, in_mem_write)
    PROVE  WaitsForWhatIsUnderWay'
<1>1. /\ NoReq.req = FALSE
      /\ \A a : ReadReq(a).req = TRUE /\ ReadReq(a).base_addr = a
      /\ \A a, d : WriteBack(a, d).req = TRUE /\ WriteBack(a, d).base_addr = a
  BY DEF NoReq, ReadReq, WriteBack
<1>2. wr_state = "WrStStartLdSt" /\ captured' = captured /\ captured_valid' = captured_valid
  BY DEF StartLdStFsm, HitOwnElement, HitFromUnallocated, HitFreeingOldTag,
         HitLeavingSharedTag, MissFromUnallocated, MissSoleReference, MissLeavingSharedTag,
         JoinAliased, InMiss, InStartLdSt
<1>3. captured_valid' = NeitherValid /\ pending_read' = NoAddr /\ ~pending_write'.req
  BY <1>2, NothingUnderWay DEF WaitsForWhatIsUnderWay
<1>4. CASE HitOwnElement
  <2>1. wr_state' = "WrStIdle" /\ out_mem_read' = NoReq /\ out_mem_write' = NoReq
    BY <1>4 DEF HitOwnElement, finish_ldst, stop_mem_read, stop_mem_write
  <2>2. QED
    BY <1>1, <1>3, <2>1 DEF WaitsForWhatIsUnderWay, ReadUnderWay, WriteUnderWay, WaitsForRead,
                            WaitsForWrite
<1>5. CASE LarMoves
  <2>1. NewLineAddr' = captured.new_addr
    BY <1>2, <1>5, MoveTag DEF NewLineAddr
  <2>2. out_mem_write'.req => out_mem_write'.base_addr # NewLineAddr'
    BY <1>1, <1>5, <2>1, MoveAsks, MoveOldLine
  <2>3. out_mem_read'.req => out_mem_read'.base_addr = NewLineAddr'
    BY <1>1, <1>5, <2>1, MoveAsks
  <2>4. /\ out_mem_read'.req <=> wr_state' \in {"WrStWaitForJustMemRead",
                                               "WrStWaitForMemReadAndMemWrite"}
        /\ out_mem_write'.req <=> wr_state' \in {"WrStWaitForJustMemWrite",
                                                "WrStWaitForMemReadAndMemWrite"}
        /\ wr_state' # "WrStStartLdSt"
    BY <1>1, <1>5, MoveAsks
  <2>5. ~NeitherValid.read /\ ~NeitherValid.write
    BY DEF NeitherValid
  <2>6. QED
    BY <1>3, <2>2, <2>3, <2>4, <2>5
       DEF WaitsForWhatIsUnderWay, ReadUnderWay, WriteUnderWay, WaitsForRead, WaitsForWrite
<1>6. QED
  BY <1>4, <1>5 DEF StartLdStFsm, LarMoves

\* What every waiting edge leaves alone, and what an answer does.
LEMMA WaitKeeps ==
    ASSUME LarInv, NEW in_mem_read, NEW in_mem_write, WaitFsm(in_mem_read, in_mem_write)
    PROVE  /\ UNCHANGED <<tag, base_addr, ref_count, dirty, captured>>
           /\ out_mem_read' = NoReq /\ out_mem_write' = NoReq
           /\ wr_state' \in {"WrStIdle", wr_state}
           /\ wr_state \in {"WrStWaitForJustMemRead", "WrStWaitForJustMemWrite",
                            "WrStWaitForMemReadAndMemWrite"}
           /\ wr_state = "WrStWaitForJustMemRead" =>
                 WaitForJustMemRead(in_mem_read)
           /\ wr_state = "WrStWaitForJustMemWrite" =>
                 WaitForJustMemWrite(in_mem_write)
           /\ wr_state = "WrStWaitForMemReadAndMemWrite" =>
                 WaitForMemReadAndMemWrite(in_mem_read, in_mem_write)
  BY DEF WaitFsm, WaitForJustMemRead, WaitForJustMemWrite, WaitForMemReadAndMemWrite, InWait,
         metadataVars, shareddataVars, stop_mem_read, stop_mem_write, finish_ldst

LEMMA MemoryProtocolWait ==
    ASSUME LarInv, SysTypes, WaitsForWhatIsUnderWay,
           NEW instr, NEW in_mem_read, NEW in_mem_write,
           WaitFsm(in_mem_read, in_mem_write),
           Edge(instr, in_mem_read, in_mem_write), MemoryAnswers(in_mem_read, in_mem_write)
    PROVE  WaitsForWhatIsUnderWay'
<1> DEFINE r == in_mem_read.valid
           w == in_mem_write.valid
<1>1. /\ NewLineAddr' = NewLineAddr /\ NoReq.req = FALSE
      /\ out_mem_read' = NoReq /\ out_mem_write' = NoReq
  BY WaitKeeps DEF NewLineAddr, NoReq
<1>2. /\ pending_read' = IF out_mem_read.req THEN out_mem_read.base_addr
                         ELSE IF r THEN NoAddr ELSE pending_read
      /\ pending_write' = IF out_mem_write.req THEN out_mem_write
                          ELSE IF w THEN NoReq ELSE pending_write
      /\ r => pending_read # NoAddr /\ ~out_mem_read.req
      /\ w => pending_write.req /\ ~out_mem_write.req
      /\ ~(r /\ w)
      /\ r \in BOOLEAN /\ w \in BOOLEAN
      /\ out_mem_read.req => out_mem_read.base_addr # NoAddr
  BY PortTypes, NoAddrAssumption DEF Edge, MemoryAnswers, LandWrite, WaitsForWhatIsUnderWay
<1>3. /\ pending_read' # NoAddr <=> ReadUnderWay /\ ~r
      /\ pending_write'.req <=> WriteUnderWay /\ ~w
      /\ pending_read' # NoAddr => pending_read' = NewLineAddr
      /\ pending_write'.req => pending_write'.base_addr # NewLineAddr
  BY <1>1, <1>2, PortTypes DEF WaitsForWhatIsUnderWay, ReadUnderWay, WriteUnderWay
<1>4. /\ WaitsForRead' <=> WaitsForRead /\ ~r
      /\ WaitsForWrite' <=> WaitsForWrite /\ ~w
      /\ wr_state' = "WrStWaitForMemReadAndMemWrite" =>
            ~(captured_valid'.read /\ captured_valid'.write)
      /\ wr_state' # "WrStStartLdSt"
  <2>0. /\ r => WaitsForRead
        /\ w => WaitsForWrite
    BY <1>2 DEF WaitsForWhatIsUnderWay, ReadUnderWay, WriteUnderWay
  <2>1. CASE wr_state = "WrStWaitForJustMemRead"
    <3>1. ~w
      BY <2>0, <2>1 DEF WaitsForWrite
    <3>2. QED
      BY <1>2, <2>1, <3>1, WaitKeeps DEF WaitForJustMemRead, finish_ldst, WaitsForRead, WaitsForWrite
  <2>2. CASE wr_state = "WrStWaitForJustMemWrite"
    <3>1. ~r
      BY <2>0, <2>2 DEF WaitsForRead
    <3>2. QED
      BY <1>2, <2>2, <3>1, WaitKeeps DEF WaitForJustMemWrite, finish_ldst, WaitsForRead, WaitsForWrite
  <2>3. CASE wr_state = "WrStWaitForMemReadAndMemWrite"
    <3>1. captured_valid \in [read : BOOLEAN, write : BOOLEAN]
      BY DEF LarInv, TypeOK
    <3>2. /\ captured_valid' = [read |-> captured_valid.read \/ r,
                                write |-> captured_valid.write \/ w]
          /\ IF WaitIsOver(in_mem_read, in_mem_write) THEN wr_state' = "WrStIdle"
             ELSE wr_state' = wr_state
      BY <2>3, WaitKeeps DEF WaitForMemReadAndMemWrite, finish_ldst
    <3>3. ~(captured_valid.read /\ captured_valid.write)
      BY <2>3 DEF WaitsForWhatIsUnderWay
    <3>4. /\ captured_valid'.read <=> captured_valid.read \/ r
          /\ captured_valid'.write <=> captured_valid.write \/ w
      BY <3>2
    <3>5. WaitIsOver(in_mem_read, in_mem_write) <=>
             (captured_valid.read \/ r) /\ (captured_valid.write \/ w)
      BY <1>2, <2>0, <2>3, <3>1, <3>3 DEF WaitIsOver, WaitsForRead, WaitsForWrite
    <3>6. QED
      BY <2>3, <3>2, <3>4, <3>5 DEF WaitsForRead, WaitsForWrite
  <2>4. QED
    BY <2>1, <2>2, <2>3, WaitKeeps
<1>5. QED
  BY <1>1, <1>3, <1>4 DEF WaitsForWhatIsUnderWay, ReadUnderWay, WriteUnderWay

LEMMA MemoryProtocolStep ==
    ASSUME LarInv, SysTypes, WaitsForWhatIsUnderWay,
           NEW instr, NEW in_mem_read, NEW in_mem_write,
           Edge(instr, in_mem_read, in_mem_write), MemoryAnswers(in_mem_read, in_mem_write)
    PROVE  WaitsForWhatIsUnderWay'
<1>1. CASE IdleFsm(wr)
  <2>1. /\ wr_state = "WrStIdle" /\ wr_state' \in {"WrStIdle", "WrStStartLdSt"}
        /\ out_mem_read' = NoReq /\ out_mem_write' = NoReq /\ captured_valid' = NeitherValid
    BY <1>1 DEF IdleFsm, IdleNoWrite, IdleWriteData, IdleStartLdSt, InIdle
  <2>2. pending_read' = NoAddr /\ ~pending_write'.req
    BY <2>1, NothingUnderWay
  <2>3. NoReq.req = FALSE
    BY DEF NoReq
  <2>4. QED
    BY <2>1, <2>2, <2>3 DEF WaitsForWhatIsUnderWay, ReadUnderWay, WriteUnderWay, WaitsForRead,
                            WaitsForWrite
<1>2. CASE StartLdStFsm
  BY <1>2, MemoryProtocolStart
<1>3. CASE WaitFsm(in_mem_read, in_mem_write)
  BY <1>3, MemoryProtocolWait
<1>4. QED
  BY <1>1, <1>2, <1>3 DEF Edge, Clock

-----------------------------------------------------------------------------
(* Results and the block RAM *)

\* Before write-back waits, an edge accepts the result at the port and nothing else.
LEMMA IdleResult ==
    ASSUME SysTypes, WriteBackWaits, NEW in_mem_read, NEW in_mem_write,
           Clock(wr, in_mem_read, in_mem_write), LarInv, wb_state # "StWaitForLarFileValid"
    PROVE  data_wr' = ResultWrite /\ tag' = tag /\ wr_state' = "WrStIdle"
<1>1. wr_state = "WrStIdle" /\ IdleFsm(wr) /\ wr \in WbRequest
  BY FsmMoves DEF WriteBackWaits, SysTypes
<1>2. wr.req => wr.write_type \notin {"Ld", "St"}
  BY DEF WriteBackWaits
<1>3. wr.req => wr.write_type = "OnlyData"
  BY <1>1, <1>2, RequestTypes DEF WbRequest
<1>4. CASE IdleNoWrite(wr)
  BY <1>1, <1>4 DEF IdleNoWrite, InIdle, ResultWrite
<1>5. CASE IdleWriteData(wr)
  BY <1>1, <1>5 DEF IdleWriteData, InIdle, ResultWrite
<1>6. QED
  BY <1>1, <1>2, <1>4, <1>5 DEF IdleFsm, IdleStartLdSt, StartsLdSt

LEMMA ResultIsInPlaceStep ==
    ASSUME LarInv, SysTypes, WriteBackWaits, ResultIsInPlace, NEW instr \in Wb!Instr,
           NEW in_mem_read, NEW in_mem_write,
           Edge(instr, in_mem_read, in_mem_write), MemoryAnswers(in_mem_read, in_mem_write)
    PROVE  ResultIsInPlace'
<1>1. Wb!Clock(instr, out_wr_valid) /\ Clock(wr, in_mem_read, in_mem_write)
  BY DEF Edge
<1>2. ASSUME wb_state' = "StPrepLdSt" PROVE data_wr' = ResultWrite'
  <2>1. wb_state = "StRegular" /\ wr' = wr
    BY <1>1, <1>2, WbMoves DEF SysTypes
  <2>2. data_wr' = ResultWrite /\ tag' = tag
    BY <1>1, <2>1, IdleResult
  <2>3. QED
    BY <2>1, <2>2 DEF ResultWrite
<1>3. ASSUME wb_state' = "StWaitForLarFileValid", wr'.req, data_wr'.req
      PROVE  data'[data_wr'.index] = data_wr'.data
  <2>1. wb_state = "StPrepLdSt"
    BY <1>1, <1>3, WbMoves DEF SysTypes, NoReq
  <2>2. data_wr' = data_wr
    BY <1>1, <2>1, IdleResult DEF ResultIsInPlace
  <2>3. data_wr.index \in Tags /\ data \in [Tags -> Data]
    BY <1>3, <2>2, DataWriteTypes DEF LarInv, TypeOK
  <2>4. QED
    BY <1>1, <1>3, <2>2, <2>3 DEF Clock, ShareddataData
<1>4. QED
  BY <1>2, <1>3 DEF ResultIsInPlace

LEMMA SnapshotIsCurrentStep ==
    ASSUME LarInv, SysTypes, WriteBackWaits, ResultIsInPlace, NEW instr \in Wb!Instr,
           NEW in_mem_read, NEW in_mem_write,
           Edge(instr, in_mem_read, in_mem_write), MemoryAnswers(in_mem_read, in_mem_write)
    PROVE  SnapshotIsCurrent'
<1> SUFFICES ASSUME wr_state' = "WrStStartLdSt"
             PROVE  /\ captured'.curr = tag'[captured'.index]
                    /\ captured'.data = CurrentData(captured.curr)'
  BY DEF SnapshotIsCurrent
<1>1. Clock(wr, in_mem_read, in_mem_write) /\ ShareddataData
  BY DEF Edge, Clock
<1>2. wr_state = "WrStIdle" /\ IdleStartLdSt(wr) /\ wr.req /\ wr.index # dzero
  <2>1. ~StartLdStFsm
    BY MoveAsks DEF StartLdStFsm, LarMoves, HitOwnElement, finish_ldst
  <2>2. ~WaitFsm(in_mem_read, in_mem_write)
    BY WaitKeeps
  <2>3. QED
    BY <1>1, <2>1, <2>2, FsmMoves DEF IdleStartLdSt, StartsLdSt
<1> DEFINE t == tag[wr.index]
<1>3. t \in Tags
  <2>1. wr.index \in Lars
    BY <1>2, WbRequestIsInWr, InWrFields DEF SysTypes
  <2>2. QED
    BY <2>1 DEF LarInv, TypeOK
<1>4. /\ tag' = tag /\ data_wr' = NoReq
      /\ captured'.index = wr.index /\ captured'.curr = t /\ captured'.data = data[t]
  BY <1>2 DEF IdleStartLdSt, InIdle, Snapshot
<1>5. CurrentData(t) = data[t]
  <2>1. wb_state = "StWaitForLarFileValid"
    BY <1>2, FsmMoves, <1>1 DEF WriteBackWaits
  <2>2. QED
    BY <1>2, <2>1 DEF ResultIsInPlace, CurrentData
<1>6. data'[t] = data[t]
  BY <1>1, <1>3, <1>5, CurrentDataStep
<1>7. QED
  BY <1>4, <1>6 DEF CurrentData, NoReq

-----------------------------------------------------------------------------
(* A clean element equals its line in memory. *)

LEMMA CleanGoal ==
    ASSUME \A t \in Tags : t # UnallocatedTag /\ ref_count'[t] # 0 /\ ~dirty'[t]
                               /\ ~AwaitingRead(t)'
               => \E a \in BaseAddr : a = base_addr'[t] /\ CurrentData(t)' = MemoryAt(a)'
    PROVE  CleanLineEqualsMemory'
  BY DEF CleanLineEqualsMemory, Allocated, MemoryAt

LEMMA CleanIdle ==
    ASSUME LarInv, SysTypes, WaitsForWhatIsUnderWay, CleanLineEqualsMemory,
           NEW instr, NEW in_mem_read, NEW in_mem_write, IdleFsm(wr),
           Edge(instr, in_mem_read, in_mem_write), MemoryAnswers(in_mem_read, in_mem_write)
    PROVE  CleanLineEqualsMemory'
<1>1. /\ wr_state = "WrStIdle" /\ out_mem_write' = NoReq
      /\ UNCHANGED <<tag, base_addr, ref_count>>
  BY DEF IdleFsm, IdleNoWrite, IdleWriteData, IdleStartLdSt, InIdle
<1>2. \A a \in BaseAddr : MemoryAt(a)' = MemoryAt(a)
  BY <1>1, MemoryAtStep DEF NoReq
<1>3. \A t \in Tags : ~dirty'[t] => ~dirty[t] /\ CurrentData(t)' = CurrentData(t)
  <2>1. ShareddataData
    BY DEF Edge, Clock
  <2>2. CASE data_wr' = NoReq /\ dirty' = dirty
    BY <2>1, <2>2, CurrentDataStep DEF NoReq
  <2>3. CASE IdleWriteData(wr) /\ data_wr' # NoReq
    <3> DEFINE u == tag[wr.index]
    <3>1. dirty' = [dirty EXCEPT ![u] = TRUE] /\ data_wr' = DataWrite(u, wr.data)
      BY <2>3 DEF IdleWriteData
    <3>2. dirty \in [Tags -> BOOLEAN]
      BY DEF LarInv, TypeOK
    <3>3. \A t \in Tags : ~dirty'[t] => ~dirty[t] /\ t # u
      BY <3>1, <3>2
    <3>4. data_wr'.index = u
      BY <3>1 DEF DataWrite
    <3>5. QED
      BY <2>1, <3>3, <3>4, CurrentDataStep
  <2>4. QED
    BY <2>2, <2>3 DEF IdleFsm, IdleNoWrite, IdleWriteData, IdleStartLdSt, DataWrite, NoReq
<1>4. \A t \in Tags : ~AwaitingRead(t)
  BY <1>1 DEF AwaitingRead, WaitsForRead
<1>5. base_addr \in [Tags -> BaseAddr]
  BY DEF LarInv, TypeOK
<1>6. \A t \in Tags : t # UnallocatedTag /\ ref_count'[t] # 0 /\ ~dirty'[t]
                               /\ ~AwaitingRead(t)'
               => \E a \in BaseAddr : a = base_addr'[t] /\ CurrentData(t)' = MemoryAt(a)'
  BY <1>1, <1>2, <1>3, <1>4, <1>5 DEF CleanLineEqualsMemory, Allocated
<1>7. QED
  BY <1>6, CleanGoal

LEMMA CleanStart ==
    ASSUME LarInv, SysTypes, WaitsForWhatIsUnderWay, CleanLineEqualsMemory,
           NEW instr, NEW in_mem_read, NEW in_mem_write, StartLdStFsm,
           Edge(instr, in_mem_read, in_mem_write), MemoryAnswers(in_mem_read, in_mem_write)
    PROVE  CleanLineEqualsMemory'
<1>1. wr_state = "WrStStartLdSt" /\ captured' = captured /\ ShareddataData
      /\ captured_valid' = captured_valid
  BY DEF StartLdStFsm, HitOwnElement, HitFromUnallocated, HitFreeingOldTag,
         HitLeavingSharedTag, MissFromUnallocated, MissSoleReference, MissLeavingSharedTag,
         JoinAliased, InMiss, InStartLdSt, Edge, Clock
<1>2. \A t \in Tags : ~AwaitingRead(t)
  BY <1>1 DEF AwaitingRead, WaitsForRead
<1>3. base_addr \in [Tags -> BaseAddr]
  BY DEF LarInv, TypeOK
<1>4. CASE HitOwnElement
  <2>1. /\ UNCHANGED <<base_addr, ref_count, dirty>>
        /\ data_wr' = NoReq /\ out_mem_write' = NoReq
    BY <1>4 DEF HitOwnElement, shareddataVars, stop_mem_write
  <2>2. /\ \A a \in BaseAddr : MemoryAt(a)' = MemoryAt(a)
        /\ \A t \in Tags : CurrentData(t)' = CurrentData(t)
    BY <1>1, <2>1, MemoryAtStep, CurrentDataStep DEF NoReq
  <2>3. \A t \in Tags : t # UnallocatedTag /\ ref_count'[t] # 0 /\ ~dirty'[t]
                               /\ ~AwaitingRead(t)'
               => \E a \in BaseAddr : a = base_addr'[t] /\ CurrentData(t)' = MemoryAt(a)'
    BY <1>2, <1>3, <2>1, <2>2 DEF CleanLineEqualsMemory, Allocated
  <2>4. QED
    BY <2>3, CleanGoal
<1>5. CASE LarMoves
  <2> DEFINE c == captured.curr
  <2>0. PICK t : t = tag'[captured.index]
    OBVIOUS
  <2>1. /\ t \in Tags \ {UnallocatedTag} /\ c \in Tags
        /\ base_addr'[t] = captured.new_addr /\ captured.new_addr \in BaseAddr
        /\ \A u \in Tags \ {t} : base_addr'[u] = base_addr[u]
        /\ captured.ref_count \in Nat
    BY <1>1, <1>5, <2>0, MoveTag, MoveRefCounts, StartTypes
  <2>2. \A a \in BaseAddr : ~(captured.ref_count = 1 /\ captured.old_addr = a)
                             => MemoryAt(a)' = MemoryAt(a)
    <3>1. out_mem_write'.req =>
            captured.ref_count = 1 /\ out_mem_write'.base_addr = captured.old_addr
      BY <1>5, MoveAsks DEF WriteBack, NoReq
    <3>2. QED
      BY <3>1, MemoryAtStep
  <2>3. ASSUME NEW u \in Tags \ {t}, u # UnallocatedTag, ref_count'[u] # 0, ~dirty'[u]
        PROVE  \E a \in BaseAddr : a = base_addr'[u] /\ CurrentData(u)' = MemoryAt(a)'
    <3>1. Allocated(u) /\ ~dirty[u] /\ (u = c => captured.ref_count # 1)
      BY <1>5, <2>0, <2>1, <2>3, MoveRefCounts, MoveDirty DEF Allocated
    <3>2. PICK a \in BaseAddr : a = base_addr[u] /\ CurrentData(u) = MemoryAt(a)
      BY <1>2, <1>3, <3>1 DEF CleanLineEqualsMemory
    <3>3. ~(captured.ref_count = 1 /\ captured.old_addr = a)
      BY <1>5, <3>1, <3>2, MoveOldLine
    <3>4. CurrentData(u)' = CurrentData(u)
      BY <1>1, <1>5, <2>0, MoveData
    <3>5. QED
      BY <2>1, <2>2, <3>2, <3>3, <3>4
  <2>4. ASSUME ~dirty'[t], ~AwaitingRead(t)'
        PROVE  \E a \in BaseAddr : a = base_addr'[t] /\ CurrentData(t)' = MemoryAt(a)'
    <3>1. IsLd
      BY <1>5, <2>0, <2>4, MoveDirty, MoveKinds
    <3>2. IsHit
      <4>1. SUFFICES ASSUME ~IsHit PROVE FALSE
        OBVIOUS
      <4>2. wr_state' \in {"WrStWaitForJustMemRead", "WrStWaitForMemReadAndMemWrite"}
        BY <1>5, <3>1, <4>1, MoveAsks
      <4>3. ~captured_valid'.read
        BY <1>1 DEF WaitsForWhatIsUnderWay, NeitherValid
      <4>4. tag'[captured'.index] = t
        BY <1>1, <2>0
      <4>5. QED
        BY <2>4, <4>2, <4>3, <4>4 DEF AwaitingRead, WaitsForRead
    <3>3. /\ t = captured.aliased /\ Allocated(t) /\ base_addr[t] = captured.new_addr
          /\ ~dirty[t]
      BY <1>1, <1>5, <2>0, <2>4, <3>1, <3>2, MoveTag, MoveDirty, SnapshotFacts DEF IsHit
    <3>4. CurrentData(t)' = CurrentData(t)
      BY <1>1, <1>5, <2>0, <3>1, MoveData
    <3>5. PICK a \in BaseAddr : a = captured.new_addr /\ CurrentData(t) = MemoryAt(a)
      BY <1>2, <2>1, <3>3 DEF CleanLineEqualsMemory
    <3>6. MemoryAt(a)' = MemoryAt(a)
      BY <1>5, <2>2, <3>5, MoveOldLine
    <3>7. QED
      BY <2>1, <3>4, <3>5, <3>6
  <2>5. QED
    BY <2>3, <2>4, CleanGoal
<1>6. QED
  BY <1>4, <1>5 DEF StartLdStFsm, LarMoves

\* The line that arrives is the one memory holds for the element that awaits it.
LEMMA ArrivingLine ==
    ASSUME LarInv, SysTypes, WaitsForWhatIsUnderWay,
           NEW instr, NEW in_mem_read, NEW in_mem_write, WaitFsm(in_mem_read, in_mem_write),
           Edge(instr, in_mem_read, in_mem_write), MemoryAnswers(in_mem_read, in_mem_write),
           NEW t \in Tags
    PROVE  CurrentData(t)' = IF AwaitingRead(t) /\ ~AwaitingRead(t)'
                             THEN MemoryAt(base_addr[t]) ELSE CurrentData(t)
<1> DEFINE e == tag[captured.index]
<1>1. ShareddataData
  BY DEF Edge, Clock
<1>2. /\ tag'[captured'.index] = e /\ NewLineAddr = base_addr[e]
  BY WaitKeeps DEF NewLineAddr
<1>3. WaitsForWhatIsUnderWay'
  BY MemoryProtocolWait
<1>4. /\ in_mem_read.valid \in BOOLEAN
      /\ in_mem_read.valid <=> WaitsForRead /\ ~WaitsForRead'
  <2>1. /\ in_mem_read.valid => pending_read # NoAddr /\ ~out_mem_read.req
        /\ in_mem_read.valid \in BOOLEAN
        /\ pending_read' = IF out_mem_read.req THEN out_mem_read.base_addr
                           ELSE IF in_mem_read.valid THEN NoAddr ELSE pending_read
        /\ out_mem_read' = NoReq /\ NoReq.req = FALSE
        /\ out_mem_read.req => out_mem_read.base_addr # NoAddr
    BY WaitKeeps, PortTypes, NoAddrAssumption
       DEF Edge, MemoryAnswers, WaitsForWhatIsUnderWay, NoReq
  <2>2. /\ WaitsForRead <=> out_mem_read.req \/ pending_read # NoAddr
        /\ WaitsForRead' <=> out_mem_read'.req \/ pending_read' # NoAddr
    BY <1>3 DEF WaitsForWhatIsUnderWay, ReadUnderWay
  <2>3. QED
    BY <2>1, <2>2
<1>5. data_wr' = IF in_mem_read.valid THEN DataWrite(e, in_mem_read.data) ELSE NoReq
  <2>1. CASE WaitForJustMemWrite(in_mem_write)
    <3>1. ~WaitsForRead /\ data_wr' = NoReq
      BY <2>1 DEF WaitForJustMemWrite, InWait, WaitsForRead
    <3>2. QED
      BY <1>4, <3>1
  <2>2. CASE FillData(in_mem_read)
    BY <2>2 DEF FillData
  <2>3. QED
    BY <2>1, <2>2 DEF WaitFsm, WaitForJustMemRead, WaitForMemReadAndMemWrite
<1>6. CASE ~in_mem_read.valid
  <2>1. ~data_wr'.req
    BY <1>5, <1>6 DEF NoReq
  <2>2. ~(AwaitingRead(t) /\ ~AwaitingRead(t)')
    BY <1>2, <1>4, <1>6 DEF AwaitingRead
  <2>3. QED
    BY <1>1, <2>1, <2>2, CurrentDataStep
<1>7. CASE in_mem_read.valid
  <2>1. data_wr'.req /\ data_wr'.index = e /\ data_wr'.data = in_mem_read.data
    BY <1>5, <1>7 DEF DataWrite
  <2>2. AwaitingRead(t) /\ ~AwaitingRead(t)' <=> t = e
    BY <1>2, <1>4, <1>7 DEF AwaitingRead
  <2>3. in_mem_read.data = MemoryAt(base_addr[e])
    BY <1>2, <1>7 DEF MemoryAnswers, WaitsForWhatIsUnderWay, MemoryAt
  <2>4. QED
    BY <1>1, <2>1, <2>2, <2>3, CurrentDataStep
<1>8. QED
  BY <1>4, <1>6, <1>7

LEMMA CleanWait ==
    ASSUME LarInv, SysTypes, WaitsForWhatIsUnderWay, CleanLineEqualsMemory,
           NEW instr, NEW in_mem_read, NEW in_mem_write, WaitFsm(in_mem_read, in_mem_write),
           Edge(instr, in_mem_read, in_mem_write), MemoryAnswers(in_mem_read, in_mem_write)
    PROVE  CleanLineEqualsMemory'
<1>1. UNCHANGED <<base_addr, ref_count, dirty>> /\ out_mem_write' = NoReq
  BY WaitKeeps
<1>2. \A a \in BaseAddr : MemoryAt(a)' = MemoryAt(a)
  BY <1>1, MemoryAtStep DEF NoReq
<1>3. base_addr \in [Tags -> BaseAddr]
  BY DEF LarInv, TypeOK
<1>4. ASSUME NEW t \in Tags, t # UnallocatedTag, ref_count'[t] # 0, ~dirty'[t],
             ~AwaitingRead(t)'
      PROVE  \E a \in BaseAddr : a = base_addr'[t] /\ CurrentData(t)' = MemoryAt(a)'
  <2>1. CurrentData(t)' = MemoryAt(base_addr[t])
    BY <1>1, <1>4, ArrivingLine DEF CleanLineEqualsMemory, Allocated
  <2>2. QED
    BY <1>1, <1>2, <1>3, <2>1
<1>5. QED
  BY <1>4, CleanGoal

-----------------------------------------------------------------------------
(* The invariant of the system *)

LEMMA SysInitHasInv == SysInit => SysInv
<1> SUFFICES ASSUME SysInit PROVE SysInv
  OBVIOUS
<1>1. Init /\ Wb!Init /\ pending_read = NoAddr /\ pending_write = NoReq
      /\ main_mem \in [BaseAddr -> Data]
  BY DEF SysInit
<1>2. LarInv
  BY <1>1, InitHasInv
<1>3. SysTypes
  <2>1. wr = NoReq
    BY <1>1 DEF Wb!Init, Wb!NoReq, NoReq
  <2>2. captured_decoded_instr \in Wb!Instr /\ wb_state = "StRegular"
    BY <1>1 DEF Wb!Init, Wb!Instr, Wb!NothingCaptured
  <2>3. QED
    BY <1>1, <2>1, <2>2 DEF SysTypes, WbRequest
<1>4. WriteBackWaits /\ ResultIsInPlace
  BY <1>1 DEF Init, Wb!Init, Wb!NoReq, WriteBackWaits, ResultIsInPlace
<1>5. WaitsForWhatIsUnderWay /\ SnapshotIsCurrent
  BY <1>1 DEF Init, WaitsForWhatIsUnderWay, SnapshotIsCurrent, ReadUnderWay, WriteUnderWay,
              WaitsForRead, WaitsForWrite, NoReq
<1>6. CleanLineEqualsMemory
  BY <1>1 DEF Init, CleanLineEqualsMemory, Allocated
<1>7. QED
  BY <1>2, <1>3, <1>4, <1>5, <1>6 DEF SysInv

LEMMA EdgeKeepsInv ==
    ASSUME SysInv, NEW instr \in Wb!Instr,
           NEW in_mem_read \in InMemRead, NEW in_mem_write \in InMemWrite,
           Edge(instr, in_mem_read, in_mem_write), MemoryAnswers(in_mem_read, in_mem_write)
    PROVE  SysInv'
<1>1. /\ LarInv /\ SysTypes /\ WriteBackWaits /\ WaitsForWhatIsUnderWay
      /\ ResultIsInPlace /\ SnapshotIsCurrent /\ CleanLineEqualsMemory
  BY DEF SysInv
<1>2. LarInv'
  BY <1>1, EdgeIsLarStep, NextKeepsInv
<1>3. CleanLineEqualsMemory'
  BY <1>1, CleanIdle, CleanStart, CleanWait DEF Edge, Clock
<1>4. QED
  BY <1>1, <1>2, <1>3, TypesStep, WriteBackWaitsStep, MemoryProtocolStep, ResultIsInPlaceStep,
     SnapshotIsCurrentStep DEF SysInv

LEMMA SysNextKeepsInv == SysInv /\ SysNext => SysInv'
<1> SUFFICES ASSUME SysInv, SysNext PROVE SysInv'
  OBVIOUS
<1>1. PICK instr \in Wb!Instr, in_mem_read \in InMemRead, in_mem_write \in InMemWrite :
         Edge(instr, in_mem_read, in_mem_write) /\ MemoryAnswers(in_mem_read, in_mem_write)
  BY StepIsEdge DEF SysInv
<1>2. QED
  BY <1>1, EdgeKeepsInv

\* The registers of the system, one by one.
LEMMA SysUnchanged ==
    ASSUME UNCHANGED vars
    PROVE  /\ UNCHANGED larVars
           /\ UNCHANGED <<wb_state, captured_decoded_instr, wr>>
           /\ UNCHANGED <<main_mem, pending_read, pending_write>>
           /\ UNCHANGED <<tag, base_addr, ref_count, dirty, data, data_wr>>
           /\ UNCHANGED <<wr_state, captured, captured_valid>>
           /\ UNCHANGED <<out_wr_valid, out_mem_read, out_mem_write>>
  BY DEF vars, wbVars, memVars, larVars, metadataVars, shareddataVars, stackVars, outVars

LEMMA SysStutterKeepsInv == SysInv /\ UNCHANGED vars => SysInv'
<1> SUFFICES ASSUME SysInv, UNCHANGED vars PROVE SysInv'
  OBVIOUS
<1>1. LarInv'
  BY SysUnchanged, StutterKeepsInv DEF SysInv
<1>2. SysTypes' /\ WriteBackWaits' /\ ResultIsInPlace'
  BY SysUnchanged DEF SysInv, SysTypes, WriteBackWaits, ResultIsInPlace, ResultWrite
<1>3. WaitsForWhatIsUnderWay'
  BY SysUnchanged DEF SysInv, WaitsForWhatIsUnderWay, ReadUnderWay, WriteUnderWay,
                      WaitsForRead, WaitsForWrite, NewLineAddr
<1>4. SnapshotIsCurrent' /\ CleanLineEqualsMemory'
  BY SysUnchanged DEF SysInv, SnapshotIsCurrent, CurrentData, CleanLineEqualsMemory, Allocated,
                      AwaitingRead, WaitsForRead, MemoryAt
<1>5. QED
  BY <1>1, <1>2, <1>3, <1>4 DEF SysInv

\* Write-back, LAR file and memory always agree on what is under way between them,
\* whatever instructions come and however long memory takes: the parts below.
THEOREM SystemInvariant == SysSpec => []SysInv
  BY SysInitHasInv, SysNextKeepsInv, SysStutterKeepsInv, PTL DEF SysSpec

\* The system drives the LAR file only as LarFile allows, so everything proved of
\* LarFile with open ports holds in the system as well.
THEOREM SystemDrivesLarFile == SysSpec => Spec
<1>1. SysInit => Init
  BY DEF SysInit
<1>2. SysInv /\ [SysNext]_vars => [Next]_larVars
  <2>1. ASSUME SysInv, SysNext PROVE Next
    BY <2>1, StepIsEdge, EdgeIsLarStep DEF SysInv
  <2>2. UNCHANGED vars => UNCHANGED larVars
    BY SysUnchanged
  <2>3. QED
    BY <2>1, <2>2
<1>3. QED
  BY <1>1, <1>2, SystemInvariant, PTL DEF SysSpec, Spec

\* No request of the write-back stage finds the LAR file busy, which would drop it.
THEOREM RequestsAreNeverIgnored == SysSpec => []NoRequestIsIgnored
<1>1. SysInv => NoRequestIsIgnored
  BY DEF SysInv, WriteBackWaits, NoRequestIsIgnored
<1>2. QED
  BY <1>1, SystemInvariant, PTL

\* A store copies the newest data of its LAR, although results reach the block RAM late.
THEOREM StoresSeeNewestData == SysSpec => []SnapshotIsCurrent
<1>1. SysInv => SnapshotIsCurrent
  BY DEF SysInv
<1>2. QED
  BY <1>1, SystemInvariant, PTL

\* Dropping a clean element loses nothing: memory has its line, or will have.
THEOREM CleanLinesAreInMemory == SysSpec => []CleanLineEqualsMemory
<1>1. SysInv => CleanLineEqualsMemory
  BY DEF SysInv
<1>2. QED
  BY <1>1, SystemInvariant, PTL

\* Each memory port carries one request at a time, and a line is not read while its own
\* write-back is under way.
THEOREM MemoryPortsCarryOneRequest == SysSpec => []OneRequestAtATime
<1>1. SysInv => OneRequestAtATime
  <2> SUFFICES ASSUME SysInv PROVE OneRequestAtATime
    OBVIOUS
  <2>1. out_mem_read.req => ~pending_write.req
    <3>1. WaitsForWrite => \/ wr_state = "WrStWaitForJustMemWrite"
                           \/ wr_state = "WrStWaitForMemReadAndMemWrite"
      BY DEF WaitsForWrite
    <3>2. QED
      BY <3>1 DEF SysInv, WaitsForWhatIsUnderWay, ReadUnderWay, WriteUnderWay, WaitsForRead
  <2>2. QED
    BY <2>1 DEF SysInv, WaitsForWhatIsUnderWay, OneRequestAtATime
<1>2. QED
  BY <1>1, SystemInvariant, PTL

-----------------------------------------------------------------------------
(* Refinement: the line an address shows, before and after an edge *)

\* An element in use that holds a line decides what its address shows.
LEMMA LineIsHeld ==
    ASSUME LarInv, NEW a \in BaseAddr
    PROVE  /\ \A t \in Tags : HoldsLine(t, a) => Line(a) = CurrentData(t)
           /\ (\A t \in Tags : ~HoldsLine(t, a)) => Line(a) = MemoryAt(a)
<1>1. ASSUME NEW t \in Tags, HoldsLine(t, a) PROVE Line(a) = CurrentData(t)
  <2>1. \A u \in Tags : HoldsLine(u, a) => u = t
    BY <1>1 DEF LarInv, OneElementPerLine, HoldsLine
  <2>2. (CHOOSE u \in Tags : HoldsLine(u, a)) = t
    BY <1>1, <2>1
  <2>3. QED
    BY <1>1, <2>2 DEF Line
<1>2. QED
  BY <1>1 DEF Line

LEMMA LineWillBeHeld ==
    ASSUME LarInv', NEW a \in BaseAddr
    PROVE  /\ \A t \in Tags : HoldsLine(t, a)' => Line(a)' = CurrentData(t)'
           /\ (\A t \in Tags : ~HoldsLine(t, a)') => Line(a)' = MemoryAt(a)'
<1>1. ASSUME NEW t \in Tags, HoldsLine(t, a)' PROVE Line(a)' = CurrentData(t)'
  <2>1. \A u \in Tags : HoldsLine(u, a)' => u = t
    BY <1>1 DEF LarInv, OneElementPerLine, HoldsLine
  <2>2. (CHOOSE u \in Tags : HoldsLine(u, a)') = t
    BY <1>1, <2>1
  <2>3. QED
    BY <1>1, <2>2 DEF Line
<1>2. QED
  BY <1>1 DEF Line

LEMMA LineType ==
    ASSUME SysInv, NEW a \in BaseAddr
    PROVE  Line(a) \in Data
<1>1. \A t \in Tags : CurrentData(t) \in Data
  <2>1. data \in [Tags -> Data]
    BY DEF SysInv, LarInv, TypeOK
  <2>2. QED
    BY <2>1, DataWriteTypes DEF SysInv, CurrentData
<1>2. MemoryAt(a) \in Data
  BY PortTypes DEF SysInv, SysTypes, MemoryAt, MemWrite
<1>3. QED
  BY <1>1, <1>2, LineIsHeld DEF SysInv

LinesStay == \A a \in BaseAddr : Line(a)' = Line(a)
LineBecomes(b, d) == \A a \in BaseAddr : Line(a)' = IF a = b THEN d ELSE Line(a)
WindowsStay == \A l \in Lars : Window(l)' = Window(l)
WindowMoves(k, b) == \A l \in Lars : Window(l)' = IF l = k THEN b ELSE Window(l)

\* These are the steps of FlatMemory.
LEMMA FlatStutters ==
    ASSUME LinesStay, WindowsStay
    PROVE  UNCHANGED Flat!flatVars
<1>1. [a \in BaseAddr |-> Line(a)]' = [a \in BaseAddr |-> Line(a)]
  BY DEF LinesStay
<1>2. [l \in Lars |-> Window(l)]' = [l \in Lars |-> Window(l)]
  BY DEF WindowsStay
<1>3. QED
  BY <1>1, <1>2 DEF Flat!flatVars

LEMMA FlatWrites ==
    ASSUME NEW l \in Lars \ {dzero}, NEW d \in Data, NEW b \in BaseAddr, b = Window(l),
           LineBecomes(b, d), WindowsStay
    PROVE  Flat!Next
<1> DEFINE m == [a \in BaseAddr |-> Line(a)]
           w == [k \in Lars |-> Window(k)]
<1>1. w[l] = b /\ w[l] # NoAddr
  BY NoAddrAssumption
<1>2. m' = [m EXCEPT ![b] = d]
  BY DEF LineBecomes
<1>3. w' = w
  BY DEF WindowsStay
<1>4. Flat!Write(l, d)
  BY <1>1, <1>2, <1>3 DEF Flat!Write
<1>5. QED
  BY <1>4 DEF Flat!Next

LEMMA FlatLoads ==
    ASSUME NEW l \in Lars \ {dzero}, NEW b \in BaseAddr, LinesStay, WindowMoves(l, b)
    PROVE  Flat!Next
<1> DEFINE m == [a \in BaseAddr |-> Line(a)]
           w == [k \in Lars |-> Window(k)]
<1>1. m' = m
  BY DEF LinesStay
<1>2. w' = [w EXCEPT ![l] = b]
  BY DEF WindowMoves
<1>3. Flat!Ld(l, b)
  BY <1>1, <1>2 DEF Flat!Ld
<1>4. QED
  BY <1>3 DEF Flat!Next

LEMMA FlatStores ==
    ASSUME NEW l \in Lars \ {dzero}, NEW b \in BaseAddr, NEW d \in Data,
           Window(l) \in BaseAddr => d = Line(Window(l)),
           Window(l) \in BaseAddr \cup {NoAddr},
           LineBecomes(b, d), WindowMoves(l, b)
    PROVE  Flat!Next
<1> DEFINE m == [a \in BaseAddr |-> Line(a)]
           w == [k \in Lars |-> Window(k)]
<1>1. m' = [m EXCEPT ![b] = d]
  BY DEF LineBecomes
<1>2. w' = [w EXCEPT ![l] = b]
  BY DEF WindowMoves
<1>3. w[l] = Window(l)
  OBVIOUS
<1>4. d \in (IF w[l] = NoAddr THEN Data ELSE {m[w[l]]})
  BY <1>3
<1>5. Flat!St(l, b)
  BY <1>1, <1>2, <1>4 DEF Flat!St, Flat!Values
<1>6. QED
  BY <1>5 DEF Flat!Next

-----------------------------------------------------------------------------
(* Refinement: the edges *)

\* The windows of the LARs follow the tags and base addresses.
LEMMA WindowsKept ==
    ASSUME UNCHANGED <<tag, base_addr>>
    PROVE  WindowsStay
  BY DEF WindowsStay, Window

\* The LAR whose result is accepted, if it has an element.
TakesResult(l) == IdleWriteData(wr) /\ l = wr.index /\ tag[l] # UnallocatedTag

LEMMA IdleEdge ==
    ASSUME SysInv, SysInv', NEW instr, NEW in_mem_read, NEW in_mem_write, IdleFsm(wr),
           Edge(instr, in_mem_read, in_mem_write), MemoryAnswers(in_mem_read, in_mem_write)
    PROVE  /\ WindowsStay
           /\ ~TakesResult(wr.index) => LinesStay
           /\ TakesResult(wr.index) =>
                  /\ wr.index \in Lars \ {dzero} /\ wr.data \in Data
                  /\ Window(wr.index) \in BaseAddr
                  /\ LineBecomes(Window(wr.index), wr.data)
<1>1. LarInv /\ SysTypes /\ WaitsForWhatIsUnderWay /\ LarInv'
  BY DEF SysInv
<1>2. /\ wr_state = "WrStIdle" /\ wr_state' \in {"WrStIdle", "WrStStartLdSt"}
      /\ out_mem_write' = NoReq /\ UNCHANGED <<tag, base_addr, ref_count>>
      /\ ShareddataData
  BY DEF IdleFsm, IdleNoWrite, IdleWriteData, IdleStartLdSt, InIdle, Edge, Clock
<1>3. \A a \in BaseAddr : MemoryAt(a)' = MemoryAt(a)
  BY <1>1, <1>2, MemoryAtStep DEF NoReq
<1>4. \A t \in Tags, a \in BaseAddr : HoldsLine(t, a)' <=> HoldsLine(t, a)
  BY <1>2 DEF HoldsLine, Allocated, AwaitingRead, WaitsForRead
<1>5. WindowsStay
  BY <1>2, WindowsKept
<1>6. CASE ~TakesResult(wr.index)
  <2>1. data_wr' = NoReq
    BY <1>6 DEF TakesResult, IdleFsm, IdleNoWrite, IdleWriteData, IdleStartLdSt
  <2>2. \A t \in Tags : CurrentData(t)' = CurrentData(t)
    BY <1>1, <1>2, <2>1, CurrentDataStep DEF NoReq
  <2>3. LinesStay
    BY <1>1, <1>3, <1>4, <2>2, LineIsHeld, LineWillBeHeld DEF LinesStay
  <2>4. QED
    BY <1>5, <1>6, <2>3
<1>7. CASE TakesResult(wr.index)
  <2> DEFINE l == wr.index
             u == tag[wr.index]
  <2>1. l \in Lars \ {dzero} /\ wr.data \in Data
    BY <1>1, <1>7, WbRequestIsInWr, InWrFields DEF TakesResult, IdleWriteData, SysTypes
  <2>2. u \in Tags \ {UnallocatedTag} /\ data_wr' = DataWrite(u, wr.data)
    BY <1>1, <1>7, <2>1 DEF TakesResult, IdleWriteData, LarInv, TypeOK
  <2>3. \A t \in Tags : CurrentData(t)' = IF t = u THEN wr.data ELSE CurrentData(t)
    BY <1>1, <1>2, <2>2, CurrentDataStep DEF DataWrite
  <2>4. base_addr[u] \in BaseAddr /\ Window(l) = base_addr[u]
    BY <1>1, <2>2 DEF LarInv, TypeOK, Window
  <2>5. HoldsLine(u, base_addr[u])
    BY <1>1, <1>2, <2>1, <2>2, RefCountBounds
       DEF HoldsLine, Allocated, AwaitingRead, WaitsForRead
  <2>6. \A a \in BaseAddr : HoldsLine(u, a) => a = base_addr[u]
    BY DEF HoldsLine
  <2>7. LineBecomes(base_addr[u], wr.data)
    <3>1. ASSUME NEW a \in BaseAddr
          PROVE  Line(a)' = IF a = base_addr[u] THEN wr.data ELSE Line(a)
      <4>1. CASE a = base_addr[u]
        BY <1>1, <1>4, <2>2, <2>3, <2>5, <4>1, LineWillBeHeld
      <4>2. CASE a # base_addr[u] /\ \E t \in Tags : HoldsLine(t, a)
        BY <1>1, <1>4, <2>3, <2>6, <4>2, LineIsHeld, LineWillBeHeld
      <4>3. CASE a # base_addr[u] /\ \A t \in Tags : ~HoldsLine(t, a)
        BY <1>1, <1>3, <1>4, <4>3, LineIsHeld, LineWillBeHeld
      <4>4. QED
        BY <4>1, <4>2, <4>3
    <3>2. QED
      BY <3>1 DEF LineBecomes
  <2>8. QED
    BY <1>5, <1>7, <2>1, <2>4, <2>7
<1>8. QED
  BY <1>6, <1>7

LEMMA FlatIdle ==
    ASSUME SysInv, SysInv', NEW instr, NEW in_mem_read, NEW in_mem_write, IdleFsm(wr),
           Edge(instr, in_mem_read, in_mem_write), MemoryAnswers(in_mem_read, in_mem_write)
    PROVE  Flat!Next \/ UNCHANGED Flat!flatVars
  BY IdleEdge, FlatStutters, FlatWrites

LEMMA WaitEdge ==
    ASSUME SysInv, SysInv', NEW instr, NEW in_mem_read, NEW in_mem_write,
           WaitFsm(in_mem_read, in_mem_write),
           Edge(instr, in_mem_read, in_mem_write), MemoryAnswers(in_mem_read, in_mem_write)
    PROVE  LinesStay /\ WindowsStay
<1> DEFINE e == tag[captured.index]
<1>1. LarInv /\ SysTypes /\ WaitsForWhatIsUnderWay /\ LarInv'
  BY DEF SysInv
<1>2. /\ UNCHANGED <<tag, base_addr, ref_count, captured>> /\ out_mem_write' = NoReq
  BY <1>1, WaitKeeps
<1>3. \A a \in BaseAddr : MemoryAt(a)' = MemoryAt(a)
  BY <1>1, <1>2, MemoryAtStep DEF NoReq
<1>4. \A t \in Tags : CurrentData(t)' = IF AwaitingRead(t) /\ ~AwaitingRead(t)'
                                        THEN MemoryAt(base_addr[t]) ELSE CurrentData(t)
  BY <1>1, ArrivingLine
<1>5. WaitsForRead' => WaitsForRead
  <2>1. CASE WaitForMemReadAndMemWrite(in_mem_read, in_mem_write)
    <3>1. captured_valid.read => captured_valid'.read
      BY <2>1 DEF WaitForMemReadAndMemWrite
    <3>2. wr_state = "WrStWaitForMemReadAndMemWrite"
      BY <2>1 DEF WaitForMemReadAndMemWrite, InWait
    <3>3. QED
      BY <1>1, <3>1, <3>2, WaitKeeps DEF WaitsForRead
  <2>2. CASE wr_state # "WrStWaitForMemReadAndMemWrite"
    BY <1>1, <2>2, WaitKeeps DEF WaitsForRead
  <2>3. QED
    BY <1>1, <2>1, <2>2, WaitKeeps
<1>6. \A t \in Tags : AwaitingRead(t)' => AwaitingRead(t)
  BY <1>2, <1>5 DEF AwaitingRead
<1>7. ASSUME NEW t \in Tags, AwaitingRead(t) PROVE Allocated(t)
  <2>1. t = e /\ wr_state \in {"WrStWaitForJustMemRead", "WrStWaitForMemReadAndMemWrite"}
    BY <1>7 DEF AwaitingRead, WaitsForRead
  <2>2. captured \in Captured
    BY <1>1, <2>1 DEF LarInv, TypeOK
  <2>3. captured.index \in Lars \ {dzero}
    BY <2>2 DEF Captured
  <2>4. t # UnallocatedTag
    BY <1>1, <2>1 DEF LarInv, DataWritesAvoidDzero
  <2>5. ref_count[t] >= 1
    BY <1>1, <2>1, <2>3, <2>4, RefCountBounds
  <2>6. QED
    BY <2>4, <2>5 DEF Allocated
<1>8. ASSUME NEW a \in BaseAddr PROVE Line(a)' = Line(a)
  <2>1. CASE \E t \in Tags : HoldsLine(t, a)
    <3>1. PICK t \in Tags : HoldsLine(t, a)
      BY <2>1
    <3>2. HoldsLine(t, a)' /\ ~AwaitingRead(t)
      BY <1>2, <1>6, <3>1 DEF HoldsLine, Allocated
    <3>3. CurrentData(t)' = CurrentData(t)
      BY <1>4, <3>2
    <3>4. QED
      BY <1>1, <3>1, <3>2, <3>3, LineIsHeld, LineWillBeHeld
  <2>2. CASE \A t \in Tags : ~HoldsLine(t, a)
    <3>1. Line(a) = MemoryAt(a)
      BY <1>1, <2>2, LineIsHeld
    <3>2. CASE \E t \in Tags : HoldsLine(t, a)'
      <4>1. PICK t \in Tags : HoldsLine(t, a)'
        BY <3>2
      <4>2. AwaitingRead(t) /\ ~AwaitingRead(t)' /\ base_addr[t] = a
        BY <1>2, <2>2, <4>1 DEF HoldsLine, Allocated
      <4>3. CurrentData(t)' = MemoryAt(a)
        BY <1>4, <4>2
      <4>4. QED
        BY <1>1, <3>1, <4>1, <4>3, LineWillBeHeld
    <3>3. CASE \A t \in Tags : ~HoldsLine(t, a)'
      BY <1>1, <1>3, <3>1, <3>3, LineWillBeHeld
    <3>4. QED
      BY <3>2, <3>3
  <2>3. QED
    BY <2>1, <2>2
<1>9. QED
  BY <1>2, <1>8, WindowsKept DEF LinesStay

LEMMA FlatWait ==
    ASSUME SysInv, SysInv', NEW instr, NEW in_mem_read, NEW in_mem_write,
           WaitFsm(in_mem_read, in_mem_write),
           Edge(instr, in_mem_read, in_mem_write), MemoryAnswers(in_mem_read, in_mem_write)
    PROVE  UNCHANGED Flat!flatVars
  BY WaitEdge, FlatStutters

\* No other LAR carries the tag that gets the new line.
LEMMA MoveWindow ==
    ASSUME LarInv, LarMoves
    PROVE  WindowMoves(captured.index, captured.new_addr)
<1> DEFINE i == captured.index
<1>1. PICK t : t = tag'[i]
  OBVIOUS
<1>2. /\ wr_state = "WrStStartLdSt"
      /\ i \in Lars \ {dzero} /\ tag \in [Lars -> Tags] /\ ref_count \in [Tags -> Tags]
      /\ captured.curr = tag[i] /\ captured.ref_count = ref_count[captured.curr]
  BY MoveKinds, StartTypes, SnapshotFacts
<1>3. /\ t \in Tags \ {UnallocatedTag} /\ tag' = [tag EXCEPT ![i] = t]
      /\ base_addr'[t] = captured.new_addr
      /\ \A u \in Tags \ {t} : base_addr'[u] = base_addr[u]
  BY <1>1, MoveTag
<1>4. ASSUME NEW l \in Lars, l # i, tag[l] # UnallocatedTag
      PROVE  base_addr'[tag[l]] = base_addr[tag[l]]
  <2>1. tag[l] \in Tags \ {UnallocatedTag} /\ l # dzero
    BY <1>2, <1>4 DEF LarInv, DzeroIsZero
  <2>2. CASE IsHit
    <3>1. base_addr[t] = captured.new_addr
      BY <1>1, <1>2, <2>2, MoveTag, SnapshotFacts DEF IsHit
    <3>2. QED
      BY <1>3, <2>1, <3>1
  <2>3. CASE ~IsHit /\ captured.ref_count # 1
    <3>1. ref_count[t] = 0
      BY <1>1, <2>3, MoveTag
    <3>2. ref_count[tag[l]] >= 1
      BY <1>4, <2>1, RefCountBounds
    <3>3. QED
      BY <1>3, <2>1, <3>1, <3>2
  <2>4. CASE ~IsHit /\ captured.ref_count = 1
    <3>1. t = captured.curr
      BY <1>1, <2>4, MoveTag
    <3> DEFINE H == HoldersIn(tag, t)
    <3>2. Cardinality(H) = 1 /\ IsFiniteSet(H)
      BY <1>2, <1>3, <2>4, <3>1, HoldersFinite
         DEF LarInv, RefCountsAreExact, Holders, HoldersIn
    <3>3. i \in H
      BY <1>2, <3>1 DEF HoldersIn
    <3>4. H \ {i} = {}
      <4> HIDE DEF H
      <4>1. IsFiniteSet(H \ {i}) /\ Cardinality(H \ {i}) = Cardinality(H) - 1
        BY <3>2, <3>3, FS_RemoveElement
      <4>2. Cardinality(H \ {i}) = 0
        BY <3>2, <4>1
      <4>3. QED
        BY <4>1, <4>2, FS_EmptySet
    <3>5. l \notin H
      BY <1>4, <3>4
    <3>6. tag[l] # t
      BY <3>5 DEF HoldersIn
    <3>7. QED
      BY <1>3, <2>1, <3>6
  <2>5. QED
    BY <2>2, <2>3, <2>4
<1>5. QED
  BY <1>2, <1>3, <1>4 DEF WindowMoves, Window

\* The addresses a move does not concern keep their lines.
LEMMA MoveOtherLines ==
    ASSUME SysInv, SysInv', LarMoves, NEW instr, NEW in_mem_read, NEW in_mem_write,
           Edge(instr, in_mem_read, in_mem_write), MemoryAnswers(in_mem_read, in_mem_write),
           NEW a \in BaseAddr, a # captured.new_addr
    PROVE  Line(a)' = Line(a)
<1> DEFINE c == captured.curr
<1>1. /\ LarInv /\ SysTypes /\ WaitsForWhatIsUnderWay /\ LarInv'
      /\ wr_state = "WrStStartLdSt" /\ ShareddataData
      /\ captured' = captured
  BY MoveKinds DEF SysInv, Edge, Clock, InStartLdSt
<1>2. PICK t : t = tag'[captured.index]
  OBVIOUS
<1>3. /\ t \in Tags \ {UnallocatedTag} /\ c \in Tags /\ captured.ref_count \in Nat
      /\ base_addr'[t] = captured.new_addr
      /\ \A u \in Tags \ {t} : base_addr'[u] = base_addr[u]
      /\ tag'[captured'.index] = t
  BY <1>1, <1>2, MoveTag, MoveRefCounts, StartTypes
<1>4. MemoryAt(a)' = IF captured.ref_count = 1 /\ captured.dirty /\ captured.old_addr = a
                     THEN captured.data ELSE MemoryAt(a)
  BY <1>1, MemoryAtStep, MoveAsks DEF NoReq, WriteBack
<1>5. \A u \in Tags : ~AwaitingRead(u)
  BY <1>1 DEF AwaitingRead, WaitsForRead
<1>6. \A u \in Tags : HoldsLine(u, a)' <=>
                 HoldsLine(u, a) /\ u # t /\ ~(u = c /\ captured.ref_count = 1)
  <2>1. ASSUME NEW u \in Tags, u # t
        PROVE  HoldsLine(u, a)' <=> HoldsLine(u, a) /\ ~(u = c /\ captured.ref_count = 1)
    <3>1. ~AwaitingRead(u)'
      BY <1>3, <2>1 DEF AwaitingRead
    <3>2. u # UnallocatedTag /\ ref_count'[u] # 0
             <=> Allocated(u) /\ ~(u = c /\ captured.ref_count = 1)
      BY <1>1, <1>2, <1>3, <2>1, MoveRefCounts, SnapshotFacts DEF Allocated
    <3>3. QED
      BY <1>3, <1>5, <2>1, <3>1, <3>2 DEF HoldsLine, Allocated
  <2>2. ~HoldsLine(t, a)'
    BY <1>3 DEF HoldsLine
  <2>3. QED
    BY <2>1, <2>2
<1>7. \A u \in Tags \ {t} : CurrentData(u)' = CurrentData(u)
  BY <1>1, <1>2, MoveData
<1>8. HoldsLine(t, a) => t = c /\ captured.ref_count = 1
  BY <1>1, <1>2, <1>3, MoveTag, SnapshotFacts DEF HoldsLine, Allocated, IsHit
<1>9. CASE captured.ref_count = 1 /\ HoldsLine(c, a)
  <2>1. \A u \in Tags : HoldsLine(u, a) => u = c
    BY <1>1, <1>3, <1>9 DEF HoldsLine, LarInv, OneElementPerLine
  <2>2. Line(a)' = MemoryAt(a)'
    BY <1>1, <1>6, <1>9, <2>1, LineWillBeHeld
  <2>3. Line(a) = CurrentData(c)
    BY <1>1, <1>3, <1>9, LineIsHeld
  <2>4. captured.old_addr = a /\ captured.dirty = dirty[c] /\ captured.data = CurrentData(c)
    BY <1>1, <1>9, MoveOldLine DEF HoldsLine, SysInv, SnapshotIsCurrent
  <2>5. ~dirty[c] => CurrentData(c) = MemoryAt(a)
    BY <1>3, <1>9, <1>5 DEF SysInv, CleanLineEqualsMemory, HoldsLine
  <2>6. QED
    BY <1>4, <1>9, <2>2, <2>3, <2>4, <2>5
<1>10. CASE ~(captured.ref_count = 1 /\ HoldsLine(c, a))
  <2>1. \A u \in Tags : HoldsLine(u, a)' <=> HoldsLine(u, a)
    BY <1>6, <1>8, <1>10
  <2>2. MemoryAt(a)' = MemoryAt(a)
    <3>1. captured.ref_count = 1 /\ captured.old_addr = a => HoldsLine(c, a)
      BY <1>1, <1>3, <1>5, MoveOldLine DEF HoldsLine
    <3>2. QED
      BY <1>4, <1>10, <3>1
  <2>3. CASE \E u \in Tags : HoldsLine(u, a)
    <3>1. PICK u \in Tags : HoldsLine(u, a)
      BY <2>3
    <3>2. HoldsLine(u, a)' /\ u # t
      BY <1>6, <2>1, <3>1
    <3>3. QED
      BY <1>1, <1>7, <3>1, <3>2, LineIsHeld, LineWillBeHeld
  <2>4. CASE \A u \in Tags : ~HoldsLine(u, a)
    BY <1>1, <2>1, <2>2, <2>4, LineIsHeld, LineWillBeHeld
  <2>5. QED
    BY <2>3, <2>4
<1>11. QED
  BY <1>9, <1>10

\* A load shows at the new address what was there, in an element or in memory.
LEMMA LoadEdge ==
    ASSUME SysInv, SysInv', LarMoves, IsLd, NEW instr, NEW in_mem_read, NEW in_mem_write,
           Edge(instr, in_mem_read, in_mem_write), MemoryAnswers(in_mem_read, in_mem_write)
    PROVE  /\ captured.index \in Lars \ {dzero} /\ captured.new_addr \in BaseAddr
           /\ WindowMoves(captured.index, captured.new_addr)
           /\ LinesStay
<1> DEFINE c == captured.curr
<1>0. PICK b : b = captured.new_addr
  OBVIOUS
<1>1. /\ LarInv /\ SysTypes /\ WaitsForWhatIsUnderWay /\ LarInv' /\ WaitsForWhatIsUnderWay'
      /\ wr_state = "WrStStartLdSt" /\ ShareddataData
      /\ captured' = captured
      /\ captured.index \in Lars \ {dzero} /\ b \in BaseAddr /\ c \in Tags
      /\ tag \in [Lars -> Tags]
  BY <1>0, MoveKinds, StartTypes DEF SysInv, Edge, Clock, InStartLdSt
<1>2. PICK t : t = tag'[captured.index]
  OBVIOUS
<1>3. /\ t \in Tags \ {UnallocatedTag}
      /\ base_addr'[t] = b /\ ref_count'[t] # 0
      /\ tag'[captured'.index] = t
  BY <1>0, <1>1, <1>2, MoveTag, MoveRefCounts
<1>4. Line(b)' = Line(b)
  <2>1. CASE IsHit
    <3>1. HoldsLine(t, b)
      BY <1>0, <1>1, <1>2, <2>1, MoveTag, SnapshotFacts DEF IsHit, HoldsLine, AwaitingRead, WaitsForRead
    <3>2. ~WaitsForRead'
      BY <1>1, <2>1, MoveAsks DEF WaitsForRead
    <3>3. HoldsLine(t, b)'
      BY <1>3, <3>2 DEF HoldsLine, Allocated, AwaitingRead
    <3>4. CurrentData(t)' = CurrentData(t)
      BY <1>1, <1>2, MoveData
    <3>5. QED
      BY <1>1, <1>3, <3>1, <3>3, <3>4, LineIsHeld, LineWillBeHeld
  <2>2. CASE ~IsHit
    <3>1. \A u \in Tags : ~(Allocated(u) /\ base_addr[u] = b)
      BY <1>0, <1>1, <2>2, SnapshotFacts DEF IsHit
    <3>2. WaitsForRead'
      BY <1>1, <2>2, MoveAsks DEF WaitsForWhatIsUnderWay, ReadUnderWay, ReadReq
    <3>3. ~HoldsLine(t, b)'
      BY <1>3, <3>2 DEF HoldsLine, AwaitingRead
    <3>4. ASSUME NEW u \in Tags, u # t PROVE ~HoldsLine(u, b)'
      <4>1. base_addr'[u] = base_addr[u]
        BY <1>1, <1>2, <3>4, MoveTag
      <4>2. u # UnallocatedTag /\ ref_count'[u] # 0 => Allocated(u)
        BY <1>1, <1>2, <3>4, MoveRefCounts DEF Allocated
      <4>3. QED
        BY <3>1, <4>1, <4>2 DEF HoldsLine, Allocated
    <3>5. MemoryAt(b)' = MemoryAt(b)
      BY <1>0, <1>1, MemoryAtStep, MoveAsks, MoveOldLine DEF NoReq, WriteBack
    <3>6. QED
      BY <1>1, <3>1, <3>3, <3>4, <3>5, LineIsHeld, LineWillBeHeld DEF HoldsLine
  <2>3. QED
    BY <2>1, <2>2
<1>5. LinesStay
  BY <1>0, <1>4, MoveOtherLines DEF LinesStay
<1>6. QED
  BY <1>0, <1>1, <1>5, MoveWindow

\* A store shows at the new address what the LAR showed.
LEMMA StoreEdge ==
    ASSUME SysInv, SysInv', LarMoves, IsSt, NEW instr, NEW in_mem_read, NEW in_mem_write,
           Edge(instr, in_mem_read, in_mem_write), MemoryAnswers(in_mem_read, in_mem_write)
    PROVE  /\ captured.index \in Lars \ {dzero} /\ captured.new_addr \in BaseAddr
           /\ WindowMoves(captured.index, captured.new_addr)
           /\ Window(captured.index) \in BaseAddr \cup {NoAddr}
           /\ \E d \in Data :
                 /\ LineBecomes(captured.new_addr, d)
                 /\ Window(captured.index) \in BaseAddr => d = Line(Window(captured.index))
<1> DEFINE c == captured.curr
           i == captured.index
<1>0. PICK b : b = captured.new_addr
  OBVIOUS
<1>1. /\ LarInv /\ SysTypes /\ LarInv'
      /\ wr_state = "WrStStartLdSt" /\ ShareddataData
      /\ captured' = captured
      /\ i \in Lars \ {dzero} /\ b \in BaseAddr /\ c \in Tags /\ c = tag[i]
      /\ tag \in [Lars -> Tags] /\ base_addr \in [Tags -> BaseAddr]
  BY <1>0, MoveKinds, StartTypes, SnapshotFacts DEF SysInv, Edge, Clock, InStartLdSt
<1>2. PICK t : t = tag'[i]
  OBVIOUS
<1>3. /\ t \in Tags \ {UnallocatedTag}
      /\ base_addr'[t] = b /\ ref_count'[t] # 0
  BY <1>0, <1>1, <1>2, MoveTag, MoveRefCounts
<1>4. PICK d \in Data : d = CurrentData(t)'
  BY <1>1, <1>2, MoveData
<1>5. Line(b)' = d
  <2>1. ~WaitsForRead'
    BY <1>1, MoveKinds, MoveAsks DEF WaitsForRead
  <2>2. HoldsLine(t, b)'
    BY <1>3, <2>1 DEF HoldsLine, Allocated, AwaitingRead
  <2>3. QED
    BY <1>1, <1>3, <1>4, <2>2, LineWillBeHeld
<1>6. LineBecomes(b, d)
  BY <1>0, <1>5, MoveOtherLines DEF LineBecomes
<1>7. Window(i) \in BaseAddr \cup {NoAddr}
  BY <1>1 DEF Window
<1>8. ASSUME Window(i) \in BaseAddr PROVE d = Line(Window(i))
  <2>1. c # UnallocatedTag /\ Window(i) = base_addr[c]
    BY <1>1, <1>8, NoAddrAssumption DEF Window
  <2>2. captured.ref_count # 0 /\ Allocated(c)
    BY <1>1, <2>1, SnapshotFacts DEF Allocated
  <2>3. HoldsLine(c, base_addr[c])
    BY <1>1, <2>2 DEF HoldsLine, AwaitingRead, WaitsForRead
  <2>4. Line(Window(i)) = CurrentData(c)
    BY <1>1, <2>1, <2>3, LineIsHeld
  <2>5. captured.data = CurrentData(c)
    BY <1>1 DEF SysInv, SnapshotIsCurrent
  <2>6. QED
    BY <1>1, <1>2, <1>4, <2>2, <2>4, <2>5, MoveData
<1>9. QED
  BY <1>0, <1>1, <1>4, <1>6, <1>7, <1>8, MoveWindow

\* Going where it already looks, a LAR changes nothing that shows.
LEMMA HitOwnEdge ==
    ASSUME SysInv, SysInv', HitOwnElement, NEW instr, NEW in_mem_read, NEW in_mem_write,
           Edge(instr, in_mem_read, in_mem_write), MemoryAnswers(in_mem_read, in_mem_write)
    PROVE  /\ captured.index \in Lars \ {dzero} /\ captured.new_addr \in BaseAddr
           /\ Window(captured.index) = captured.new_addr
           /\ LinesStay /\ WindowsStay
<1>1. /\ LarInv /\ SysTypes /\ WaitsForWhatIsUnderWay /\ LarInv'
      /\ wr_state = "WrStStartLdSt" /\ wr_state' = "WrStIdle"
      /\ UNCHANGED <<base_addr, ref_count>> /\ out_mem_write' = NoReq /\ data_wr' = NoReq
      /\ ShareddataData
  BY DEF SysInv, HitOwnElement, InStartLdSt, finish_ldst, stop_mem_write,
              stop_mem_read, shareddataVars, Edge, Clock
<1>2. \A a \in BaseAddr : MemoryAt(a)' = MemoryAt(a)
  BY <1>1, MemoryAtStep DEF NoReq
<1>3. \A t \in Tags : CurrentData(t)' = CurrentData(t)
  BY <1>1, CurrentDataStep DEF NoReq
<1>4. \A t \in Tags, a \in BaseAddr : HoldsLine(t, a)' <=> HoldsLine(t, a)
  BY <1>1 DEF HoldsLine, Allocated, AwaitingRead, WaitsForRead
<1>5. LinesStay
  BY <1>1, <1>2, <1>3, <1>4, LineIsHeld, LineWillBeHeld DEF LinesStay
<1>6. tag' = tag
  <2>1. captured.index \in Lars /\ captured.aliased = tag[captured.index]
        /\ tag \in [Lars -> Tags]
    BY <1>1, StartTypes, SnapshotFacts DEF HitOwnElement
  <2>2. tag' = [tag EXCEPT ![captured.index] = captured.aliased]
    BY DEF HitOwnElement
  <2>3. QED
    BY <2>1, <2>2
<1>7. /\ captured.index \in Lars \ {dzero} /\ captured.new_addr \in BaseAddr
      /\ Window(captured.index) = captured.new_addr
  BY <1>1, StartTypes, SnapshotFacts DEF HitOwnElement, Window
<1>8. QED
  BY <1>1, <1>5, <1>6, <1>7, WindowsKept

LEMMA FlatStart ==
    ASSUME SysInv, SysInv', StartLdStFsm, NEW instr, NEW in_mem_read, NEW in_mem_write,
           Edge(instr, in_mem_read, in_mem_write), MemoryAnswers(in_mem_read, in_mem_write)
    PROVE  Flat!Next \/ UNCHANGED Flat!flatVars
<1>1. CASE LarMoves
  <2>1. IsLd \/ IsSt
    BY <1>1, MoveKinds DEF SysInv
  <2>2. CASE IsLd
    BY <1>1, <2>2, LoadEdge, FlatLoads
  <2>3. CASE IsSt
    BY <1>1, <2>3, StoreEdge, FlatStores
  <2>4. QED
    BY <2>1, <2>2, <2>3
<1>2. CASE HitOwnElement
  BY <1>2, HitOwnEdge, FlatStutters
<1>3. QED
  BY <1>1, <1>2 DEF StartLdStFsm, LarMoves

LEMMA FlatInit ==
    ASSUME SysInit
    PROVE  Flat!Init
<1>1. SysInv
  BY SysInitHasInv
<1>2. \A a \in BaseAddr : Line(a) \in Data
  BY <1>1, LineType
<1>3. \A l \in Lars : tag[l] = UnallocatedTag
  BY DEF SysInit, Init
<1>4. [l \in Lars |-> Window(l)] = [l \in Lars |-> NoAddr]
  BY <1>3 DEF Window
<1>5. QED
  BY <1>2, <1>4 DEF Flat!Init

LEMMA FlatStep ==
    ASSUME SysInv, SysInv', SysNext
    PROVE  Flat!Next \/ UNCHANGED Flat!flatVars
<1>1. PICK instr \in Wb!Instr, in_mem_read \in InMemRead, in_mem_write \in InMemWrite :
         Edge(instr, in_mem_read, in_mem_write) /\ MemoryAnswers(in_mem_read, in_mem_write)
  BY StepIsEdge DEF SysInv
<1>2. IdleFsm(wr) \/ StartLdStFsm \/ WaitFsm(in_mem_read, in_mem_write)
  BY <1>1 DEF Edge, Clock
<1>3. QED
  BY <1>1, <1>2, FlatIdle, FlatStart, FlatWait

LEMMA FlatStutter ==
    ASSUME UNCHANGED vars
    PROVE  UNCHANGED Flat!flatVars
<1>1. \A a \in BaseAddr : MemoryAt(a)' = MemoryAt(a)
  BY SysUnchanged DEF MemoryAt
<1>2. \A t \in Tags : CurrentData(t)' = CurrentData(t)
  BY SysUnchanged DEF CurrentData
<1>3. \A t \in Tags, a \in BaseAddr : HoldsLine(t, a)' <=> HoldsLine(t, a)
  BY SysUnchanged DEF HoldsLine, Allocated, AwaitingRead, WaitsForRead
<1>4. LinesStay
  <2>1. ASSUME NEW a \in BaseAddr PROVE Line(a)' = Line(a)
    <3>1. (CHOOSE t \in Tags : HoldsLine(t, a))' = CHOOSE t \in Tags : HoldsLine(t, a)
      BY SysUnchanged DEF HoldsLine, Allocated, AwaitingRead, WaitsForRead
    <3>2. QED
      BY SysUnchanged DEF Line, MemoryAt, CurrentData, HoldsLine, Allocated, AwaitingRead,
                          WaitsForRead
  <2>2. QED
    BY <2>1 DEF LinesStay
<1>5. WindowsStay
  BY SysUnchanged, WindowsKept
<1>6. QED
  BY <1>4, <1>5, FlatStutters

\* The LAR file with its write-back stage and memory implements the flat memory that
\* programs see: no aliasing, write-back, or latency of memory ever shows.
THEOREM LarFileIsFlatMemory == SysSpec => ImplementsFlatMemory
<1>1. SysInit => Flat!Init
  BY FlatInit
<1>2. SysInv /\ SysInv' /\ [SysNext]_vars => [Flat!Next]_(Flat!flatVars)
  BY FlatStep, FlatStutter
<1>3. QED
  BY <1>1, <1>2, SystemInvariant, PTL DEF SysSpec, ImplementsFlatMemory, Flat!Spec
=============================================================================
