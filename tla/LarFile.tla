------------------------------ MODULE LarFile ------------------------------
(***************************************************************************)
(* The LAR file of the Snow64 CPU: the registers of a machine without       *)
(* ordinary registers.  A LAR (large address register) holds the tag of an  *)
(* element of shared data; the element holds one line of memory, its base   *)
(* address, the number of LARs that refer to it and a dirty flag.  Two LARs *)
(* at the same address share one element, so the file is also a fully       *)
(* associative write-back cache, with the free tags kept on a stack.        *)
(*                                                                         *)
(* One step of this module is one positive clock edge.  The three input    *)
(* ports (write, memory read, memory write) are left open: any value may    *)
(* arrive at any edge.  The modules that compose this one close them.       *)
(*                                                                         *)
(* A port whose req or valid bit is low carries no other field: nothing     *)
(* reads those wires while the bit is low.                                  *)
(***************************************************************************)
EXTENDS Naturals, FiniteSets

CONSTANTS
    NumLars,    \* ARR_SIZE__SNOW64_LAR_FILE_NUM_LARS: 16, or 4 when FORMAL
    BaseAddr,   \* addresses of memory lines
    Addr0,      \* the base address every element powers up with
    Data,       \* contents of a line
    Zero,       \* the line of zeros
    DataType,   \* data_type and int_type_size together
    Type0,      \* their power-up value
    DataOffset, \* the offset of an address in its line
    Offset0     \* its power-up value

ASSUME NumLarsAssumption == NumLars \in Nat /\ NumLars > 1
ASSUME ResetAssumption   == /\ Addr0 \in BaseAddr
                            /\ Zero \in Data
                            /\ Type0 \in DataType
                            /\ Offset0 \in DataOffset

VARIABLES
    wr_state,             \* the state of the write FSM
    tag, data_offset, data_type,        \* metadata, by LAR
    base_addr, ref_count, dirty, data,  \* shared data, by tag
    data_wr,              \* registered write port of the block RAM "data"
    tag_stack, curr_tag_stack_index,    \* the free tags
    captured,             \* what the FSM captured for a load or store
    captured_valid,       \* memory answers seen while waiting for both
    out_wr_valid, out_mem_read, out_mem_write

metadataVars   == <<tag, data_offset, data_type>>
shareddataVars == <<base_addr, ref_count, dirty>>
stackVars      == <<tag_stack, curr_tag_stack_index>>
outVars        == <<out_wr_valid, out_mem_read, out_mem_write>>
larVars == <<wr_state, metadataVars, shareddataVars, data, data_wr, stackVars,
             captured, captured_valid, outVars>>

-----------------------------------------------------------------------------
(* Port and register values *)

Lars == 0 .. NumLars - 1
Tags == Lars                 \* there are as many elements as LARs
UnallocatedTag == 0
dzero == 0

NoReq == [req |-> FALSE]
WriteReq == [req : {TRUE}, write_type : {"OnlyData"}, index : Lars, data : Data]
TypedWriteReq == [req : {TRUE}, write_type : {"DataAndType"}, index : Lars,
                  data : Data, data_type : DataType]
LdStReq == [req : {TRUE}, write_type : {"Ld", "St"}, index : Lars,
            base_addr : BaseAddr, data_offset : DataOffset, data_type : DataType]
InWr == {NoReq} \cup WriteReq \cup TypedWriteReq \cup LdStReq

NotValid == [valid |-> FALSE]
ReadAnswer == [valid : {TRUE}, data : Data]
WriteAnswer == [valid |-> TRUE]
InMemRead == {NotValid} \cup ReadAnswer
InMemWrite == {NotValid, WriteAnswer}

ReadReq(a) == [req |-> TRUE, base_addr |-> a]
WriteBack(a, d) == [req |-> TRUE, base_addr |-> a, data |-> d]
DataWrite(t, d) == [req |-> TRUE, index |-> t, data |-> d]
NothingCaptured == [index |-> dzero]
NeitherValid == [read |-> FALSE, write |-> FALSE]

\* Tag, reference count and stack index are registers of the same width.
Incr(n) == (n + 1) % NumLars
Decr(n) == (n + NumLars - 1) % NumLars

\* Mutant: the loop over the elements ends one early.
Matches_SkipsLast(a) ==
    {t \in Tags \ {UnallocatedTag, NumLars - 1} : ref_count[t] # 0 /\ base_addr[t] = a}

\* The search compares the address with every allocated element but number 0
\* and ORs the tags that match.  The OR of several tags is left open.
Matches(a) == {t \in Tags \ {UnallocatedTag} : ref_count[t] # 0 /\ base_addr[t] = a}
TagSearch(a) ==
    IF Matches(a) = {} THEN {UnallocatedTag}
    ELSE IF \E t \in Matches(a) : Matches(a) = {t} THEN Matches(a) ELSE Tags

Init ==
    /\ wr_state = "WrStIdle"
    /\ tag = [l \in Lars |-> UnallocatedTag]
    /\ data_offset = [l \in Lars |-> Offset0]
    /\ data_type = [l \in Lars |-> Type0]
    /\ base_addr = [t \in Tags |-> Addr0]
    /\ ref_count = [t \in Tags |-> 0]
    /\ dirty = [t \in Tags |-> FALSE]
    /\ data = [t \in Tags |-> Zero]
    /\ data_wr = NoReq
    /\ tag_stack = [i \in Tags |-> i]
    /\ curr_tag_stack_index = NumLars - 1
    /\ captured = NothingCaptured
    /\ captured_valid = NeitherValid
    /\ out_wr_valid = FALSE
    /\ out_mem_read = NoReq
    /\ out_mem_write = NoReq

-----------------------------------------------------------------------------
(* WrStIdle.  Every edge in this state drops the request lines and the      *)
(* valid line and forgets earlier memory answers.                           *)

InIdle ==
    /\ wr_state = "WrStIdle"
    /\ out_wr_valid' = FALSE
    /\ out_mem_read' = NoReq
    /\ out_mem_write' = NoReq
    /\ captured_valid' = NeitherValid
    /\ UNCHANGED <<tag, base_addr, ref_count, stackVars>>

\* No request, or one that addresses dzero, which the file ignores.  What the
\* capture registers take here is overwritten before it is read.
IdleNoWrite(in_wr) ==
    /\ InIdle
    /\ in_wr.req => in_wr.index = dzero
    /\ data_wr' = NoReq
    /\ captured' = NothingCaptured
    /\ UNCHANGED <<wr_state, data_offset, data_type, dirty>>

\* WriteTypOnlyData and WriteTypDataAndType.  A write to a LAR without an
\* element is dropped.
IdleWriteData(in_wr) ==
    /\ InIdle
    /\ in_wr.req /\ in_wr.index # dzero
    /\ in_wr.write_type \in {"OnlyData", "DataAndType"}
    /\ LET t == tag[in_wr.index] IN
       IF t # UnallocatedTag
       THEN /\ dirty' = [dirty EXCEPT ![t] = TRUE]
            /\ data_wr' = DataWrite(t, in_wr.data)
            /\ data_type' = IF in_wr.write_type = "DataAndType"
                            THEN [data_type EXCEPT ![in_wr.index] = in_wr.data_type]
                            ELSE data_type
       ELSE /\ data_wr' = NoReq
            /\ UNCHANGED <<dirty, data_type>>
    /\ captured' = NothingCaptured
    /\ UNCHANGED <<wr_state, data_offset>>

\* What the capture registers take: the request, the search's result, the top
\* of the stack and the old element.  "data" is read before a block RAM write of
\* this same edge lands.
Snapshot(in_wr, found) ==
    LET t == tag[in_wr.index] IN
    [index |-> in_wr.index, write_type |-> in_wr.write_type, new_addr |-> in_wr.base_addr,
     curr |-> t, aliased |-> found,
     top |-> tag_stack[curr_tag_stack_index], above |-> Incr(curr_tag_stack_index),
     ref_count |-> ref_count[t], dirty |-> dirty[t],
     old_addr |-> base_addr[t], data |-> data[t]]

\* Mutant: a load or store of dzero is not ignored.
StartsLdSt_Dzero(in_wr) == in_wr.req /\ in_wr.write_type \in {"Ld", "St"}
StartsLdSt(in_wr) ==
    in_wr.req /\ in_wr.index # dzero /\ in_wr.write_type \in {"Ld", "St"}

\* WriteTypLd and WriteTypSt: take a snapshot of everything the next edge needs.
IdleStartLdSt(in_wr) ==
    /\ InIdle
    /\ StartsLdSt(in_wr)
    /\ \E found \in TagSearch(in_wr.base_addr) : captured' = Snapshot(in_wr, found)
    /\ wr_state' = "WrStStartLdSt"
    /\ data_wr' = NoReq
    /\ data_type' = [data_type EXCEPT ![in_wr.index] = in_wr.data_type]
    /\ data_offset' = [data_offset EXCEPT ![in_wr.index] = in_wr.data_offset]
    /\ UNCHANGED dirty

-----------------------------------------------------------------------------
(* WrStStartLdSt *)

finish_ldst ==
    /\ wr_state' = "WrStIdle"
    /\ out_wr_valid' = TRUE

WaitIn(state) ==
    /\ wr_state' = state
    /\ UNCHANGED out_wr_valid

prep_mem_read == out_mem_read' = ReadReq(captured.new_addr)
stop_mem_read == out_mem_read' = NoReq
\* Mutant: the old data goes to the new address.
prep_mem_write_NewAddress == out_mem_write' = WriteBack(captured.new_addr, captured.data)
\* The only address ever written back is the one the old data came from.
prep_mem_write == out_mem_write' = WriteBack(captured.old_addr, captured.data)
stop_mem_write == out_mem_write' = NoReq

IsLd == captured.write_type = "Ld"
IsSt == captured.write_type = "St"

InStartLdSt ==
    /\ wr_state = "WrStStartLdSt"
    /\ UNCHANGED <<data_offset, data_type, captured, captured_valid>>

\* Hit on the element this LAR already has.
HitOwnElement ==
    /\ InStartLdSt
    /\ captured.aliased # UnallocatedTag
    /\ captured.aliased = captured.curr
    /\ tag' = [tag EXCEPT ![captured.index] = captured.aliased]
    /\ data_wr' = NoReq
    /\ stop_mem_read /\ stop_mem_write /\ finish_ldst
    /\ UNCHANGED <<shareddataVars, stackVars>>

\* Hit on the element of another LAR: this LAR joins it, and a store copies
\* its old data there.
JoinAliased ==
    /\ InStartLdSt
    /\ captured.aliased # UnallocatedTag
    /\ captured.aliased # captured.curr
    /\ tag' = [tag EXCEPT ![captured.index] = captured.aliased]
    /\ data_wr' = IF IsSt THEN DataWrite(captured.aliased, captured.data) ELSE NoReq
    /\ stop_mem_read
    /\ UNCHANGED base_addr

\* Mutant: the element joined does not count its new LAR.
HitFromUnallocated_NotCounted ==
    /\ JoinAliased
    /\ captured.ref_count = 0
    /\ dirty' = [dirty EXCEPT ![captured.aliased] = @ \/ IsSt]
    /\ stop_mem_write /\ finish_ldst
    /\ UNCHANGED <<ref_count, stackVars>>

HitFromUnallocated ==
    /\ JoinAliased
    /\ captured.ref_count = 0
    /\ ref_count' = [ref_count EXCEPT ![captured.aliased] = Incr(@)]
    /\ dirty' = [dirty EXCEPT ![captured.aliased] = @ \/ IsSt]
    /\ stop_mem_write /\ finish_ldst
    /\ UNCHANGED stackVars

\* Mutants: the tag is pushed over the top of the stack; it is never pushed.
PushOldTag_OverTop ==
    /\ tag_stack' = [tag_stack EXCEPT ![curr_tag_stack_index] = captured.curr]
    /\ curr_tag_stack_index' = captured.above
PushOldTag_Leak == UNCHANGED stackVars
PushOldTag ==
    /\ tag_stack' = [tag_stack EXCEPT ![captured.above] = captured.curr]
    /\ curr_tag_stack_index' = captured.above

\* Mutant: the element that was freed stays dirty.
CleanOldTag_Dirty == dirty' = [dirty EXCEPT ![captured.aliased] = @ \/ IsSt]
CleanOldTag == dirty' = [dirty EXCEPT ![captured.aliased] = @ \/ IsSt,
                                      ![captured.curr] = FALSE]

\* The last reference to the old element goes: its tag is pushed, and dirty
\* data goes out to memory.  The only place that frees a tag.
HitFreeingOldTag ==
    /\ JoinAliased
    /\ captured.ref_count = 1
    /\ PushOldTag /\ CleanOldTag
    /\ ref_count' = [ref_count EXCEPT ![captured.aliased] = Incr(@),
                                      ![captured.curr] = 0]
    /\ IF captured.dirty
       THEN prep_mem_write /\ WaitIn("WrStWaitForJustMemWrite")
       ELSE stop_mem_write /\ finish_ldst

\* Mutant: the element joined takes the stored data but stays clean.
HitLeavingSharedTag_StaysClean ==
    /\ JoinAliased
    /\ captured.ref_count > 1
    /\ ref_count' = [ref_count EXCEPT ![captured.aliased] = Incr(@),
                                      ![captured.curr] = Decr(@)]
    /\ stop_mem_write /\ finish_ldst
    /\ UNCHANGED <<dirty, stackVars>>

HitLeavingSharedTag ==
    /\ JoinAliased
    /\ captured.ref_count > 1
    /\ ref_count' = [ref_count EXCEPT ![captured.aliased] = Incr(@),
                                      ![captured.curr] = Decr(@)]
    /\ dirty' = [dirty EXCEPT ![captured.aliased] = @ \/ IsSt]
    /\ stop_mem_write /\ finish_ldst
    /\ UNCHANGED stackVars

InMiss == InStartLdSt /\ captured.aliased = UnallocatedTag

\* A new element for this LAR, with the tag on top of the stack.
AllocateTop ==
    /\ tag' = [tag EXCEPT ![captured.index] = captured.top]
    /\ curr_tag_stack_index' = Decr(curr_tag_stack_index)
    /\ base_addr' = [base_addr EXCEPT ![captured.top] = captured.new_addr]
    /\ dirty' = [dirty EXCEPT ![captured.top] = IsSt]
    /\ stop_mem_write
    /\ UNCHANGED tag_stack

\* A store leaves whatever data the element had.
MissFromUnallocated ==
    /\ InMiss
    /\ captured.ref_count = 0
    /\ AllocateTop
    /\ ref_count' = [ref_count EXCEPT ![captured.top] = 1]
    /\ IF IsLd
       THEN prep_mem_read /\ WaitIn("WrStWaitForJustMemRead")
       ELSE stop_mem_read /\ finish_ldst
    /\ UNCHANGED data_wr

\* The only reference: the element moves to the new address, and dirty data
\* goes out to memory first.
MissSoleReference ==
    /\ InMiss
    /\ captured.ref_count = 1
    /\ base_addr' = [base_addr EXCEPT ![captured.curr] = captured.new_addr]
    /\ IF captured.dirty THEN prep_mem_write ELSE stop_mem_write
    /\ IF IsLd THEN prep_mem_read ELSE stop_mem_read
    /\ \/ /\ captured.dirty /\ IsLd
          /\ dirty' = [dirty EXCEPT ![captured.curr] = FALSE]
          /\ WaitIn("WrStWaitForMemReadAndMemWrite")
       \/ /\ captured.dirty /\ IsSt
          /\ UNCHANGED dirty
          /\ WaitIn("WrStWaitForJustMemWrite")
       \/ /\ ~captured.dirty /\ IsLd
          /\ UNCHANGED dirty
          /\ WaitIn("WrStWaitForJustMemRead")
       \/ /\ ~captured.dirty /\ IsSt
          /\ dirty' = [dirty EXCEPT ![captured.curr] = TRUE]
          /\ finish_ldst
    /\ UNCHANGED <<tag, ref_count, stackVars, data_wr>>

\* Other LARs keep the old element; a store copies its data to the new one.
MissLeavingSharedTag ==
    /\ InMiss
    /\ captured.ref_count > 1
    /\ AllocateTop
    /\ ref_count' = [ref_count EXCEPT ![captured.top] = 1,
                                      ![captured.curr] = Decr(captured.ref_count)]
    /\ IF IsLd
       THEN prep_mem_read /\ WaitIn("WrStWaitForJustMemRead") /\ UNCHANGED data_wr
       ELSE /\ stop_mem_read /\ finish_ldst
            /\ data_wr' = DataWrite(captured.top, captured.data)

-----------------------------------------------------------------------------
(* The waiting states *)

\* Mutant: the read request is not taken back.
InWait_KeepsReading(state) ==
    /\ wr_state = state
    /\ stop_mem_write
    /\ UNCHANGED <<out_mem_read, metadataVars, shareddataVars, stackVars, captured>>
InWait(state) ==
    /\ wr_state = state
    /\ stop_mem_read /\ stop_mem_write
    /\ UNCHANGED <<metadataVars, shareddataVars, stackVars, captured>>

\* Mutant: the line from memory goes to the element the LAR had before.
FillData_OldTag(in_mem_read) ==
    data_wr' = IF in_mem_read.valid
               THEN DataWrite(captured.curr, in_mem_read.data) ELSE NoReq
FillData(in_mem_read) ==
    data_wr' = IF in_mem_read.valid
               THEN DataWrite(tag[captured.index], in_mem_read.data) ELSE NoReq

WaitForJustMemRead(in_mem_read) ==
    /\ InWait("WrStWaitForJustMemRead")
    /\ FillData(in_mem_read)
    /\ IF in_mem_read.valid THEN finish_ldst ELSE UNCHANGED <<wr_state, out_wr_valid>>
    /\ UNCHANGED captured_valid

WaitForJustMemWrite(in_mem_write) ==
    /\ InWait("WrStWaitForJustMemWrite")
    /\ data_wr' = NoReq
    /\ IF in_mem_write.valid THEN finish_ldst ELSE UNCHANGED <<wr_state, out_wr_valid>>
    /\ UNCHANGED captured_valid

\* Mutants: the wait ends with whichever answer comes first; only with both at once.
WaitIsOver_First(in_mem_read, in_mem_write) == in_mem_read.valid \/ in_mem_write.valid
WaitIsOver_Together(in_mem_read, in_mem_write) == in_mem_read.valid /\ in_mem_write.valid
\* The wait ends at an answer that finds the other one already captured.  Two
\* answers at the same edge are both captured, and then nothing ends the wait.
WaitIsOver(in_mem_read, in_mem_write) ==
    \/ in_mem_read.valid /\ ~in_mem_write.valid /\ captured_valid.write
    \/ in_mem_write.valid /\ ~in_mem_read.valid /\ captured_valid.read

WaitForMemReadAndMemWrite(in_mem_read, in_mem_write) ==
    /\ InWait("WrStWaitForMemReadAndMemWrite")
    /\ FillData(in_mem_read)
    /\ captured_valid' = [read  |-> captured_valid.read \/ in_mem_read.valid,
                          write |-> captured_valid.write \/ in_mem_write.valid]
    /\ IF WaitIsOver(in_mem_read, in_mem_write)
       THEN finish_ldst
       ELSE UNCHANGED <<wr_state, out_wr_valid>>

-----------------------------------------------------------------------------
(* The block RAM writes what the port held before the edge. *)

ShareddataData ==
    data' = IF data_wr.req THEN [data EXCEPT ![data_wr.index] = data_wr.data] ELSE data

IdleFsm(in_wr) ==
    \/ IdleNoWrite(in_wr)
    \/ IdleWriteData(in_wr)
    \/ IdleStartLdSt(in_wr)

StartLdStFsm ==
    \/ HitOwnElement
    \/ HitFromUnallocated
    \/ HitFreeingOldTag
    \/ HitLeavingSharedTag
    \/ MissFromUnallocated
    \/ MissSoleReference
    \/ MissLeavingSharedTag

WaitFsm(in_mem_read, in_mem_write) ==
    \/ WaitForJustMemRead(in_mem_read)
    \/ WaitForJustMemWrite(in_mem_write)
    \/ WaitForMemReadAndMemWrite(in_mem_read, in_mem_write)

\* One clock edge with the given inputs.
Clock(in_wr, in_mem_read, in_mem_write) ==
    /\ IdleFsm(in_wr) \/ StartLdStFsm \/ WaitFsm(in_mem_read, in_mem_write)
    /\ ShareddataData

\* One clock edge with any inputs.
Next ==
    /\ \/ \E in_wr \in InWr : IdleFsm(in_wr)
       \/ StartLdStFsm
       \/ \E in_mem_read \in InMemRead, in_mem_write \in InMemWrite :
             WaitFsm(in_mem_read, in_mem_write)
    /\ ShareddataData

Spec == Init /\ [][Next]_larVars

-----------------------------------------------------------------------------
(* Properties *)

Captured == [index : Lars \ {dzero}, write_type : {"Ld", "St"}, new_addr : BaseAddr,
             curr : Tags, aliased : Tags, top : Tags, above : Tags,
             ref_count : Tags, dirty : BOOLEAN, old_addr : BaseAddr, data : Data]

\* The registers hold values of their widths, and the FSM never enters WrStBad.
TypeOK ==
    /\ wr_state \in {"WrStIdle", "WrStStartLdSt", "WrStWaitForJustMemRead",
                     "WrStWaitForJustMemWrite", "WrStWaitForMemReadAndMemWrite"}
    /\ tag \in [Lars -> Tags]
    /\ data_offset \in [Lars -> DataOffset]
    /\ data_type \in [Lars -> DataType]
    /\ base_addr \in [Tags -> BaseAddr]
    /\ ref_count \in [Tags -> Tags]
    /\ dirty \in [Tags -> BOOLEAN]
    /\ data \in [Tags -> Data]
    /\ data_wr \in {NoReq} \cup [req : {TRUE}, index : Tags, data : Data]
    /\ tag_stack \in [Tags -> Tags]
    /\ curr_tag_stack_index \in Tags
    /\ captured \in {NothingCaptured} \cup Captured
    /\ wr_state # "WrStIdle" => captured \in Captured
    /\ captured_valid \in [read : BOOLEAN, write : BOOLEAN]
    /\ out_wr_valid \in BOOLEAN
    /\ out_mem_read \in {NoReq} \cup [req : {TRUE}, base_addr : BaseAddr]
    /\ out_mem_write \in {NoReq} \cup [req : {TRUE}, base_addr : BaseAddr, data : Data]

Holders(t) == {l \in Lars : tag[l] = t}
FreeTags == {t \in Tags \ {UnallocatedTag} : ref_count[t] = 0}
Allocated(t) == t # UnallocatedTag /\ ref_count[t] # 0

\* The reference count of an element is the number of LARs that carry its tag,
\* although the FSM only ever adds and subtracts one in a 4-bit register.
RefCountsAreExact ==
    /\ \A t \in Tags \ {UnallocatedTag} : ref_count[t] = Cardinality(Holders(t))
    /\ ref_count[UnallocatedTag] = 0

\* The stack holds every free tag exactly once and nothing else, so a pop never
\* hands out an element that is in use, and tag 0 is never allocated.
StackHoldsFreeTags ==
    /\ {tag_stack[i] : i \in 1 .. curr_tag_stack_index} = FreeTags
    /\ \A i, j \in 1 .. curr_tag_stack_index : i # j => tag_stack[i] # tag_stack[j]

\* dzero never gets an element: it stays bound to tag 0, whose data is never written.
DzeroIsZero ==
    /\ tag[dzero] = UnallocatedTag
    /\ data[UnallocatedTag] = Zero
    /\ ~dirty[UnallocatedTag]

\* Two elements in use never hold the same line, so the OR tree of the tag
\* search yields a tag and not a mixture of two.
OneElementPerLine ==
    \A s, t \in Tags : Allocated(s) /\ Allocated(t) /\ base_addr[s] = base_addr[t] => s = t

\* In WrStStartLdSt the captured registers agree with the ones they were taken
\* from, one edge later: nothing else moves while a load or store is under way.
SnapshotIsConsistent ==
    wr_state = "WrStStartLdSt" =>
        /\ captured.curr = tag[captured.index]
        /\ captured.aliased \in TagSearch(captured.new_addr)
        /\ captured.top = tag_stack[curr_tag_stack_index]
        /\ captured.above = Incr(curr_tag_stack_index)
        /\ captured.ref_count = ref_count[captured.curr]
        /\ captured.dirty = dirty[captured.curr]
        /\ captured.old_addr = base_addr[captured.curr]

\* A block RAM write, now or when the awaited line arrives, goes to an element
\* that was allocated, never to the data of dzero.
DataWritesAvoidDzero ==
    /\ data_wr.req => data_wr.index # UnallocatedTag
    /\ wr_state \in {"WrStWaitForJustMemRead", "WrStWaitForMemReadAndMemWrite"}
           => tag[captured.index] # UnallocatedTag

\* An element that is going to be allocated is there when the FSM needs it: the
\* stack is not empty in a miss that takes a tag from it, nor full in a hit that
\* gives one back, and the element it takes is free.
PopsAndPushesFit ==
    wr_state = "WrStStartLdSt" =>
        /\ captured.aliased = UnallocatedTag /\ captured.ref_count # 1 =>
               curr_tag_stack_index > 0 /\ captured.top \in FreeTags
        /\ captured.aliased \notin {UnallocatedTag, captured.curr} /\ captured.ref_count = 1 =>
               curr_tag_stack_index < NumLars - 1 /\ captured.above = curr_tag_stack_index + 1

\* The inductive invariant behind the theorems of LarFile_proofs.
LarInv ==
    /\ TypeOK
    /\ RefCountsAreExact
    /\ StackHoldsFreeTags
    /\ DzeroIsZero
    /\ OneElementPerLine
    /\ SnapshotIsConsistent
    /\ DataWritesAvoidDzero

\* Only an element in use is dirty: one that was freed dirty would write its old
\* line back when it is used again.
DirtyElementsAreInUse == \A t \in Tags : dirty[t] => Allocated(t)

\* Dirty data is never dropped: an element stops being dirty, or stops being the
\* holder of its line, only at an edge that sends a write of that line to memory.
DropsOnlyWhatItWritesBack ==
    \A t \in Tags :
        dirty[t] /\ (~dirty'[t] \/ base_addr'[t] # base_addr[t] \/ ref_count'[t] = 0)
           => out_mem_write'.req /\ out_mem_write'.base_addr = base_addr[t]
DirtyLineIsWrittenBack == [][DropsOnlyWhatItWritesBack]_larVars
=============================================================================
