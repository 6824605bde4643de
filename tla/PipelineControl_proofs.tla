----------------------- MODULE PipelineControl_proofs -----------------------
(***************************************************************************)
(* Proofs about the pipeline and the instruction cache, for every program,  *)
(* every number of addresses, every size of the cache, and every latency of *)
(* memory, of the casters and units of the execute stage and of the LAR     *)
(* file.                                                                    *)
(***************************************************************************)
EXTENDS PipelineControl, SequenceTheorems, TLAPS

-----------------------------------------------------------------------------
(* Addresses *)

LEMMA SizesArePositive ==
    /\ NumAddrs \in Nat /\ NumAddrs > 0
    /\ LineSize \in Nat /\ LineSize > 0
    /\ NumLines \in Nat /\ NumLines > 0
  BY SizesAssumption

\* The quotient and the remainder are the only ones.
LEMMA DivisionIsUnique ==
    ASSUME NEW b \in Nat \ {0}, NEW q \in Int, NEW r \in 0 .. b - 1
    PROVE  (q * b + r) \div b = q /\ (q * b + r) % b = r
<1> DEFINE a == q * b + r
           p == a \div b
           s == a % b
<1>1. a \in Int /\ p \in Int /\ s \in 0 .. b - 1 /\ a = p * b + s
  OBVIOUS
<1>2. (p - q) * b = r - s
  BY <1>1
<1>3. p - q < 1
  <2>1. SUFFICES ASSUME p - q >= 1 PROVE FALSE
    BY <1>1
  <2>2. (p - q) * b >= b
    BY <1>1, <2>1
  <2>3. QED
    BY <1>1, <1>2, <2>2
<1>4. p - q > -1
  <2>1. SUFFICES ASSUME p - q <= -1 PROVE FALSE
    BY <1>1
  <2>2. (q - p) * b >= b
    BY <1>1, <2>1
  <2>3. (q - p) * b = s - r
    BY <1>1
  <2>4. QED
    BY <1>1, <2>2, <2>3
<1>5. p = q
  BY <1>1, <1>3, <1>4
<1>6. QED
  BY <1>1, <1>5

LEMMA DivisionOfAddress ==
    ASSUME NEW a \in Nat, NEW b \in Nat \ {0}
    PROVE  a \div b \in Nat /\ a % b \in 0 .. b - 1 /\ a = (a \div b) * b + (a % b)
<1>1. a \div b \in Int /\ a % b \in 0 .. b - 1 /\ a = (a \div b) * b + (a % b)
  OBVIOUS
<1>2. a \div b >= 0
  <2>1. SUFFICES ASSUME a \div b <= -1 PROVE FALSE
    BY <1>1
  <2>2. (a \div b) * b <= -b
    BY <1>1, <2>1
  <2>3. QED
    BY <1>1, <2>2
<1>3. QED
  BY <1>1, <1>2

\* A line's address is what the tag and the index say together.
LEMMA LineAddrFromParts ==
    ASSUME NEW a \in Addrs
    PROVE  /\ Ic!LineAddr(a) = Ic!Tag(a) * LineSize * NumLines + Ic!ArrIndex(a) * LineSize
           /\ Ic!ArrIndex(a) \in 0 .. NumLines - 1
<1> DEFINE n == a \div LineSize
           q == n \div NumLines
           i == n % NumLines
           l == a % LineSize
<1>1. /\ a \in Nat /\ LineSize \in Nat \ {0} /\ NumLines \in Nat \ {0}
      /\ LineSize * NumLines \in Nat \ {0}
  BY SizesArePositive DEF Addrs
<1>2. n \in Nat /\ l \in 0 .. LineSize - 1 /\ a = n * LineSize + l
  BY <1>1, DivisionOfAddress
<1>3. q \in Nat /\ i \in 0 .. NumLines - 1 /\ n = q * NumLines + i
  BY <1>1, <1>2, DivisionOfAddress
<1> HIDE DEF n, q, i, l
<1>4. n * LineSize = q * (LineSize * NumLines) + i * LineSize
  BY <1>1, <1>2, <1>3
<1>5. i * LineSize + l \in 0 .. LineSize * NumLines - 1
  <2>1. i * LineSize <= (NumLines - 1) * LineSize
    BY <1>1, <1>3
  <2>2. (NumLines - 1) * LineSize = LineSize * NumLines - LineSize
    BY <1>1
  <2>3. i * LineSize \in Nat
    BY <1>1, <1>3
  <2>4. QED
    BY <1>1, <1>2, <2>1, <2>2, <2>3
<1>6. a = q * (LineSize * NumLines) + (i * LineSize + l)
  BY <1>1, <1>2, <1>3, <1>4
<1>7. q = Ic!Tag(a)
  BY <1>1, <1>3, <1>5, <1>6, DivisionIsUnique DEF Ic!Tag
<1>8. i = Ic!ArrIndex(a)
  BY DEF Ic!ArrIndex, i, n
<1>9. Ic!LineAddr(a) = a - l
  BY DEF Ic!LineAddr, Ic!LineIndex, l
<1>10. a - l = q * LineSize * NumLines + i * LineSize
  BY <1>1, <1>2, <1>3, <1>4
<1>11. QED
  BY <1>3, <1>7, <1>8, <1>9, <1>10

\* An instruction is found in its line.
LEMMA InstrIsInLine ==
    ASSUME NEW a \in Addrs
    PROVE  Line(Ic!LineAddr(a))[Ic!LineIndex(a)] = program[a]
<1>1. a \in Nat /\ LineSize \in Nat \ {0}
  BY SizesArePositive DEF Addrs
<1>2. a % LineSize \in 0 .. LineSize - 1
  BY <1>1, DivisionOfAddress
<1>3. Line(Ic!LineAddr(a))[a % LineSize] = program[(a - (a % LineSize)) + (a % LineSize)]
  BY <1>2 DEF Line, Ic!LineAddr, Ic!LineIndex
<1>4. \A l \in 0 .. LineSize - 1 : (a - l) + l = a
  BY <1>1
<1>5. (a - (a % LineSize)) + (a % LineSize) = a
  BY <1>2, <1>4
<1>6. QED
  BY <1>3, <1>5 DEF Ic!LineIndex

LEMMA WrapsIntoAddrs ==
    ASSUME NEW a \in Int
    PROVE  a % NumAddrs \in Addrs
  BY SizesArePositive DEF Addrs

\* A branch counts from the address after its own, wrapped or not.
LEMMA BranchFromWrapped ==
    ASSUME NEW a \in Addrs, NEW offset \in Int
    PROVE  (((a + 1) % NumAddrs) + offset) % NumAddrs = (a + 1 + offset) % NumAddrs
<1> DEFINE N == NumAddrs
           q == (a + 1) \div N
           r == (a + 1) % N
           s == (r + offset) \div N
           t == (r + offset) % N
<1>1. N \in Nat \ {0} /\ a \in Int
  BY SizesArePositive DEF Addrs
<1>2. q \in Int /\ r \in 0 .. N - 1 /\ a + 1 = q * N + r
  BY <1>1
<1>3. s \in Int /\ t \in 0 .. N - 1 /\ r + offset = s * N + t
  BY <1>1, <1>2
<1> HIDE DEF q, r, s, t, N
<1>4. a + 1 + offset = (q + s) * N + t
  BY <1>1, <1>2, <1>3
<1>5. q + s \in Int
  BY <1>2, <1>3
<1>6. (a + 1 + offset) % N = t
  BY <1>1, <1>3, <1>4, <1>5, DivisionIsUnique
<1>7. QED
  BY <1>6 DEF t, r, N

-----------------------------------------------------------------------------
(* What travels between the stages. *)

LEMMA InstrTypes ==
    ASSUME program \in Programs, NEW a \in Addrs
    PROVE  /\ program[a].kind \in Kinds /\ program[a].at = a
           /\ program[a].jmp \in BOOLEAN /\ program[a].offset \in Int
  BY ProgramsAssumption

LEMMA DecodedIsSlot ==
    ASSUME program \in Programs, NEW a \in Addrs, program[a].kind # "nop"
    PROVE  Decoded(a) \in Slots
  BY DEF Slots

\* A slot that is not a bubble holds an instruction of the program.
LEMMA SlotKinds ==
    ASSUME program \in Programs, NEW slot \in Slots
    PROVE  /\ slot.kind \in {"bubble", "nop", "alu", "ctrl", "ldst"}
           /\ slot.kind = "bubble" => slot = Bubble
           /\ slot.kind = "nop" => slot = IfId!NopBubble
           /\ ~IsBubble(slot) => \E a \in Addrs : slot = Decoded(a) /\ slot.kind = program[a].kind
<1>1. CASE slot = Bubble
  BY <1>1 DEF Bubble, Ex!Bubble, IsBubble
<1>2. CASE slot = IfId!NopBubble
  BY <1>2 DEF IfId!NopBubble, IsBubble
<1>3. CASE \E a \in Addrs : program[a].kind # "nop" /\ slot = Decoded(a)
  <2>1. PICK a \in Addrs : program[a].kind # "nop" /\ slot = Decoded(a)
    BY <1>3
  <2>2. slot.kind = program[a].kind /\ slot.kind \in {"alu", "ctrl", "ldst"}
    BY <2>1, InstrTypes DEF Decoded, Kinds
  <2>3. QED
    BY <2>1, <2>2 DEF IsBubble
<1>4. QED
  BY <1>1, <1>2, <1>3 DEF Slots

-----------------------------------------------------------------------------
(* One edge: what each stage does, with the stall lines expressed by the     *)
(* states they are computed from.                                            *)

ExStalls == ex_state' # "StRegular"
WbStalls == wb_state' # "StRegular"
Fetched == IF Ic!Valid THEN Ic!Instr ELSE Bubble
Asked(computed_pc) == IfId!RequestedAddr(Ic!Valid, Fetched, ExStalls, computed_pc)

\* The execute stage keeps the instruction it uses, or hands it on.
ExecuteMoves ==
    /\ ex_state' \in {"StRegular", "StWaitForScalarCaster", "StWaitForVectorCaster",
                      "StInjectCastedScalars", "StUseCastedDataSingleCycle",
                      "StUseCastedDataMultiCycle", "StWaitForMultiCycleOp"}
    /\ to_wb' = IF ExStalls THEN Bubble ELSE InEx
    /\ captured_instr' = IF ExStalls THEN InEx ELSE Bubble
    /\ ExStalls /\ ex_state = "StRegular" => to_ex.kind \in {"alu", "nop"}

WriteBackMoves ==
    /\ wb_state' \in {"StRegular", "StPrepLdSt", "StWaitForLarFileValid"}
    /\ wb_state = "StRegular" => (WbStalls <=> to_wb.kind = "ldst")

CacheMoves(computed_pc, mem) ==
    /\ Ic!Clock(TRUE, Asked(computed_pc), mem)
    /\ Memory(mem)
    /\ UNCHANGED program

FetchMoves(computed_pc) == IfId!Clock(Ic!Valid, Fetched, ExStalls, computed_pc, WbStalls)

LEMMA ExecuteStep ==
    ASSUME TypeOK, NEW inp \in Inputs,
           NEW next_state,
           next_state = Ex!NextState(inp.cast, inp.multi, inp.caster_valid, inp.op_valid),
           Ex!Clock(to_ex, inp.multi, next_state)
    PROVE  ExecuteMoves /\ ExStalls = Ex!Stall(next_state)
<1>1. ex_state' = next_state
  BY DEF Ex!Clock
<1>2. ex_state = "StRegular" => inp.cast \in Ex!PossibleCasts(to_ex) /\ inp.multi \in Ex!PossibleMulti(to_ex)
  BY DEF Inputs
<1>3. CASE ex_state = "StRegular"
  <2>1. next_state = Ex!NextFromRegular(inp.cast, inp.multi)
    BY <1>3 DEF Ex!NextState
  <2>2. inp.cast \in {"None", "Scalar", "Vector"} /\ inp.multi \in BOOLEAN
    BY <1>2, <1>3 DEF Ex!PossibleCasts, Ex!PossibleMulti, Ex!Casts
  <2>3. next_state \in {"StRegular", "StWaitForScalarCaster", "StWaitForVectorCaster",
                        "StWaitForMultiCycleOp"}
    BY <2>1, <2>2 DEF Ex!NextFromRegular
  <2>4. next_state # "StRegular" => inp.cast # "None" \/ inp.multi
    BY <2>1, <2>2 DEF Ex!NextFromRegular
  <2>5. next_state # "StRegular" => to_ex.kind \in {"alu", "nop"}
    BY <1>2, <1>3, <2>4 DEF Ex!PossibleCasts, Ex!PossibleMulti
  <2>6. QED
    BY <1>1, <1>3, <2>3, <2>5
       DEF ExecuteMoves, ExStalls, Ex!Clock, Ex!Stall, Ex!ToWb, Ex!CaptureInstr,
           Ex!InstrToUse, InEx, Bubble
<1>4. CASE ex_state # "StRegular"
  <2>1. next_state \in {"StRegular", "StWaitForScalarCaster", "StWaitForVectorCaster",
                        "StInjectCastedScalars", "StUseCastedDataSingleCycle",
                        "StUseCastedDataMultiCycle", "StWaitForMultiCycleOp"}
    BY <1>4 DEF TypeOK, Ex!NextState, Ex!UseCastedData
  <2>2. QED
    BY <1>1, <1>4, <2>1
       DEF ExecuteMoves, ExStalls, Ex!Clock, Ex!Stall, Ex!ToWb, Ex!CaptureInstr,
           Ex!InstrToUse, InEx, Bubble
<1>5. QED
  BY <1>3, <1>4

LEMMA WriteBackStep ==
    ASSUME TypeOK, NEW lar_valid \in BOOLEAN, Wb!Clock(WbInput, lar_valid)
    PROVE  WriteBackMoves /\ WbStalls = Wb!Stall(WbInput, lar_valid)
<1>1. WbInput.group \in {0, 1, 2} /\ (WbInput.group = 2 <=> to_wb.kind = "ldst")
  BY DEF WbInput, Wb!NoWriteInstr, Wb!Bubble
<1>2. CASE wb_state = "StRegular"
  BY <1>1, <1>2
     DEF WriteBackMoves, WbStalls, Wb!Stall, Wb!Clock, Wb!RegularWrite, Wb!RegularNoWrite,
         Wb!RegularLdSt, Wb!PrepLdSt, Wb!WaitForLarFileValid
<1>3. CASE wb_state = "StPrepLdSt"
  BY <1>3
     DEF WriteBackMoves, WbStalls, Wb!Stall, Wb!Clock, Wb!RegularWrite, Wb!RegularNoWrite,
         Wb!RegularLdSt, Wb!PrepLdSt, Wb!WaitForLarFileValid
<1>4. CASE wb_state = "StWaitForLarFileValid"
  BY <1>4
     DEF WriteBackMoves, WbStalls, Wb!Stall, Wb!Clock, Wb!RegularWrite, Wb!RegularNoWrite,
         Wb!RegularLdSt, Wb!PrepLdSt, Wb!WaitForLarFileValid
<1>5. QED
  BY <1>2, <1>3, <1>4 DEF TypeOK

LEMMA StepIsEdge ==
    ASSUME TypeOK, Next
    PROVE  /\ ExecuteMoves /\ WriteBackMoves
           /\ \E mem \in MemAnswers, computed_pc \in Ex!ComputedPcs(to_ex) :
                  CacheMoves(computed_pc, mem) /\ FetchMoves(computed_pc)
<1>1. PICK inp \in Inputs : Edge(inp)
  BY DEF Next
<1> DEFINE next_state == Ex!NextState(inp.cast, inp.multi, inp.caster_valid, inp.op_valid)
           ex_stall == Ex!Stall(next_state)
           wb_stall == Wb!Stall(WbInput, inp.lar_valid)
<1>2. PICK computed_pc \in Ex!ComputedPcs(to_ex) :
          /\ Ic!Clock(TRUE, IfId!RequestedAddr(Ic!Valid, Fetched, ex_stall, computed_pc), inp.mem)
          /\ IfId!Clock(Ic!Valid, Fetched, ex_stall, computed_pc, wb_stall)
          /\ Ex!Clock(to_ex, inp.multi, next_state)
          /\ Wb!Clock(WbInput, inp.lar_valid)
          /\ Memory(inp.mem)
          /\ UNCHANGED program
  BY <1>1 DEF Edge, Fetched
<1>3. inp.mem \in MemAnswers /\ inp.lar_valid \in BOOLEAN
  BY DEF Inputs
<1>4. ExecuteMoves /\ ExStalls = ex_stall
  BY <1>2, ExecuteStep
<1>5. WriteBackMoves /\ WbStalls = wb_stall
  BY <1>2, <1>3, WriteBackStep
<1> HIDE DEF next_state, ex_stall, wb_stall
<1>6. CacheMoves(computed_pc, inp.mem) /\ FetchMoves(computed_pc)
  BY <1>2, <1>4, <1>5 DEF CacheMoves, FetchMoves, Asked
<1>7. QED
  BY <1>3, <1>4, <1>5, <1>6

-----------------------------------------------------------------------------
(* The instruction cache. *)

CacheInv ==
    /\ CacheHoldsMemory /\ CapturedLineHoldsMemory /\ FetchesTheMissedLine

\* What the cache answers is the instruction that was asked for.
LEMMA AnswerIsInstr ==
    ASSUME TypeOK, CapturedLineHoldsMemory, Ic!Valid
    PROVE  /\ ic_state = "StIdle" /\ captured_req
           /\ Fetched = program[captured_addr] /\ Ic!Instr = program[captured_addr]
<1>1. captured_line.data = Line(Ic!LineAddr(captured_addr))
  BY LineAddrFromParts DEF TypeOK, CapturedLineHoldsMemory, Ic!Valid, Ic!LineIsValid
<1>2. QED
  BY <1>1, InstrIsInLine DEF TypeOK, Fetched, Ic!Instr, Ic!Valid

LEMMA TakenIsAtPc ==
    ASSUME PipeInv, Ic!Valid, ifid_state # "StChangePc"
    PROVE  captured_addr = spec_reg_pc /\ Fetched = program[spec_reg_pc]
                                       /\ Ic!Instr = program[spec_reg_pc]
  BY AnswerIsInstr DEF PipeInv, RequestIsForPc

\* The line memory answers with is the one that was missed.
LEMMA AnswerIsMissedLine ==
    ASSUME TypeOK, FetchesTheMissedLine, NEW mem \in MemAnswers, mem.valid
    PROVE  /\ mem.data = Line(Ic!LineAddr(captured_addr))
           /\ ~ic_mem_access.req
<1>1. waiting_line # NoLine /\ mem.data = Line(waiting_line)
  BY DEF MemAnswers
<1>2. QED
  BY <1>1 DEF FetchesTheMissedLine

LEMMA CacheStep ==
    ASSUME TypeOK, CacheInv, NEW computed_pc, Asked(computed_pc) \in Addrs,
           NEW mem \in MemAnswers, CacheMoves(computed_pc, mem)
    PROVE  /\ CacheInv'
           /\ program' = program /\ ic_state' \in {"StIdle", "StWaitForMem"}
           /\ captured_req' \in BOOLEAN /\ captured_addr' \in Addrs
           /\ DOMAIN lines' = 0 .. NumLines - 1
           /\ waiting_line' \in 0 .. NumAddrs
           /\ ic_state' = "StIdle" /\ captured_req' => captured_addr' = Asked(computed_pc)
<1> DEFINE addr == Asked(computed_pc)
<1>1. program' = program
  BY DEF CacheMoves
<1>2. \A a : Line(a)' = Line(a)
  BY <1>1 DEF Line
<1>3. /\ Ic!LineAddr(captured_addr) \in 0 .. NumAddrs
      /\ Ic!ArrIndex(addr) \in 0 .. NumLines - 1
      /\ Ic!ArrIndex(captured_addr) \in 0 .. NumLines - 1
  <2>1. captured_addr \in Nat /\ LineSize \in Nat \ {0} /\ NumAddrs \in Nat
    BY SizesArePositive DEF TypeOK, Addrs
  <2>2. captured_addr = (captured_addr \div LineSize) * LineSize + (captured_addr % LineSize)
        /\ captured_addr \div LineSize \in Nat /\ captured_addr % LineSize \in 0 .. LineSize - 1
    BY <2>1, DivisionOfAddress
  <2>3. (captured_addr \div LineSize) * LineSize \in Nat
    BY <2>1, <2>2
  <2>4. Ic!LineAddr(captured_addr) \in Nat /\ Ic!LineAddr(captured_addr) <= captured_addr
    BY <2>1, <2>2, <2>3 DEF Ic!LineAddr, Ic!LineIndex
  <2>5. QED
    BY <2>1, <2>4, LineAddrFromParts DEF TypeOK, Addrs
<1>4. waiting_line' \in 0 .. NumAddrs
  BY <1>3, SizesArePositive DEF CacheMoves, Memory, TypeOK, NoLine, FetchesTheMissedLine, CacheInv
<1>5. CASE Ic!Capture(TRUE, addr)
  <2>1. /\ lines' = lines /\ ic_state' = "StIdle" /\ captured_req' = TRUE
        /\ captured_addr' = addr /\ captured_line' = lines[Ic!ArrIndex(addr)]
        /\ ic_mem_access'.req = FALSE /\ ic_state = "StIdle"
    BY <1>5 DEF Ic!Capture, Ic!NoReq
  <2>2. CacheHoldsMemory'
    BY <1>2, <2>1 DEF CacheHoldsMemory, CacheInv
  <2>3. CapturedLineHoldsMemory'
    <3>1. lines[Ic!ArrIndex(addr)].valid =>
              lines[Ic!ArrIndex(addr)].data
                  = Line(lines[Ic!ArrIndex(addr)].tag * LineSize * NumLines
                         + Ic!ArrIndex(addr) * LineSize)
      BY <1>3 DEF CacheHoldsMemory, CacheInv, TypeOK
    <3>2. Ic!ArrIndex(captured_addr)' = Ic!ArrIndex(addr)
      BY <2>1 DEF Ic!ArrIndex
    <3>3. QED
      BY <1>2, <2>1, <3>1, <3>2 DEF CapturedLineHoldsMemory
  <2>4. waiting_line = NoLine /\ ~ic_mem_access.req
    BY <2>1 DEF CacheInv, FetchesTheMissedLine
  <2>5. waiting_line' = NoLine
    BY <2>4 DEF CacheMoves, Memory
  <2>6. FetchesTheMissedLine'
    BY <2>1, <2>5 DEF FetchesTheMissedLine, NoLine
  <2>7. QED
    BY <1>1, <1>4, <2>1, <2>2, <2>3, <2>6 DEF CacheInv, TypeOK
<1>6. CASE Ic!StartMiss
  <2>1. /\ lines' = lines /\ ic_state' = "StWaitForMem" /\ captured_req' = captured_req
        /\ captured_addr' = captured_addr /\ captured_line' = captured_line
        /\ ic_mem_access' = [req |-> TRUE, addr |-> Ic!LineAddr(captured_addr)]
        /\ ic_state = "StIdle"
    BY <1>6 DEF Ic!StartMiss
  <2>2. CacheHoldsMemory' /\ CapturedLineHoldsMemory'
    BY <1>2, <2>1 DEF CacheHoldsMemory, CapturedLineHoldsMemory, CacheInv, Ic!ArrIndex
  <2>3. waiting_line = NoLine /\ ~ic_mem_access.req
    BY <2>1 DEF CacheInv, FetchesTheMissedLine
  <2>4. waiting_line' = NoLine
    BY <2>3 DEF CacheMoves, Memory
  <2>5. Ic!LineAddr(captured_addr)' = Ic!LineAddr(captured_addr)
    BY <2>1 DEF Ic!LineAddr, Ic!LineIndex
  <2>6. FetchesTheMissedLine'
    BY <2>1, <2>4, <2>5 DEF FetchesTheMissedLine, NoLine
  <2>7. QED
    BY <1>1, <1>4, <2>1, <2>2, <2>6 DEF CacheInv, TypeOK
<1>7. CASE Ic!WaitForMem(mem)
  <2>1. /\ ic_state = "StWaitForMem" /\ captured_req' = FALSE
        /\ captured_addr' = captured_addr /\ captured_line' = captured_line
        /\ ic_mem_access'.req = FALSE
        /\ ic_state' = IF mem.valid THEN "StIdle" ELSE ic_state
        /\ IF mem.valid THEN Ic!Fill(mem.data) ELSE lines' = lines
    BY <1>7 DEF Ic!WaitForMem, Ic!ForgetRequest, Ic!NoReq
  <2>2. CapturedLineHoldsMemory'
    BY <1>2, <2>1 DEF CapturedLineHoldsMemory, CacheInv, Ic!ArrIndex
  <2>3. Ic!LineAddr(captured_addr)' = Ic!LineAddr(captured_addr)
    BY <2>1 DEF Ic!LineAddr, Ic!LineIndex
  <2>4. CASE mem.valid
    <3> DEFINE index == Ic!ArrIndex(captured_addr)
               line == [valid |-> TRUE, tag |-> Ic!Tag(captured_addr), data |-> mem.data]
    <3>1. mem.data = Line(Ic!LineAddr(captured_addr)) /\ ~ic_mem_access.req
      BY <2>4, AnswerIsMissedLine DEF CacheInv
    <3>2. lines' = [lines EXCEPT ![index] = line]
      BY <2>1, <2>4 DEF Ic!Fill
    <3>3. line.data = Line(line.tag * LineSize * NumLines + index * LineSize)
      BY <3>1, LineAddrFromParts DEF TypeOK
    <3> HIDE DEF index, line
    <3>4. DOMAIN lines' = DOMAIN lines
      BY <3>2
    <3>5. ASSUME NEW i \in DOMAIN lines', lines'[i].valid
          PROVE  lines'[i].data = Line(lines'[i].tag * LineSize * NumLines + i * LineSize)
      <4>1. CASE i = index
        BY <3>2, <3>3, <3>4, <3>5, <4>1
      <4>2. CASE i # index
        BY <3>2, <3>4, <3>5, <4>2 DEF CacheInv, CacheHoldsMemory
      <4>3. QED
        BY <4>1, <4>2
    <3>6. CacheHoldsMemory'
      BY <1>2, <3>5 DEF CacheHoldsMemory
    <3>7. waiting_line' = NoLine
      BY <2>4, <3>1 DEF CacheMoves, Memory
    <3>8. FetchesTheMissedLine'
      BY <2>1, <3>7 DEF FetchesTheMissedLine, NoLine
    <3>9. QED
      BY <1>1, <1>4, <2>1, <2>2, <2>4, <3>4, <3>6, <3>8 DEF CacheInv, TypeOK
  <2>5. CASE ~mem.valid
    <3>1. lines' = lines /\ ic_state' = "StWaitForMem"
      BY <2>1, <2>5
    <3>2. CacheHoldsMemory'
      BY <1>2, <3>1 DEF CacheInv, CacheHoldsMemory
    <3>3. waiting_line' = NoLine \/ waiting_line' = Ic!LineAddr(captured_addr)
      BY <2>5 DEF CacheMoves, Memory, CacheInv, FetchesTheMissedLine
    <3>4. FetchesTheMissedLine'
      BY <2>1, <2>3, <3>1, <3>3 DEF FetchesTheMissedLine, NoLine
    <3>5. QED
      BY <1>1, <1>4, <2>1, <2>2, <3>1, <3>2, <3>4 DEF CacheInv, TypeOK
  <2>6. QED
    BY <2>4, <2>5
<1>8. QED
  BY <1>5, <1>6, <1>7 DEF CacheMoves, Ic!Clock

-----------------------------------------------------------------------------
(* Fetching. *)

\* Only a branch or a jump has a program counter to offer: one of its targets.
LEMMA ComputedPcIsTarget ==
    ASSUME PipeInv, NEW computed_pc \in Ex!ComputedPcs(to_ex)
    PROVE  /\ computed_pc \in Addrs
           /\ ifid_state = "StChangePc" => computed_pc \in Order!Targets(to_ex.instr)
<1>1. 0 \in Addrs
  BY SizesArePositive DEF Addrs
<1>2. CASE ex_state = "StRegular" /\ to_ex.kind = "ctrl"
  <2>1. PICK a \in Addrs : to_ex = Decoded(a) /\ program[a].kind = "ctrl"
    BY <1>2, SlotKinds DEF PipeInv, TypeOK, IsBubble
  <2>2. to_ex.instr = program[a] /\ to_ex.pc_val = (a + 1) % NumAddrs
    BY <2>1 DEF Decoded
  <2>3. program[a].at = a /\ program[a].offset \in Int
    BY InstrTypes DEF PipeInv, TypeOK
  <2>4. computed_pc \in IF program[a].jmp THEN Addrs
                        ELSE {(a + 1) % NumAddrs,
                              (((a + 1) % NumAddrs) + program[a].offset) % NumAddrs}
    BY <1>2, <2>2 DEF Ex!ComputedPcs, Ex!InstrToUse, Addrs
  <2>5. /\ (a + 1) % NumAddrs \in Addrs
        /\ (((a + 1) % NumAddrs) + program[a].offset) % NumAddrs
             = (a + 1 + program[a].offset) % NumAddrs
        /\ (a + 1 + program[a].offset) % NumAddrs \in Addrs
    <3>1. a + 1 \in Int /\ a + 1 + program[a].offset \in Int
      BY <2>3 DEF Addrs
    <3>2. QED
      BY <2>3, <3>1, WrapsIntoAddrs, BranchFromWrapped
  <2>6. QED
    BY <2>2, <2>3, <2>4, <2>5 DEF Order!Targets, Addrs
<1>3. CASE ~(ex_state = "StRegular" /\ to_ex.kind = "ctrl")
  <2>1. Ex!InstrToUse(to_ex).kind # "ctrl" /\ ifid_state # "StChangePc"
    BY <1>3 DEF Ex!InstrToUse, PipeInv, StalledByAlu, FetchWaitsForYoungest
  <2>2. QED
    BY <1>1, <2>1 DEF Ex!ComputedPcs
<1>4. QED
  BY <1>2, <1>3

\* What is under way behind the fetch stage, as far as later stages care.
LEMMA InExKinds ==
    ASSUME PipeInv, ExecuteMoves
    PROVE  /\ InEx \in Slots
           /\ ifid_state # "StRegular" => InEx = to_ex /\ ~ExStalls
           /\ ifid_state = "StRegular" => InEx.kind \notin {"ctrl", "ldst"}
           /\ ifid_state = "StWaitForLdStPart1" => to_wb' = Bubble
           /\ ifid_state \notin {"StWaitForLdStPart0", "StWaitForLdStPart1"} => to_wb'.kind # "ldst"
<1>1. InEx \in Slots
  BY DEF PipeInv, TypeOK, InEx
<1>2. /\ ifid_state # "StRegular" => to_ex.kind \in {"bubble", "ctrl", "ldst"}
      /\ ifid_state \in {"StInit", "StChangePc"} => to_ex.kind # "ldst"
      /\ ifid_state = "StWaitForLdStPart1" => to_ex = Bubble
  <2>1. /\ ifid_state = "StInit" => to_ex = Bubble
        /\ ifid_state = "StChangePc" => to_ex.kind = "ctrl"
        /\ ifid_state = "StWaitForLdStPart0" => to_ex.kind = "ldst"
        /\ ifid_state = "StWaitForLdStPart1" => to_ex = Bubble
    BY DEF PipeInv, FetchWaitsForYoungest
  <2>2. Bubble.kind = "bubble"
    BY DEF Bubble, Ex!Bubble
  <2>3. ifid_state \in {"StInit", "StRegular", "StChangePc", "StWaitForLdStPart0",
                        "StWaitForLdStPart1"}
    BY DEF PipeInv, TypeOK
  <2>4. QED
    BY <2>1, <2>2, <2>3
<1>3. ifid_state # "StRegular" => InEx = to_ex /\ ~ExStalls
  BY <1>2 DEF PipeInv, FetchWaitsForYoungest, InEx, ExecuteMoves
<1>4. ifid_state = "StRegular" => InEx.kind \notin {"ctrl", "ldst"}
  BY DEF PipeInv, FetchWaitsForYoungest, StalledByAlu, InEx
<1>5. ifid_state = "StWaitForLdStPart1" => to_wb' = Bubble
  BY <1>2, <1>3 DEF ExecuteMoves
<1>6. ASSUME ifid_state \notin {"StWaitForLdStPart0", "StWaitForLdStPart1"}
      PROVE  to_wb'.kind # "ldst"
  <2>1. ifid_state \in {"StInit", "StRegular", "StChangePc"}
    BY <1>6 DEF PipeInv, TypeOK
  <2>2. InEx.kind # "ldst"
    BY <1>2, <1>3, <1>4, <2>1
  <2>3. QED
    BY <2>2 DEF ExecuteMoves, Bubble, Ex!Bubble
<1>7. QED
  BY <1>1, <1>3, <1>4, <1>5, <1>6

LEMMA ExecuteKeepsInv ==
    ASSUME PipeInv, ExecuteMoves, WriteBackMoves, program' = program
    PROVE  /\ StalledByAlu' /\ NothingReachesBusyWb'
           /\ {captured_instr', to_wb'} \subseteq Slots'
<1>1. Slots' = Slots
  BY DEF Slots, Decoded
<1>2. Bubble \in Slots
  BY DEF Slots
<1>3. {captured_instr', to_wb'} \subseteq Slots'
  BY <1>1, <1>2, InExKinds DEF ExecuteMoves
<1>4. ExStalls => InEx.kind \in {"alu", "nop"}
  BY DEF ExecuteMoves, PipeInv, StalledByAlu, InEx
<1>5. StalledByAlu'
  BY <1>4 DEF StalledByAlu, ExecuteMoves, ExStalls
<1>6. wb_state' # "StRegular" => ifid_state = "StWaitForLdStPart1"
  BY DEF WriteBackMoves, WbStalls, PipeInv, LdStIsAlone
<1>7. NothingReachesBusyWb'
  BY <1>6, InExKinds DEF NothingReachesBusyWb, IsBubble, Bubble, Ex!Bubble
<1>8. QED
  BY <1>3, <1>5, <1>7

\* What an edge must leave behind in the fetch stage.
FetchIsSound(computed_pc) ==
    /\ ifid_state' \in {"StInit", "StRegular", "StChangePc",
                        "StWaitForLdStPart0", "StWaitForLdStPart1"}
    /\ spec_reg_pc' \in Addrs
    /\ to_ex' \in Slots
    /\ FetchWaitsForYoungest' /\ LdStIsAlone'
    /\ ifid_state' # "StChangePc" => Asked(computed_pc) = spec_reg_pc'

LEMMA InitKeepsInv ==
    ASSUME PipeInv, ExecuteMoves, WriteBackMoves, NEW computed_pc, IfId!InInit(Ic!Valid)
    PROVE  FetchIsSound(computed_pc)
<1>1. /\ ifid_state = "StInit" /\ ifid_state' \in {"StInit", "StRegular"}
      /\ to_ex' = Bubble /\ spec_reg_pc' = spec_reg_pc
  BY DEF IfId!InInit, IfId!send_bubble, IfId!Bubble, Bubble, Ex!Bubble
<1>2. ~ExStalls /\ to_wb'.kind # "ldst"
  BY <1>1, InExKinds
<1>3. FetchWaitsForYoungest'
  BY <1>1, <1>2 DEF FetchWaitsForYoungest, ExStalls, Bubble, Ex!Bubble
<1>4. LdStIsAlone'
  BY <1>1, <1>2 DEF PipeInv, LdStIsAlone, WriteBackMoves, WbStalls
<1>5. Asked(computed_pc) = spec_reg_pc'
  BY <1>1 DEF Asked, IfId!RequestedAddr
<1>6. QED
  BY <1>1, <1>3, <1>4, <1>5 DEF FetchIsSound, PipeInv, TypeOK, Slots

LEMMA TakeKeepsInv ==
    ASSUME PipeInv, ExecuteMoves, WriteBackMoves, NEW computed_pc,
           IfId!RegularTake(Ic!Valid, Fetched, ExStalls)
    PROVE  /\ FetchIsSound(computed_pc)
           /\ ifid_state = "StRegular" /\ ~ExStalls
           /\ spec_reg_pc' = (spec_reg_pc + 1) % NumAddrs
           /\ ifid_state' = IfId!RegularState(program[spec_reg_pc])
           /\ to_ex' = IF program[spec_reg_pc].kind = "nop" THEN IfId!NopBubble
                       ELSE Decoded(spec_reg_pc)
<1> DEFINE instr == program[spec_reg_pc]
<1>1. ifid_state = "StRegular" /\ ~ExStalls /\ Ic!Valid
  BY DEF IfId!RegularTake
<1>2. Fetched = instr /\ spec_reg_pc \in Addrs /\ instr.kind \in Kinds
  BY <1>1, TakenIsAtPc, InstrTypes DEF PipeInv, TypeOK
<1>3. /\ spec_reg_pc' = (spec_reg_pc + 1) % NumAddrs
      /\ ifid_state' = IfId!RegularState(instr)
      /\ to_ex' = IF instr.kind = "nop" THEN IfId!NopBubble ELSE Decoded(spec_reg_pc)
  BY <1>2 DEF IfId!RegularTake, IfId!following_pc, IfId!send_curr_instr, Decoded
<1>4. spec_reg_pc' \in Addrs
  BY <1>2, <1>3, WrapsIntoAddrs DEF Addrs
<1>5. to_ex' \in Slots
  BY <1>2, <1>3, DecodedIsSlot DEF Slots, PipeInv, TypeOK
<1>6. to_ex'.kind = instr.kind
  BY <1>3 DEF IfId!NopBubble, Decoded
<1>7. /\ ifid_state' \in {"StRegular", "StChangePc", "StWaitForLdStPart0"}
      /\ ifid_state' = "StChangePc" <=> instr.kind = "ctrl"
      /\ ifid_state' = "StWaitForLdStPart0" <=> instr.kind = "ldst"
  BY <1>2, <1>3 DEF IfId!RegularState, Kinds
<1>8. FetchWaitsForYoungest'
  BY <1>1, <1>2, <1>6, <1>7 DEF FetchWaitsForYoungest, ExStalls, Kinds
<1>9. to_wb'.kind # "ldst"
  BY <1>1, InExKinds
<1>10. LdStIsAlone'
  BY <1>1, <1>7, <1>9 DEF PipeInv, LdStIsAlone, WriteBackMoves, WbStalls
<1>11. ifid_state' # "StChangePc" => Asked(computed_pc) = spec_reg_pc'
  BY <1>1, <1>2, <1>3, <1>7 DEF Asked, IfId!RequestedAddr, IfId!following_pc
<1>12. QED
  BY <1>1, <1>3, <1>4, <1>5, <1>7, <1>8, <1>10, <1>11 DEF FetchIsSound

LEMMA NoTakeKeepsInv ==
    ASSUME PipeInv, ExecuteMoves, WriteBackMoves, NEW computed_pc,
           IfId!RegularMiss(Ic!Valid, ExStalls) \/ IfId!RegularStall(ExStalls)
    PROVE  /\ FetchIsSound(computed_pc)
           /\ ifid_state = "StRegular" /\ ifid_state' = "StRegular" /\ spec_reg_pc' = spec_reg_pc
           /\ ~ExStalls => to_ex' = Bubble
<1>1. /\ ifid_state = "StRegular" /\ ifid_state' = "StRegular" /\ spec_reg_pc' = spec_reg_pc
      /\ to_ex' \in {Bubble, to_ex} /\ (ExStalls \/ ~Ic!Valid)
      /\ ~ExStalls => to_ex' = Bubble
  BY DEF IfId!RegularMiss, IfId!RegularStall, IfId!ifidVars, IfId!send_bubble, IfId!Bubble,
         Bubble, Ex!Bubble
<1>2. FetchWaitsForYoungest'
  BY <1>1 DEF FetchWaitsForYoungest, PipeInv, Bubble, Ex!Bubble
<1>3. to_wb'.kind # "ldst"
  BY <1>1, InExKinds
<1>4. LdStIsAlone'
  BY <1>1, <1>3 DEF PipeInv, LdStIsAlone, WriteBackMoves, WbStalls
<1>5. Asked(computed_pc) = spec_reg_pc'
  BY <1>1 DEF Asked, IfId!RequestedAddr
<1>6. QED
  BY <1>1, <1>2, <1>4, <1>5 DEF FetchIsSound, PipeInv, TypeOK, Slots

LEMMA ChangePcKeepsInv ==
    ASSUME PipeInv, ExecuteMoves, WriteBackMoves, NEW computed_pc \in Addrs,
           IfId!ChangePc(computed_pc)
    PROVE  FetchIsSound(computed_pc)
<1>1. /\ ifid_state = "StChangePc" /\ ifid_state' = "StRegular"
      /\ to_ex' = Bubble /\ spec_reg_pc' = computed_pc
  BY DEF IfId!ChangePc, IfId!send_bubble, IfId!Bubble, Bubble, Ex!Bubble
<1>2. FetchWaitsForYoungest'
  BY <1>1 DEF FetchWaitsForYoungest, Bubble, Ex!Bubble
<1>3. to_wb'.kind # "ldst"
  BY <1>1, InExKinds
<1>4. LdStIsAlone'
  BY <1>1, <1>3 DEF PipeInv, LdStIsAlone, WriteBackMoves, WbStalls
<1>5. Asked(computed_pc) = spec_reg_pc'
  BY <1>1 DEF Asked, IfId!RequestedAddr
<1>6. QED
  BY <1>1, <1>2, <1>4, <1>5 DEF FetchIsSound, Slots

LEMMA LdStWaitKeepsInv ==
    ASSUME PipeInv, ExecuteMoves, WriteBackMoves, NEW computed_pc,
           IfId!WaitForLdStPart0 \/ IfId!WaitForLdStPart1(WbStalls)
    PROVE  FetchIsSound(computed_pc)
<1>1. /\ ifid_state \in {"StWaitForLdStPart0", "StWaitForLdStPart1"}
      /\ ifid_state' = IF ifid_state = "StWaitForLdStPart0" \/ WbStalls
                       THEN "StWaitForLdStPart1" ELSE "StRegular"
      /\ to_ex' = Bubble /\ spec_reg_pc' = spec_reg_pc
  BY DEF IfId!WaitForLdStPart0, IfId!WaitForLdStPart1, IfId!send_bubble, IfId!Bubble,
         Bubble, Ex!Bubble
<1>2. ~ExStalls /\ InEx = to_ex
  BY <1>1, InExKinds
<1>3. FetchWaitsForYoungest'
  BY <1>1, <1>2 DEF FetchWaitsForYoungest, ExStalls, Bubble, Ex!Bubble
<1>4. CASE ifid_state = "StWaitForLdStPart0"
  <2>1. wb_state' = "StRegular" /\ to_wb'.kind = "ldst"
    BY <1>2, <1>4
       DEF PipeInv, LdStIsAlone, FetchWaitsForYoungest, WriteBackMoves, WbStalls, ExecuteMoves
  <2>2. QED
    BY <1>1, <1>3, <1>4, <2>1
       DEF FetchIsSound, LdStIsAlone, PipeInv, TypeOK, Slots, Asked, IfId!RequestedAddr
<1>5. CASE ifid_state = "StWaitForLdStPart1"
  <2>1. to_wb'.kind # "ldst"
    BY <1>5, InExKinds DEF Bubble, Ex!Bubble
  <2>2. LdStIsAlone'
    BY <1>1, <1>5, <2>1 DEF LdStIsAlone, WbStalls
  <2>3. QED
    BY <1>1, <1>3, <1>5, <2>2
       DEF FetchIsSound, PipeInv, TypeOK, Slots, Asked, IfId!RequestedAddr
<1>6. QED
  BY <1>1, <1>4, <1>5

LEMMA FetchKeepsInv ==
    ASSUME PipeInv, ExecuteMoves, WriteBackMoves, NEW computed_pc \in Ex!ComputedPcs(to_ex),
           FetchMoves(computed_pc)
    PROVE  FetchIsSound(computed_pc)
  BY ComputedPcIsTarget, InitKeepsInv, TakeKeepsInv, NoTakeKeepsInv, ChangePcKeepsInv,
     LdStWaitKeepsInv
     DEF FetchMoves, IfId!Clock

LEMMA AskedInAddrs ==
    ASSUME PipeInv, NEW computed_pc \in Addrs
    PROVE  Asked(computed_pc) \in Addrs
<1>1. spec_reg_pc \in Addrs
  BY DEF PipeInv, TypeOK
<1>2. spec_reg_pc + 1 \in Int
  BY <1>1 DEF Addrs
<1>3. (spec_reg_pc + 1) % NumAddrs \in Addrs
  BY <1>2, WrapsIntoAddrs
<1>4. QED
  BY <1>1, <1>3 DEF Asked, IfId!RequestedAddr, IfId!following_pc

-----------------------------------------------------------------------------
(* The invariant. *)

LEMMA InitEstablishesInv == Init => PipeInv
<1> SUFFICES ASSUME Init PROVE PipeInv
  OBVIOUS
<1> USE DEF Init, Ic!Init, IfId!Init, Ex!Init, Wb!Init
<1>1. 0 \in Addrs /\ NoLine \in 0 .. NumAddrs
  BY SizesArePositive DEF Addrs, NoLine
<1>2. Bubble \in Slots /\ IfId!Bubble = Bubble /\ Ex!Bubble = Bubble /\ Bubble.kind = "bubble"
  BY DEF Slots, Bubble, IfId!Bubble, Ex!Bubble
<1>3. TypeOK
  BY <1>1, <1>2 DEF TypeOK
<1>4. CacheHoldsMemory /\ CapturedLineHoldsMemory /\ FetchesTheMissedLine
  BY DEF CacheHoldsMemory, CapturedLineHoldsMemory, FetchesTheMissedLine, Ic!EmptyLine, Ic!NoReq
<1>5. RequestIsForPc /\ StalledByAlu /\ FetchWaitsForYoungest /\ LdStIsAlone
      /\ NothingReachesBusyWb
  BY <1>2 DEF RequestIsForPc, StalledByAlu, FetchWaitsForYoungest, LdStIsAlone, NothingReachesBusyWb
<1>6. QED
  BY <1>3, <1>4, <1>5 DEF PipeInv

LEMMA NextKeepsInv == PipeInv /\ Next => PipeInv'
<1> SUFFICES ASSUME PipeInv, Next PROVE PipeInv'
  OBVIOUS
<1>1. /\ ExecuteMoves /\ WriteBackMoves /\ TypeOK
      /\ \E mem \in MemAnswers, computed_pc \in Ex!ComputedPcs(to_ex) :
             CacheMoves(computed_pc, mem) /\ FetchMoves(computed_pc)
  BY StepIsEdge DEF PipeInv
<1>2. PICK mem \in MemAnswers, computed_pc \in Ex!ComputedPcs(to_ex) :
          CacheMoves(computed_pc, mem) /\ FetchMoves(computed_pc)
  BY <1>1
<1>3. computed_pc \in Addrs /\ Asked(computed_pc) \in Addrs
  BY ComputedPcIsTarget, AskedInAddrs
<1>4. /\ CacheInv'
      /\ program' = program /\ ic_state' \in {"StIdle", "StWaitForMem"}
      /\ captured_req' \in BOOLEAN /\ captured_addr' \in Addrs
      /\ DOMAIN lines' = 0 .. NumLines - 1
      /\ waiting_line' \in 0 .. NumAddrs
      /\ ic_state' = "StIdle" /\ captured_req' => captured_addr' = Asked(computed_pc)
  BY <1>2, <1>3, CacheStep DEF PipeInv, CacheInv
<1>5. FetchIsSound(computed_pc)
  BY <1>1, <1>2, FetchKeepsInv
<1>6. StalledByAlu' /\ NothingReachesBusyWb' /\ {captured_instr', to_wb'} \subseteq Slots'
  BY <1>1, <1>4, ExecuteKeepsInv
<1>7. Slots' = Slots
  BY <1>4 DEF Slots, Decoded
<1>8. TypeOK'
  BY <1>1, <1>4, <1>5, <1>6, <1>7 DEF TypeOK, FetchIsSound, ExecuteMoves, WriteBackMoves
<1>9. RequestIsForPc'
  BY <1>4, <1>5 DEF RequestIsForPc, FetchIsSound
<1>10. QED
  BY <1>4, <1>5, <1>6, <1>8, <1>9 DEF PipeInv, CacheInv, FetchIsSound

LEMMA StutterKeepsInv == PipeInv /\ UNCHANGED vars => PipeInv'
<1> SUFFICES ASSUME PipeInv, UNCHANGED vars PROVE PipeInv'
  OBVIOUS
<1> USE DEF vars, Ic!icacheVars, IfId!ifidVars, Ex!exVars, Wb!wbVars
<1>1. \A a : Line(a)' = Line(a)
  BY DEF Line
<1>2. Slots' = Slots
  BY DEF Slots, Decoded
<1>3. TypeOK'
  BY <1>2 DEF PipeInv, TypeOK
<1>4. CacheHoldsMemory' /\ CapturedLineHoldsMemory'
  BY <1>1 DEF PipeInv, CacheHoldsMemory, CapturedLineHoldsMemory, Ic!ArrIndex
<1>5. FetchesTheMissedLine' /\ RequestIsForPc'
  BY DEF PipeInv, FetchesTheMissedLine, RequestIsForPc, Ic!LineAddr, Ic!LineIndex
<1>6. StalledByAlu' /\ FetchWaitsForYoungest' /\ LdStIsAlone' /\ NothingReachesBusyWb'
  BY DEF PipeInv, StalledByAlu, FetchWaitsForYoungest, LdStIsAlone, NothingReachesBusyWb, IsBubble
<1>7. QED
  BY <1>3, <1>4, <1>5, <1>6 DEF PipeInv

\* Every edge of the pipeline keeps its registers in step: the cache with memory,
\* the request with the program counter, the fetch stage with what it waits for.
THEOREM PipelineInvariant == Spec => []PipeInv
<1>1. PipeInv /\ [Next]_vars => PipeInv'
  BY NextKeepsInv, StutterKeepsInv
<1>2. QED
  BY InitEstablishesInv, <1>1, PTL DEF Spec

\* The instruction the fetch stage takes is the one at the program counter.
THEOREM TakesTheInstrAtPc == Spec => []TakesInstrAtPc
<1>1. PipeInv => TakesInstrAtPc
  BY TakenIsAtPc DEF TakesInstrAtPc
<1>2. QED
  BY PipelineInvariant, <1>1, PTL

\* Nothing reaches write-back while it serves a load or store.
THEOREM BusyWbGetsNothing == Spec => []NothingReachesBusyWb
<1>1. PipeInv => NothingReachesBusyWb
  BY DEF PipeInv
<1>2. QED
  BY PipelineInvariant, <1>1, PTL

\* A line in the instruction cache is the line in memory at its address.
THEOREM CachedLinesAreMemory == Spec => []CacheHoldsMemory
<1>1. PipeInv => CacheHoldsMemory
  BY DEF PipeInv
<1>2. QED
  BY PipelineInvariant, <1>1, PTL

-----------------------------------------------------------------------------
(* The order of the program.  At an edge the instruction in write-back's     *)
(* input leaves; the one in the execute stage takes its place, or stays      *)
(* where it is while the stage stalls; and what was fetched follows it.      *)

Pc == IF ifid_state = "StChangePc" THEN Unresolved ELSE spec_reg_pc
InFlight == InstrSeq(to_wb) \o InstrSeq(InEx)

LEMMA InFlightIs ==
    /\ IsBubble(to_wb) => InFlight = InstrSeq(InEx)
    /\ ~IsBubble(to_wb) => InFlight # <<>> /\ Tail(InFlight) = InstrSeq(InEx)
    /\ ~IsBubble(InEx) => InFlight # <<>> /\ InFlight[Len(InFlight)] = InEx.instr
<1>1. CASE IsBubble(to_wb) /\ IsBubble(InEx)
  BY <1>1 DEF InFlight, InstrSeq
<1>2. CASE IsBubble(to_wb) /\ ~IsBubble(InEx)
  BY <1>2 DEF InFlight, InstrSeq
<1>3. CASE ~IsBubble(to_wb) /\ IsBubble(InEx)
  BY <1>3 DEF InFlight, InstrSeq
<1>4. CASE ~IsBubble(to_wb) /\ ~IsBubble(InEx)
  <2>1. InFlight = <<to_wb.instr>> \o <<InEx.instr>>
    BY <1>4 DEF InFlight, InstrSeq
  <2>2. ASSUME NEW older, NEW younger
        PROVE  LET both == <<older>> \o <<younger>> IN
               both # <<>> /\ Tail(both) = <<younger>> /\ both[Len(both)] = younger
    <3>1. \A s \in Seq({older, younger}) : Len(s) = 2 /\ s[1] = older /\ s[2] = younger
                                          => s = <<older, younger>>
      <4>1. /\ <<older, younger>> \in Seq({older, younger}) /\ Len(<<older, younger>>) = 2
            /\ 1 .. 2 = {1, 2}
        OBVIOUS
      <4>2. QED
        BY <4>1, SeqEqual
    <3>2. <<older>> \o <<younger>> \in Seq({older, younger})
      OBVIOUS
    <3>3. /\ Len(<<older>> \o <<younger>>) = 2
          /\ (<<older>> \o <<younger>>)[1] = older /\ (<<older>> \o <<younger>>)[2] = younger
      OBVIOUS
    <3>4. <<older>> \o <<younger>> = <<older, younger>>
      BY <3>1, <3>2, <3>3
    <3>5. /\ <<older, younger>> # <<>> /\ Tail(<<older, younger>>) = <<younger>>
          /\ Len(<<older, younger>>) = 2 /\ <<older, younger>>[2] = younger
      OBVIOUS
    <3>6. QED
      BY <3>4, <3>5
  <2>3. QED
    BY <1>4, <2>1, <2>2 DEF InstrSeq
<1>5. QED
  BY <1>1, <1>2, <1>3, <1>4

\* The instruction in the execute stage outlives every edge.
LEMMA RestIsInEx ==
    InstrSeq(InEx) \in {InFlight} \cup (IF InFlight = <<>> THEN {} ELSE {Tail(InFlight)})
  BY InFlightIs

LEMMA InFlightMoves ==
    ASSUME ExecuteMoves
    PROVE  /\ ExStalls => InFlight' = InstrSeq(InEx)
           /\ ~ExStalls => InFlight' = InstrSeq(InEx) \o InstrSeq(to_ex')
<1>1. InEx' = IF ExStalls THEN InEx ELSE to_ex'
  BY DEF InEx, ExStalls, ExecuteMoves
<1>2. InFlight' = InstrSeq(to_wb') \o InstrSeq(InEx')
  BY DEF InFlight, InstrSeq, IsBubble
<1>3. CASE ExStalls
  <2>1. InFlight' = <<>> \o InstrSeq(InEx)
    BY <1>1, <1>2, <1>3 DEF ExecuteMoves, InstrSeq, IsBubble, Bubble, Ex!Bubble
  <2>2. <<>> \o InstrSeq(InEx) = InstrSeq(InEx)
    BY DEF InstrSeq
  <2>3. QED
    BY <1>3, <2>1, <2>2
<1>4. CASE ~ExStalls
  BY <1>1, <1>2, <1>4 DEF ExecuteMoves
<1>5. QED
  BY <1>3, <1>4

LEMMA BubbleFollows ==
    ASSUME NEW bubble, IsBubble(bubble)
    PROVE  InstrSeq(InEx) \o InstrSeq(bubble) = InstrSeq(InEx)
  BY DEF InstrSeq

\* Each edge issues, skips, resolves or only writes back, in program order.
LEMMA NextIsOrderStep == PipeInv /\ Next => Order!Next
<1> SUFFICES ASSUME PipeInv, Next PROVE Order!Next
  OBVIOUS
<1> DEFINE rest == InstrSeq(InEx)
<1>1. /\ ExecuteMoves /\ WriteBackMoves
      /\ \E mem \in MemAnswers, computed_pc \in Ex!ComputedPcs(to_ex) :
             CacheMoves(computed_pc, mem) /\ FetchMoves(computed_pc)
  BY StepIsEdge DEF PipeInv
<1>2. PICK computed_pc \in Ex!ComputedPcs(to_ex) : FetchMoves(computed_pc)
  BY <1>1
<1>3. program' = program
  BY <1>1 DEF CacheMoves
<1>4. rest \in Order!Rest
  BY RestIsInEx DEF Order!Rest, InFlight
<1>5. SUFFICES Order!Issue(rest) \/ Order!SkipNop(rest) \/ Order!Resolve(rest)
                   \/ Order!WriteBack(rest)
  BY <1>3, <1>4 DEF Order!Next
<1>6. /\ Order!Issue(rest) <=> /\ Pc # Unresolved /\ program[Pc].kind # "nop"
                              /\ InFlight' = Append(rest, program[Pc])
                              /\ Pc' = IF program[Pc].kind = "ctrl" THEN Unresolved
                                       ELSE (Pc + 1) % NumAddrs
      /\ Order!SkipNop(rest) <=> /\ Pc # Unresolved /\ program[Pc].kind = "nop"
                                /\ InFlight' = rest /\ Pc' = (Pc + 1) % NumAddrs
      /\ Order!Resolve(rest) <=> /\ Pc = Unresolved
                                /\ Pc' \in Order!Targets(InFlight[Len(InFlight)])
                                /\ InFlight' = rest
      /\ Order!WriteBack(rest) <=> InFlight' = rest /\ Pc' = Pc
  BY DEF Order!Issue, Order!SkipNop, Order!Resolve, Order!WriteBack, Pc, InFlight
<1> HIDE DEF rest
<1>7. CASE IfId!RegularTake(Ic!Valid, Fetched, ExStalls)
  <2> DEFINE instr == program[spec_reg_pc]
  <2>1. /\ ifid_state = "StRegular" /\ ~ExStalls
        /\ spec_reg_pc' = (spec_reg_pc + 1) % NumAddrs
        /\ ifid_state' = IfId!RegularState(instr)
        /\ to_ex' = IF instr.kind = "nop" THEN IfId!NopBubble ELSE Decoded(spec_reg_pc)
    BY <1>1, <1>7, TakeKeepsInv
  <2>2. spec_reg_pc \in Addrs /\ instr.kind \in Kinds
    BY InstrTypes DEF PipeInv, TypeOK
  <2>3. Pc = spec_reg_pc /\ Pc # Unresolved
    BY <2>1, <2>2, UnresolvedAssumption DEF Pc
  <2>4. Pc' = IF instr.kind = "ctrl" THEN Unresolved ELSE (Pc + 1) % NumAddrs
    BY <2>1, <2>2, <2>3 DEF Pc, IfId!RegularState, Kinds
  <2>5. InFlight' = rest \o InstrSeq(to_ex')
    BY <1>1, <2>1, InFlightMoves DEF rest
  <2>6. CASE instr.kind = "nop"
    <3>1. IsBubble(to_ex')
      BY <2>1, <2>6 DEF IfId!NopBubble, IsBubble
    <3>2. InFlight' = rest
      BY <2>5, <3>1, BubbleFollows DEF rest
    <3>3. QED
      BY <1>6, <2>3, <2>4, <2>6, <3>2
  <2>7. CASE instr.kind # "nop"
    <3>1. InstrSeq(to_ex') = <<instr>>
      BY <2>1, <2>2, <2>7 DEF InstrSeq, IsBubble, Decoded, Kinds
    <3>2. rest \o <<instr>> = Append(rest, instr)
      BY DEF rest, InstrSeq
    <3>3. QED
      BY <1>6, <2>3, <2>4, <2>5, <2>7, <3>1, <3>2
  <2>8. QED
    BY <2>6, <2>7
<1>8. CASE IfId!RegularMiss(Ic!Valid, ExStalls) \/ IfId!RegularStall(ExStalls)
  <2>1. /\ ifid_state = "StRegular" /\ ifid_state' = "StRegular" /\ spec_reg_pc' = spec_reg_pc
        /\ ~ExStalls => to_ex' = Bubble
    BY <1>1, <1>8, NoTakeKeepsInv
  <2>2. Pc' = Pc
    BY <2>1 DEF Pc
  <2>3. InFlight' = rest
    BY <1>1, <2>1, InFlightMoves, BubbleFollows DEF rest, IsBubble, Bubble, Ex!Bubble
  <2>4. QED
    BY <1>6, <2>2, <2>3
<1>9. ASSUME ifid_state # "StRegular", to_ex' = Bubble
      PROVE  InFlight' = rest
  BY <1>1, <1>9, InExKinds, InFlightMoves, BubbleFollows DEF rest, IsBubble, Bubble, Ex!Bubble
<1>10. CASE IfId!ChangePc(computed_pc)
  <2>1. /\ ifid_state = "StChangePc" /\ ifid_state' = "StRegular"
        /\ to_ex' = Bubble /\ spec_reg_pc' = computed_pc
    BY <1>10 DEF IfId!ChangePc, IfId!send_bubble, IfId!Bubble, Bubble, Ex!Bubble
  <2>2. Pc = Unresolved /\ Pc' = computed_pc
    BY <2>1 DEF Pc
  <2>3. InEx = to_ex /\ to_ex.kind = "ctrl"
    BY <1>1, <2>1, InExKinds DEF PipeInv, FetchWaitsForYoungest
  <2>4. InFlight[Len(InFlight)] = to_ex.instr
    BY <2>3, InFlightIs DEF IsBubble
  <2>5. computed_pc \in Order!Targets(to_ex.instr)
    BY <2>1, ComputedPcIsTarget
  <2>6. QED
    BY <1>6, <1>9, <2>1, <2>2, <2>4, <2>5
<1>11. CASE IfId!InInit(Ic!Valid) \/ IfId!WaitForLdStPart0 \/ IfId!WaitForLdStPart1(WbStalls)
  <2>1. /\ ifid_state \notin {"StRegular", "StChangePc"} /\ ifid_state' # "StChangePc"
        /\ to_ex' = Bubble /\ spec_reg_pc' = spec_reg_pc
    BY <1>11 DEF IfId!InInit, IfId!WaitForLdStPart0, IfId!WaitForLdStPart1, IfId!send_bubble,
                 IfId!Bubble, Bubble, Ex!Bubble
  <2>2. Pc' = Pc
    BY <2>1 DEF Pc
  <2>3. QED
    BY <1>6, <1>9, <2>1, <2>2
<1>12. QED
  BY <1>2, <1>7, <1>8, <1>10, <1>11 DEF FetchMoves, IfId!Clock

LEMMA InitIsOrderInit == Init => Order!Init
<1> SUFFICES ASSUME Init PROVE Order!Init
  OBVIOUS
<1>1. ifid_state = "StInit" /\ spec_reg_pc = 0 /\ ex_state = "StRegular"
  BY DEF Init, IfId!Init, Ex!Init
<1>2. IsBubble(to_ex) /\ IsBubble(to_wb)
  BY DEF Init, IfId!Init, Ex!Init, IfId!Bubble, Ex!Bubble, IsBubble
<1>3. InstrSeq(to_wb) \o InstrSeq(InEx) = <<>>
  BY <1>1, <1>2 DEF InEx, InstrSeq
<1>4. QED
  BY <1>1, <1>3 DEF Order!Init

\* The pipeline is in order and loses nothing: what reaches write-back is a path of
\* the program, each instruction of it once.
THEOREM PipelineFollowsProgramOrder == Spec => FollowsProgramOrder
<1>1. PipeInv /\ [Next]_vars => [Order!Next]_(Order!orderVars)
  <2>1. CASE PipeInv /\ Next
    BY <2>1, NextIsOrderStep
  <2>2. CASE UNCHANGED vars
    BY <2>2 DEF vars, IfId!ifidVars, Ex!exVars, Ic!icacheVars, Wb!wbVars, Order!orderVars,
                InstrSeq, IsBubble, InEx
  <2>3. QED
    BY <2>1, <2>2
<1>2. QED
  BY PipelineInvariant, InitIsOrderInit, <1>1, PTL DEF Spec, FollowsProgramOrder, Order!Spec
=============================================================================
