----------------------------- MODULE ExecuteUnits -----------------------------
(***************************************************************************)
(* The execute stage with its casters and its multi-cycle units: which of     *)
(* them an instruction starts, which of them it waits for, and whose data it    *)
(* takes.  An instruction is what the stage looks at: its group (as a kind),   *)
(* op_type, oper, and the types of the LARs it names; src may be "dzero".     *)
(* The kind "sim" is that of SimSyscall, which is in group 0 but computes      *)
(* nothing.                                                                  *)
(***************************************************************************)
EXTENDS Casters, MultiCycleUnits

CONSTANT Menus   \* sets of instructions; a behaviour is made of those of one of them

Types == {"Int8", "Int16", "Int32", "Int64", "BFloat16"}
ASSUME MenusAssumption ==
    \A instrs \in Menus : \A instr \in instrs :
        /\ instr.kind \in {"alu", "sim", "ctrl", "ldst", "nop"}
        /\ instr.op_type \in {"Scalar", "Vector"}
        /\ instr.dst \in Types /\ instr.src \in [1 .. 2 -> Types \cup {"dzero"}]

VARIABLES
    menu,
    gap,   \* the bubbles that have to come before the next instruction
    ex_state, captured_instr, captured_multi, to_wb

Ex == INSTANCE PipeStageEx WITH NumAddrs <- 1
Decoder == INSTANCE InstrDecoder

vars == <<menu, gap, Ex!exVars, castVars, unitVars>>

Bubble == Ex!Bubble
IsBubble(instr) == instr.kind \in {"bubble", "nop"}

\* A LAR's type: data_type and int_type_size.
Size(type) == CASE type = "Int8" -> 8 [] type = "Int16" -> 16
                [] type = "Int32" -> 32 [] type = "Int64" -> 64
                [] type = "BFloat16" -> 16

NeededCast(instr, k) ==
    LET src == instr.src[k + 1]
        any_type == \/ src = "dzero"
                    \/ instr.oper \in Decoder!Forced64BitIntegers
                    \/ instr.oper = "Addi_OneRegOnePcOneSimm12"
    IN  CASE any_type \/ src = instr.dst -> "None"
          [] ~any_type /\ src # instr.dst /\ instr.dst = "BFloat16" -> "IntToBFloat16"
          [] ~any_type /\ src # instr.dst /\ src = "BFloat16" -> "BFloat16ToInt"
          [] OTHER -> "IntToInt"
NeededCasts(instr) == [k \in Dsrcs |-> IF IsBubble(instr) THEN "None" ELSE NeededCast(instr, k)]
NeedsAnyCast(instr) == \E k \in Dsrcs : NeededCasts(instr)[k] # "None"

\* A nop looks like an addition to the LAR its word names.
MultiCycleOpType(instr) ==
    CASE instr.kind \notin {"alu", "nop"} -> "None"
      [] instr.kind \in {"alu", "nop"} /\ instr.dst = "BFloat16" -> "Fpu"
      [] instr.kind = "alu" /\ instr.dst # "BFloat16" /\ instr.oper = "Mul_ThreeRegs" -> "Mul"
      [] instr.kind = "alu" /\ instr.dst # "BFloat16" /\ instr.oper = "Div_ThreeRegs" -> "Div"
      [] OTHER -> "None"

\* The cast that the stage waits for.  A load, store, branch or system call starts
\* the scalar casters too if the types of its LARs differ, and goes on.
AwaitedCast(instr) ==
    IF instr.kind = "alu" /\ NeedsAnyCast(instr) THEN instr.op_type ELSE "None"
Unawaited(instr) == instr.kind \notin {"alu", "bubble"} /\ NeedsAnyCast(instr)

Init ==
    /\ menu \in Menus
    /\ gap = 0
    /\ Ex!Init /\ CastersInit /\ UnitsInit

\* The fetch stage sends bubbles after control flow and until write-back has done
\* a load or store.
BubblesAfter(instr) == CASE instr.kind = "ctrl" -> 1 [] instr.kind = "ldst" -> 4 [] OTHER -> 0

Incoming == IF ex_state = "StRegular" /\ gap = 0 THEN menu \cup {Bubble} ELSE {Bubble}

Edge(instr, nonzero, early) ==
    LET to_use == Ex!InstrToUse(instr)
        type == MultiCycleOpType(to_use)
        caster_valid == IF ex_state = "StWaitForScalarCaster"
                        THEN cast_scalars.valid ELSE cast_vectors.valid
        next_state == Ex!NextState(AwaitedCast(to_use), type # "None", caster_valid, OpValid(type))
        need_any_cast == ex_state = "StRegular" /\ NeedsAnyCast(instr)
        going_to_perf_multi_cycle_op ==
            ex_state # "StWaitForMultiCycleOp" /\ next_state = "StWaitForMultiCycleOp"
        leaving == ~Ex!Stall(next_state)
    IN  /\ Ex!Clock(instr, type # "None", next_state)
        /\ CastersClock(need_any_cast /\ instr.op_type = "Scalar",
                        need_any_cast /\ instr.op_type = "Vector",
                        NeededCasts(to_use), nonzero, leaving)
        /\ UnitsClock(type, going_to_perf_multi_cycle_op,
                      IF type = "Mul" THEN Size(to_use.dst) ELSE 0,
                      IF type = "Fpu" THEN to_use.oper ELSE "None", early, leaving)
        /\ gap' = IF ex_state # "StRegular" \/ (instr = Bubble /\ gap = 0) THEN gap
                  ELSE IF instr = Bubble THEN gap - 1 ELSE BubblesAfter(instr)
        /\ UNCHANGED menu

Next == \E instr \in Incoming, nonzero \in BOOLEAN, early \in BOOLEAN : Edge(instr, nonzero, early)

\* The clock does not stop.
Spec == Init /\ [][Next]_vars /\ WF_vars(Next)

-----------------------------------------------------------------------------
(* Properties *)

TypeInStage == MultiCycleOpType(captured_instr)

\* When a unit says that it is done, what it shows is the result of the
\* instruction that waits, to the last step: neither what an earlier instruction
\* left behind its valid line, nor a result in the making.  The casts from integers
\* of scalars are among these, unless the instructions leave casts behind.
UnitResultsAreOwn ==
    /\ ex_state = "StWaitForMultiCycleOp" /\ OpValid(TypeInStage)
          => OpData(TypeInStage) = "whole"
    /\ ex_state = "StWaitForScalarCaster" /\ cast_scalars.valid
          /\ (\A instr \in menu : ~Unawaited(instr))
          => \A k \in Dsrcs : NeededCast(captured_instr, k) = "IntToBFloat16"
                => CastedScalar(k, "IntToBFloat16") = "whole"

\* The stage waits for valid lines that stay up, that come for one cycle, that a
\* start takes down, and for a start that busy casters do not take: whatever came
\* before, an instruction leaves the stage unless its operation is one that the
\* BFloat16 unit does not know, or it casts vectors to or from BFloat16.
HasAnAnswer(instr) ==
    /\ MultiCycleOpType(instr) = "Fpu" => Serving(instr.oper) # "none"
    /\ AwaitedCast(instr) = "Vector" => Needing(NeededCasts(instr)) = {}
EveryInstructionLeaves ==
    ex_state # "StRegular" /\ HasAnAnswer(captured_instr) ~> ex_state = "StRegular"

\* The instruction set gives vector operations on operands of every type, each cast
\* to the type of the destination: the wait for the vector casters ends.
VectorCastsEnd == ex_state = "StWaitForVectorCaster" ~> ex_state # "StWaitForVectorCaster"

-----------------------------------------------------------------------------
(* What makes the results the stage's own: a unit is at rest unless the stage *)
(* waits for it, and then it is at work for the instruction in the stage.      *)

Worth == {"none", "other", "part", "whole"}
Unit == [left : Nat, valid : BOOLEAN, data : Worth]
CastUnit == [state : {"StIdle", "StInner", "StFinishing"}, data : Worth]

\* The registers hold what their types allow, and the stage an instruction of the
\* menu while it takes more than one cycle.
TypeOK ==
    /\ menu \in Menus
    /\ ex_state \in {"StRegular", "StWaitForScalarCaster", "StWaitForVectorCaster",
                     "StInjectCastedScalars", "StUseCastedDataSingleCycle",
                     "StUseCastedDataMultiCycle", "StWaitForMultiCycleOp"}
    /\ IF ex_state = "StRegular" THEN captured_instr = Bubble /\ captured_multi = FALSE
       ELSE captured_instr \in menu /\ captured_multi = (TypeInStage # "None")
    /\ ex_state \in {"StUseCastedDataMultiCycle", "StWaitForMultiCycleOp"} => captured_multi
    /\ vector_mul \in [state : {"StIdle", "StWaitForSubMul"}, valid : BOOLEAN, data : Worth,
                       enable : BOOLEAN, large : BOOLEAN, sub : Unit]
    /\ vector_div \in [state : {"Idle", "Starting", "Loading", "Working", "Ending", "Ended"},
                       counter : Nat, ready : BOOLEAN, work : Worth, data : Worth]
    /\ {vector_fpu.add, vector_fpu.slt, vector_fpu.mul, vector_fpu.div, vector_fpu.long_div}
           \subseteq Unit
    /\ vector_fpu.div.left <= 3 /\ vector_fpu.slt.left = 0
    /\ cast_scalars \in [state : {"CastStNoWait", "CastStWaitForBFloat16Caster"},
                         valid : BOOLEAN, captured : SUBSET Units, units : [Units -> CastUnit]]

AtWork(unit) == unit.left > 0 /\ ~unit.valid /\ unit.data = "part"
Done(unit) == unit.left = 0 /\ unit.valid /\ unit.data = "whole"

MulRests(mul) == mul.state = "StIdle" /\ ~mul.enable /\ mul.sub.left = 0 /\ ~mul.sub.valid
MulServes(mul) ==
    \/ MulRests(mul) /\ mul.valid /\ mul.data = "whole"
    \/ /\ mul.state = "StWaitForSubMul" /\ ~mul.valid
       /\ \/ mul.enable /\ mul.sub.left = 0 /\ ~mul.sub.valid
          \/ ~mul.enable /\ (AtWork(mul.sub) \/ Done(mul.sub))

DivRests(div) == div.state = "Idle"
DivServes(div) == IF div.state = "Idle" THEN div.ready /\ div.data = "whole"
                  ELSE ~div.ready /\ div.work = "part"

FpuRests(fpu) == FpuCanAccept(fpu) /\ fpu.long_div.left = 0
FpuServes(fpu, oper) ==
    LET serving == Serving(oper) IN
    /\ fpu.oper = oper
    /\ serving # "none" => AtWork(fpu[serving]) \/ Done(fpu[serving])
    /\ \A other \in {"add", "mul", "div"} \ {serving} : fpu[other].left = 0
    /\ IF serving = "div" /\ fpu.div.left = 3
       THEN AtWork(fpu.long_div) \/ Done(fpu.long_div)
       ELSE fpu.long_div.left = 0
    /\ serving = "slt" => Done(fpu.slt)

IntToBFloat16(k) == cast_scalars.units[<<k, "IntToBFloat16">>]
ScalarCastsServe ==
    IF ex_state = "StWaitForScalarCaster"
    THEN /\ cast_scalars.state = "CastStWaitForBFloat16Caster" => ~cast_scalars.valid
         /\ \A k \in Dsrcs :
               IF IntToBFloat16(k).state = "StIdle"
               THEN NeededCast(captured_instr, k) = "IntToBFloat16"
                        => IntToBFloat16(k).data = "whole"
               ELSE /\ IntToBFloat16(k) = [state |-> "StFinishing", data |-> "part"]
                    /\ cast_scalars.state = "CastStWaitForBFloat16Caster"
    ELSE /\ cast_scalars.state = "CastStNoWait"
         /\ \A k \in Dsrcs : IntToBFloat16(k).state = "StIdle"

Awaits(type) == ex_state = "StWaitForMultiCycleOp" /\ TypeInStage = type
UnitsInv ==
    /\ TypeOK
    /\ IF Awaits("Mul") THEN MulServes(vector_mul) ELSE MulRests(vector_mul)
    /\ IF Awaits("Div") THEN DivServes(vector_div) ELSE DivRests(vector_div)
    /\ IF Awaits("Fpu") THEN FpuServes(vector_fpu, captured_instr.oper) ELSE FpuRests(vector_fpu)
    /\ (\A instr \in menu : ~Unawaited(instr)) => ScalarCastsServe
=============================================================================
