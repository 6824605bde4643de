# Snow64 in TLA+

A verification development of the Snow64 CPU (SystemVerilog, `src/hdl/src/`) and of
the tool chain that makes its programs (C++, `src/assembler_disassembler/src/`).
Snow64 is an in-order, three-stage, single-issue machine whose only registers
are **LARs**, *large address registers*: a LAR holds a memory address together
with the 256-bit line at that address, and LARs at one address share one copy.
The register file is therefore also a small write-back cache, and most of what
can go wrong in this CPU goes wrong there, in the way from there to memory, or
in the hand-over of instructions between stages that may each take many cycles.

The CPU's modules model the register transfers of that core, one TLA+ step for one
positive edge of the only clock.  The tool chain's modules model the two-pass
assembler, the disassembler and the generator of memory images one line of text at
a time, and join them to the main memory and to the CPU's decoder.  TLC checks all of
this on small instances.  TLAPS proves, for every size of the instance, the inductive
invariants of the LAR file, of its system, of the way to memory, of the pipeline's control and
operands, of the execute stage's units and of the assembler's two passes; all four refinements of the CPU: from
the LAR file wired to its FIFOs and bus guard down to a flat memory, and from the pipeline to a
machine that executes in program order; that for every program both passes of the assembler give each line the same
address, a name stands for its innermost definition with the value that this has in the output, and no program is refused but for a
fault in it; and that the CPU and the disassembler read in any instruction word what the assembler wrote there.

Contents: [inventory](#1-inventory), [modules](#2-modules-and-how-they-correspond-to-the-code),
[conventions](#3-modelling-conventions), [runs](#4-what-the-runs-check),
[fairness](#5-fairness), [proofs](#6-what-is-proved), [what only TLC checks](#7-what-is-only-model-checked),
[differences](#8-where-the-code-and-its-comments-differ), [not modelled](#9-what-is-not-modelled-and-why),
[plan](#10-plan).

## 1. Inventory

```
                 +------------------- stall ---------------------+
                 |             computed_pc, stall                |
          +------v-----+      +-----------+      +------------+  |
   +----->|   IF / ID  |----->|    EX     |----->|     WB     |--+
   |      +------------+      +-----^-----+      +------------+
   | instr, valid |                 | operands    | wr req ^ valid
   |      +-------v----+            |       +-----v--------+----+
   +------| instr cache|            +-------|     LAR file       |
          +-----+------+                    +--+--------------+--+
                | read instr                   | read data    | write data
           +----v-----+                  +-----v----+   +-----v----+
           |   FIFO   |                  |   FIFO   |   |   FIFO   |
           +----+-----+                  +-----+----+   +-----+----+
                +-----------------+------------+--------------+
                           +------v-------+
                           |  bus guard   |----> memory (one bus)
                           +--------------+
```

| component | source (`src/hdl/src/`) | state it keeps | operations | what makes it hard, and what makes it correct |
|---|---|---|---|---|
| **LAR file** | `snow64_lar_file_module.src.sv` | FSM of five states; per LAR a tag, an offset, a type; per element a base address, reference count, dirty flag, line; a stack of free tags; captured request; registered ports to memory and to the block RAM | write a result; load; store (each of these in seven cases of hit and miss); wait for a read, a write, or both; read ports | Eight paths update counts, tags, stack and dirty flags with no check for underflow; the block RAM lags by one edge; answers come in any order. Correct if it looks like a flat memory with windows on it. |
| **Write-back** | `snow64_pipe_stage_wb_module.src.sv` | FSM of three states, captured instruction, request register | write a result at once; a load or store one cycle later, then wait for the LAR file | Requests reach the LAR file only while that is idle; nothing may arrive from EX during the wait, since nobody looks. |
| **Memory access FIFOs** | `snow64_memory_access_fifo_modules.src.sv` | FSM of two states, acceptance flag, request, answer | take a request, have it accepted, hand back the answer | They look at their client only when idle: one request at a time. |
| **Bus guard** | `snow64_memory_bus_guard_module.src.sv` | the type of request in each of two stages, acceptance and answer lines, the bus | accept by priority, wait, answer, stall | The request stays up one edge after its acceptance; a stall must neither repeat nor lose an access; fixed priority could starve. |
| **Memory wiring** | `snow64_memory_accessors_module.src.sv`, `snow64_memory_access_via_fifos_module.src.sv` | none | continuous assignments | The LAR file's assumptions about memory must follow from the FIFOs and the guard. |
| **Main memory, top level** | `snow64_main_mem_module.src.sv`, `snow64_top_level_module.src.sv` | the RAM and its registered output | read, write | The RAM answers at once; the guard's `valid` line allows any latency. |
| **Instruction cache** | `snow64_instr_cache_module.src.sv` | FSM of two states, captured request and line, arrays of lines | capture, hit, miss, fill | Answers a request of the previous cycle; forgets it on a miss; has no idea of the program counter. |
| **Fetch and decode** | `snow64_pipe_stage_if_id_module.src.sv` | FSM of five states, program counter, output register | ask, take, skip a nop, wait for a new program counter, wait for a load or store | Each wait is timed by counting cycles of other stages. |
| **Execute** | `snow64_pipe_stage_ex_modules.src.sv` | FSM of seven states, captured instruction and operands, the last results, output register | single-cycle and multi-cycle operations, with operands cast first if their types differ; branches | Forwarding by base address; multi-cycle waits; the instruction stays in the input register during a stall. |
| **CPU wiring** | `snow64_cpu_module.src.sv` | none | continuous assignments | Stalls and program counters between stages. |
| **Decoder** | `snow64_instr_decoder_module.src.sv` | none | fields, nop detection, operation, stall type | Correct if it reads in a word what the assembler wrote there: two programs in two languages, two tables. |
| **Integer ALU** | `snow64_alu_modules.src.sv`, `snow64_extra_arith_log_modules.src.sv` | none | vectors of 8 to 64 bits from carry-chained slices | Carries at lane boundaries, signed comparison. |
| **Multiplication, division** | `snow64_mul_div_modules.src.sv`, `snow64_long_div_u16_by_u8_radix_*` | FSMs, partial results | start/valid | Valid for one cycle, or until the next start; two blocks of the divider race at each edge. |
| **BFloat16** | `snow64_bfloat16_*` | FSMs, the operation last accepted | start/valid/can_accept_cmd | An operation the unit does not know never raises valid; valid lines stay up from earlier operations. |
| **Casters** | `snow64_vector_caster_modules.src.sv`, `snow64_int_scalar_caster_module.src.sv`, `snow64_bfloat16_cast_modules.src.sv` | FSMs | int to BFloat16 and back, scalar and vector | Started also by instructions that do not wait; a start that meets a busy cast is ignored; the end is recognised by more than the valid bit. |
| **Rotate, extract, inject** | `snow64_rotate_lar_data_module.src.sv`, `snow64_scalar_data_extract_or_inject_modules.src.sv` | none | byte selections | Combinational. |
| **Test benches** | `test_bench_modules.src.sv` | – | print results | Not part of the CPU. |
| **Assembler** | `assembler_class.*`, `encoding_stuff_class.*`, `symbol_table_classes.*`, `scoped_table_base_class.hpp`, `ident_table_classes.hpp` | tree of scopes with a symbol table in each, the scope it is in, how many blocks have ended at each depth, the place counter, the pass, what was printed | one visitor per kind of line and per form of instruction, expressions | Two passes, no fixed point: the second must walk into the same scopes and meet the same addresses as the first, although a forward reference counts as 0 in that. |
| **Disassembler** | `disassembler_class.*`, `DisassemblerGrammar.g4` | the address reached | one entry of the listing per line | Inverts the assembler's tables; groups with immediates show other numbers than the source has. |
| **Generator of memory words** | `main_mem_words_generator_class.*` | a map from addresses to 256-bit words, the last address printed | put a number into its word, print the words in order | Prints addresses only after gaps; replaces whole elements. |
| **Programs and scripts** | `main.cpp`, `full_assemble.sh` | none | choose a tool, pipe one into the other | A failure of the first tool of a pipe. |
| **Parsers, listeners, visitor base** | generated by ANTLR; `asm_disasm_*` | a stack of numbers and strings | – | Not modelled: lines come parsed. |
| **liborangepower** | `src/liborangepower/src/` | – | bit fields, a pair of previous and current value | The tool chain uses two of its headers. |

The tool chain's sources are under `src/assembler_disassembler/src/`.

How they interact: in the CPU everything runs on one clock, so "concurrency" here means
FSMs that all step at every edge and see each other's registers as they were
before the edge.  There is no handshake between EX and WB at all, one stall line
from WB to IF/ID, one from EX to IF/ID, request-and-valid between caches and
memory.  Nothing crashes and restarts, nothing is lost on a wire; the hard parts
are orderings, latencies, stale registers and resource bounds.  The programs of the
tool chain are sequential and talk through text: the assembler's output is the
input of the disassembler or of the generator, whose output `$readmemh` reads into the
RAM.  What is hard there are long legal sequences of lines, the agreement between
the two passes, and five programs that must agree on one format.  The hazards, each
at its line and with the properties that would catch it going wrong, are listed
under `hazards` in `PROJECT.json`.

## 2. Modules and how they correspond to the code

State variables carry the source's names without their underscores and
prefixes; actions are named after the states and branches they translate, and
`PROJECT.json` (`map`) gives the source lines of every definition.

| module | stands for | state | actions |
|---|---|---|---|
| `LarFile` | `snow64_lar_file_module`, write side, block RAM and tag search | `wr_state`; `tag`, `data_offset`, `data_type` (metadata); `base_addr`, `ref_count`, `dirty`, `data` (shared data); `data_wr` (the registered write port of the block RAM); `tag_stack`, `curr_tag_stack_index`; `captured`, `captured_valid`; the three outputs | one per branch of the FSM: `IdleNoWrite`, `IdleWriteData`, `IdleStartLdSt`; `HitOwnElement`, `HitFromUnallocated`, `HitFreeingOldTag`, `HitLeavingSharedTag`; `MissFromUnallocated`, `MissSoleReference`, `MissLeavingSharedTag`; `WaitForJustMemRead`, `WaitForJustMemWrite`, `WaitForMemReadAndMemWrite`. `ShareddataData` (the RAM's edge) is a conjunct of every step. |
| `PipeStageWb` | `snow64_pipe_stage_wb_module` | `wb_state`, `captured_decoded_instr`, `wr` | `RegularWrite`, `RegularNoWrite`, `RegularLdSt`, `PrepLdSt`, `WaitForLarFileValid` |
| `MemoryAccessFifo` | the read and the write FIFO | `fifo` (a record of its registers) | `IdleNoRequest`, `IdleRequest`, `WaitMore`, `Grant` |
| `MemoryBusGuard` | `snow64_memory_bus_guard_module` | `stage_0_to_1`, `stage_1_to_2`, `cmd_accepted`, `answer`, `mem_access` | `Flow` (with the four ways of stage 0), `HoldStages` |
| `InstrCache` | `snow64_instr_cache_module` | `ic_state`, `captured_*`, `lines`, `ic_mem_access` | `Capture`, `StartMiss`, `WaitForMem` |
| `PipeStageIfId` | `snow64_pipe_stage_if_id_module` | `ifid_state`, `spec_reg_pc`, `to_ex` | `InInit`, `RegularTake`, `RegularMiss`, `RegularStall`, `ChangePc`, `WaitForLdStPart0`, `WaitForLdStPart1` |
| `PipeStageEx` | the control of `snow64_pipe_stage_ex_modules` | `ex_state`, `captured_instr`, `captured_multi`, `to_wb` | `Clock`, with the source's `__next_state` as an operator |
| `MemoryAccess` | `snow64_memory_access_via_fifos_module` and the RAM | all of the above for memory, and `main_mem`, `mem_queue`, `mem_out` | `Clock` with `Serve` or `NotYet` |
| `LarReadPorts` | the three read ports of the LAR file | `rd` | `GenRd`, a conjunct of every step |
| `OperandForwarder` | `Snow64PsExOperandForwarder` and the results of EX | `past_results`, `captured_true_ra` | `Clock`; `CurrTrueData` is what a port gives to an instruction |
| `Bits`, `EncodingStuff`, `Instructions` | bit fields, tables of names, the four formats; one encoder per form of instruction | none | pure operators |
| `ScopedTable` | the tree of scopes | `children`, `table` | `mkscope`, `rmscope`, `SetSymbol`, `InsertMissing` and the searches (`find`, `find_in_this_blklev`), used by `Assembler` |
| `Assembler` | `Assembler` | `pass`, `at` (the line), `curr_scope_node`, the counters of blocks, the place counter, `out`, and a history of what each line met | one per kind of line (labels, equates, directives, data, instructions, braces), the ends of the passes and the refusals |
| `DisassemblerGrammar`, `Disassembler` | the lexer's view of printed text; `Disassembler` | `text`, `text_at`, `listing` | one entry per line |
| `MainMemWordsGenerator` | `MainMemWordsGenerator` | `input`, `input_at`, `curr_instr_addr`, `mem_words_map`, `printed`, `mem_word_addr` | `VisitInput`, `PrintMemWord` |
| `InstrDecoder` | `Snow64InstrDecoder` | none | pure: `Decoded` |
| `Casters` | `Snow64PsExCastScalars`, `Snow64PsExCastVectors`, the casts between integers and BFloat16 | `cast_scalars`, `cast_vectors` | `CastersClock`, with one `Next...` operator per module of the source |
| `MultiCycleUnits` | the multiplier, the divider and the BFloat16 unit with their submodules | `vector_mul`, `vector_div`, `vector_fpu` | `UnitsClock`, likewise |
| `UnitData` | what the data of a unit is worth to the instruction in the stage | none | pure operators |

Compositions, each one conjunction of the components' `Clock` operators per edge,
with the code's wires as arguments:

| module | composes | with |
|---|---|---|
| `LarFileSystem` | `PipeStageWb`, `LarFile` | an abstract memory: one read and one write at a time, any latency, any order, one answer per edge |
| `MemoryAccessSystem` | `MemoryAccess` | three abstract clients that ask and wait |
| `MemoryAccessors` | `PipeStageWb`, `LarFile`, `MemoryAccess` | a reader of instructions |
| `PipelineControl` | `PipeStageIfId`, `PipeStageEx`, `PipeStageWb`, `InstrCache` | answers of the units, of the LAR file and of memory after any time |
| `PipelineData` | `PipeStageIfId`, `PipeStageEx`, `OperandForwarder`, `LarReadPorts`, `LarFileSystem` | any instructions, results and addresses, and a sequential machine beside it (`FlatMemory` as history) |
| `ExecuteUnits` | `PipeStageEx`, `Casters`, `MultiCycleUnits` | any sequence of the instructions of a menu, with the bubbles that the fetch stage puts between them |
| `Toolchain` | `Assembler`, then `Disassembler` or `MainMemWordsGenerator` with the main memory and `InstrDecoder` | the order of `main.cpp` and `full_assemble.sh`: each program reads all of its input first |

The properties of the tool chain stand in `AssemblerRules` and `ToolchainRules`: they read
blocks, definitions, scopes and bytes off the text of the program, with no tree,
table or pass, so that they are a second opinion and not the assembler again.

Abstract specifications, and what implements them:

```
MemoryAccessors  ==>  LarFileSystem  ==>  FlatMemory
MemoryAccessSystem  ==>  MemoryPorts
PipelineControl  ==>  ProgramOrder
PipelineData, where the pipeline is empty  ==>  FlatMemory
```

- `FlatMemory`: memory is one array of lines, and a LAR is a window on a line;
  a result writes through the window, a load moves it, a store copies what the
  LAR shows to the new address and moves it.  Nothing else can be seen.
- `MemoryPorts`: a request of a port meets memory once, between asking and answer.
- `ProgramOrder`: instructions are issued along a path of the program and leave in
  the order of issue, each of them once.

The refinement mappings stand under "What the registers stand for" in the
implementing modules.  The one for `FlatMemory` is the definition of the cache's
meaning: the line at `a` is the newest data (RAM or its write port) of the element
that holds `a`, unless that element still waits for its line, and otherwise what
memory will hold once a write-back under way has arrived.

`MC*.tla` give names to model values and, for `PipelineControl`, `ExecuteUnits` and `Toolchain`, the set of programs.
`LarFileSystem`, `MemoryAccessSystem`, `MemoryAccessors` and `PipelineData` are checked as they are, with model values in their `.cfg`.
`AssemblerRules` and `ToolchainRules` say what the tool chain owes to the text of a program.

`X_proofs` holds the theorems about `X` (`LarFile`, `LarFileSystem`, `MemoryAccessSystem`, `MemoryAccessors`,
`PipelineControl`, `PipelineData`, `ExecuteUnits`, `Toolchain`), and extends it.  The invariants they need stand in `X` itself
(those of the tool chain in `AssemblerRules`), where TLC checks them too.

## 3. Modelling conventions

- **One step is one positive edge.**  A composition never interleaves its parts:
  all of them step, and every one reads the registers of before the edge, as
  nonblocking assignments do.  Combinational wires are operators with arguments.
- **A port whose `req` or `valid` is low carries no data.**  Nothing reads those
  wires while the bit is low, so the fields are dropped and the states merge.
- **Registers that nothing reads again are forgotten.**  Examples: the FIFO's
  `cmd_was_accepted` after the answer, the captured registers outside the
  states that use them, the `busy` outputs, `__did_write_back`.  Each place says so.
- **A register the code does not assign keeps its value.**  The request register
  of write-back is one: in `StRegular` a load or store leaves the previous
  request up for a second edge, and the LAR file takes it again.  This is
  modelled as it is, and shown harmless by `ImplementsFlatMemory`.
- **The OR of several matching tags** in the tag search is any tag: the result
  depends on bit patterns, and `OneElementPerLine` shows that it never arises.
- **Widths.** Tags, counts and the stack index have the same width in the code and
  wrap at `NumLars`; `Incr` and `Decr` wrap likewise.  The program counter wraps at
  `NumAddrs`, in place of 2^64.
- **Data.** Lines are opaque values, with `Zero` told apart; types and offsets of LARs
  are opaque.  In `PipelineControl` an instruction is its kind, address, and, if it
  steers the program counter, whether it jumps or branches and how far.
- **When an output is seen.**  The code of some units assigns outputs with blocking assignments at the clock edge.  The stage reads
  them through continuous assignments, in blocks of the same edge: it is modelled to see them from the next
  edge on, as it sees outputs of nonblocking assignments.
- **Two blocks at one edge.**  The divider counts in one block and looks at the counter in another (`NextDiv`); the order is
  open, so whether the second sees the first's new value is a choice of each step (`early`).
- **Worth of data.**  In the units, data is "whole", "part", "other" or "none" (`UnitData`): finished or not, for the instruction in
  the stage or an earlier one.  Steps of a computation count, values do not.  The one place where control looks at a value, the
  wait for the scalar casts, takes either outcome (`nonzero`).
- **Undriven choices.** Whether operands need casts, whether an operation takes
  several cycles, whether a branch is taken and where a jump goes depend on data
  and are nondeterministic.  The decoder's nop sends a zero instruction whose
  *operand registers* are the nop's own, so it may be taken for a BFloat16
  operation and take several cycles: `NopBubble` keeps that.
- **The sequential machine of `PipelineData`** executes an instruction at the edge at which
  EX hands it on.  `seq_memory` holds `Unknown` where the data of a LAR's first store is open
  (section 8), and nothing is required of an operand that is unknown, of a LAR that
  points nowhere, or of dzero (section 8 again).
- **Text of the tool chain.**  A program is a sequence of parsed lines of one shape of record
  (kind, form, mnemonic, registers, expressions), the braces of a block being lines; an expression is
  in the order in which the visitors evaluate it.  A line of output is a pair of
  what it is ("@" or so many hexadecimal digits) and its number.  Wording and layout
  are left out; whether an address is printed, and with how many digits, is not.
- **Numbers of the tool chain.**  TLC counts to 2^31.  A 32-bit word is the pair of its halves; a
  64-bit number is an integer, and the programs keep below the bound, negative
  numbers included.
- **History.**  `trace` in `Assembler` notes what each line met in each pass (scope,
  address, its own values and those of the symbols it mentions).  No step reads it.
- **Mutants.** An operator `X_Something` under a comment "Mutant: ..." is a plausible
  bug in `X`.  No specification uses it; replacing the body of `X` by it
  makes the property paired with it in `PROJECT.json` fail.  It is the evidence that the property
  can be violated by this code going wrong.

## 4. What the runs check

| run | question | properties | size |
|---|---|---|---|
| `LarFile` | With *any* request and *any* memory answer at every edge, do tags, counts, dirty flags and stack describe one consistent cache? | `RefCountsAreExact`, `StackHoldsFreeTags`, `OneElementPerLine`, `PopsAndPushesFit`, `DirtyElementsAreInUse`, `LarInv`, `DirtyLineIsWrittenBack` | 230,656 states up to symmetry |
| `LarFileSystem` | Between write-back and a memory of any latency, is the LAR file a flat memory? | `SysInv`, `NoRequestIsIgnored`, `SnapshotIsCurrent`, `CleanLineEqualsMemory`, `OneRequestAtATime`, `ImplementsFlatMemory` | 439,570 states |
| `LarFileSystem_first_store` | Is the data of a LAR's first store zero, as a comment says? No. | `FirstStoreIsZero` | violated |
| `MemoryAccess` | Do FIFOs, guard and memory serve each request once, and every client in the end? | `SysInv`, `AcceptedOnce`, `OneDataAnswerPerEdge`, `ImplementsMemoryPorts`, `EveryClientIsAnswered` | 10,020 states |
| `MemoryAccessors` | Is the real way to memory the memory that `LarFileSystem` assumes? | `AccessorsInv`, `ImplementsLarFileSystem` | 467,472 states |
| `MemoryAccessors_live` | Does every load or store come to an end? | `LdStCompletes` | 38,080 states |
| `PipelineData` | Does every instruction find in its operands what the instructions before it have left? | `DataInv`, `OperandsAreSequential`, `DrainsToSequentialState` | 716,808 states |
| `PipelineData_dzero` | Does dzero always read as zero, as the list of registers says? No. | `DzeroReadsZero` | violated |
| `Toolchain` | For every small program: do the passes see the same scopes and addresses, does a symbol mean its innermost definition, are exactly the wrong programs refused? From source to the CPU's decoder, and from source to the listing: does every byte and every instruction of every form arrive? | `ToolInv`, `SecondPassReplaysScopes`, `PassesAgreeOnAddresses`, `ReferencesResolveLexically`, `RefusesExactlyBadPrograms`, `ImageIsProgram`, `CpuRunsTheSource`, `ListingShowsTheSource` | 132,406 states |
| `ExecuteUnits` | Does the execute stage take from its units the finished result of the instruction it holds, and does it always get one? | `UnitsInv`, `UnitResultsAreOwn`, `EveryInstructionLeaves` | 24,791 states |
| `ExecuteUnits_vector_casts` | Are vectors cast to the type of the destination, as the instruction set says? No. | `VectorCastsEnd` | violated |
| `PipelineControl` | Does every instruction of a path reach write-back once, in order, and does fetching go on for ever? | `PipeInv`, `TakesInstrAtPc`, `NothingReachesBusyWb`, `FollowsProgramOrder`, `KeepsFetching` | 49,497 states |

`LarInv`, `SysInv`, `AccessorsInv`, `PipeInv`, `DataInv` and `UnitsInv` are the inductive invariants of section 6, the types of the
registers among their parts.  `ToolInv` is the types of the tool chain with `WalkInv`, the inductive invariant of the two passes, with `SymbolInv`,
the one of the symbols, their values and the addresses, and with `NamesLeadToDefinitions`, which says where a name leads.

What the main ones show.

- `ImplementsFlatMemory` is the correctness of the LAR file: over all
  histories of results, loads and stores, with aliasing, eviction, sharing and
  write-backs, no program can tell the LAR file from a flat memory.  It rests on
  `NoRequestIsIgnored` (write-back never speaks to a busy FSM), `SnapshotIsCurrent`
  (the bubble of `StPrepLdSt` outlasts the RAM's lag), `CleanLineEqualsMemory` (dropping
  a clean line loses nothing) and `OneRequestAtATime`.
- `OneDataAnswerPerEdge`: when the LAR file waits for a read *and* a write, two answers
  at one edge are both captured and neither ends the wait.  The bus guard
  never gives two answers at one edge, at any memory latency; so the LAR file's gap
  cannot be reached, and `LdStCompletes` holds.
- `NothingReachesBusyWb`: EX does not look at write-back's stall.  The two-part wait of
  IF/ID is the only thing that keeps an instruction from vanishing there.
- `TakesInstrAtPc`, `FollowsProgramOrder`: the instruction cache answers one cycle late,
  forgets requests on a miss and is not told when the program counter changes;
  the two stay together all the same.
- `OperandsAreSequential`: a result takes four edges from EX through write-back, the LAR file and the
  registered write port of its RAM to a read port.  The forwarder keeps four results; with three, or without the order
  among them, an operand is stale.  Results are found by address and not by LAR, which is what makes
  aliases read each other's results.  The same run shows that the waits for a load or
  store are long enough for the LAR's new address to be read.
- `UnitResultsAreOwn`, `EveryInstructionLeaves`: valid lines of the units stay up from one result to the next start, or for one cycle; a start
  that meets a busy cast is ignored; the BFloat16 unit selects by the operation it last accepted.  The stage has one wait for all of
  them, and it always ends, with what the unit finished for this instruction.
- `SecondPassReplaysScopes` and `ReferencesResolveLexically`: nothing names a block, so the second pass finds
  the blocks of the first by counting those that ended at each depth.
- `PassesAgreeOnAddresses`, `RefusesExactlyBadPrograms`: state precisely for which programs two passes are
  enough, and that only the wrong ones are refused.  A divisor of 0 is one that evaluation meets, in whatever expression and through
  whatever symbols; a remainder by 0 kills the assembler in either pass, a quotient by 0 is an error of the second.  The premises name the exceptions
  (section 8, and the hazards at `assembler_class.hpp:612` and `assembler_class.cpp:1376`).  Two definitions in one block must be
  refused, except where an outer symbol has captured the first (section 8): there `RefusesExactlyBadPrograms` accepts either
  outcome, and `ReferencesResolveLexically` says nothing of that name, but everything of all others (`Uncaptured`).
- `ImageIsProgram`, `CpuRunsTheSource`, `ListingShowsTheSource`: the tables of assembler, disassembler and decoder agree for
  every mnemonic and form, and offsets and immediates survive their cuts and
  sign extensions.

Bounds, and why they are enough:

- `LarFile`: `NumLars = 4` is the source's own `SMALL_LAR_FILE` (its `FORMAL` build).
  Beside dzero there are three LARs and three elements, so an element may have no,
  one, two or three holders, a second element may be in use meanwhile, and the
  stack may be full or empty.  Four addresses: as many lines as elements in
  use, and one more to miss on.  Three of the addresses are interchangeable
  (`Symmetry`), the power-up address is not.  No invariant here looks at line
  contents, hence one value; the proofs of section 6 lift `NumLars` and the rest.
- `LarFileSystem`: two addresses and two values of a line, so that a stale line, a line under
  a wrong address and dzero's data differ visibly; with `NumLars = 4`, two LARs may share a line
  while a third moves.
- `MemoryAccess`: two lines and two values; three ports as in the code.  The bus guard
  holds at most two accesses, so memory's queue never exceeds two (`StagesMatchMemory`, in `SysInv`).
- `MemoryAccessors`: `NumLars = 3` leaves two LARs, the fewest that can alias, with the same two
  lines and values; instruction reads of one line that data accesses also use.  The liveness run
  drops line contents, which no step of the control looks at.
- `PipelineControl`: eight addresses, two lines of two instructions in the cache, so that two addresses
  compete for each place and a branch may leave its line; all 256 sequences of four kinds,
  repeated, so that any kind follows any other within and across lines; jumps to
  every address, and branches ahead by two that wrap round.
- `PipelineData`: two LARs beside dzero on two lines of two values; one LAR moves between the lines, the other
  (`Roaming` leaves it out) stays on the power-up address as its alias, so results are found under
  the other LAR's address, evicted lines come back, and address 0 is met.  One of the three
  read ports, which are alike and independent.  Nops and control flow are left out, being a
  bubble and an instruction that only reads as far as data goes; stalls are those of
  multi-cycle operations, of any length.
- `Toolchain`, scopes and passes: every program of up to five lines from a menu of seven (open, close, label a,
  equ b = a+4, label b, db32 a, org b+8) whose blocks balance, and ten longer ones: blocks side by side and nested, an
  outer symbol met in an inner block, lines of every size before the symbols they mention, a remainder.
- `Toolchain`, forms: programs that together use every form, mnemonic, directive and operator once, branches in both
  directions, layouts with gaps, out of order and across memory words.  One initial state per
  program, size of output and tool; the rest is deterministic, so the states are few.
- `ExecuteUnits`: 23 forms of instruction: each cast of the first, the second or both operands, scalar and vector; each
  unit and width class without casts; the kinds that start casts and do not wait.  A behaviour is any sequence, of any length,
  over two of them, or over some threes (a scalar cast, a vector cast and one of the rest), with bubbles anywhere.  A unit's
  memory of earlier instructions is its valid line, its data and its state; two other instructions are enough to
  leave any of these behind in each of two units.  The divider takes three steps instead of 64 (`WidthArgs`): the counter is only compared
  with zero.

Deadlock is checked in the runs of the CPU: the clock never stops.  `Toolchain` says
`CHECK_DEADLOCK FALSE`, because its programs end.

## 5. Fairness

- The clock ticks: weak fairness of the next-state relation.  Real time does not stop.
- Memory answers what it was asked (`EdgeServe`, `inp.mem.valid`): the RAM of the top level
  answers at the next edge (`snow64_main_mem_module.src.sv:49-68`), so weak fairness asks less than the
  code gives.  No bound on the latency is assumed.
- `PipelineControl` also assumes that a caster, a multi-cycle unit or the LAR file that is asked raises
  its valid line in the end.  For the LAR file that is `LdStCompletes`; for the casters and units it is
  `EveryInstructionLeaves` of `ExecuteUnits`, which needs no fairness but the clock's.  Both show where the assumption does not hold,
  and `KeepsFetching` says nothing of programs that meet these cases: a load or
  store whose register is dzero, which the LAR file ignores and never answers; a BFloat16
  operation the unit has no case for (logical operations and shifts); and a vector operation with an operand to be cast to or
  from BFloat16 (section 8).
- Nothing is assumed of the clients, of which instruction the program runs or of the order of answers;
  and nothing keeps instruction reads from coming as fast as the FIFO takes them.

## 6. What is proved

Eight modules hold proofs, all checked by TLAPS to the last step.  Nothing is assumed but the constants' named assumptions,
each of which TLC evaluates in a run, and no instance is bounded.

| module | theorem | property |
|---|---|---|
| `LarFile_proofs` | `LarFileInvariant` | `Spec => []LarInv` |
| | `LarFileTypes` | `Spec => []TypeOK` |
| | `ReferenceCountsAreExact` | `Spec => []RefCountsAreExact` |
| | `TagStackIsExact` | `Spec => []StackHoldsFreeTags` |
| | `TagStackNeverOverflows` | `Spec => []PopsAndPushesFit` |
| | `LinesAreHeldOnce` | `Spec => []OneElementPerLine` |
| | `DzeroStaysZero` | `Spec => []DzeroIsZero` |
| | `OnlyUsedElementsAreDirty` | `Spec => []DirtyElementsAreInUse` |
| | `DirtyLinesAreWrittenBack` | `Spec => DirtyLineIsWrittenBack` |
| `LarFileSystem_proofs` | `SystemInvariant` | `SysSpec => []SysInv` |
| | `SystemDrivesLarFile` | `SysSpec => Spec` (of `LarFile`) |
| | `RequestsAreNeverIgnored` | `SysSpec => []NoRequestIsIgnored` |
| | `StoresSeeNewestData` | `SysSpec => []SnapshotIsCurrent` |
| | `CleanLinesAreInMemory` | `SysSpec => []CleanLineEqualsMemory` |
| | `MemoryPortsCarryOneRequest` | `SysSpec => []OneRequestAtATime` |
| | `LarFileIsFlatMemory` | `SysSpec => ImplementsFlatMemory` |
| `MemoryAccessSystem_proofs` | `AccessInvariant` | `SysSpec => []SysInv` |
| | `AnswersMeetTheirRequests` | `SysSpec => []StagesMatchMemory` |
| | `RequestsAreAcceptedOnce` | `SysSpec => []AcceptedOnce` |
| | `DataAnswersComeApart` | `SysSpec => []OneDataAnswerPerEdge` |
| | `AccessIsMemoryPorts` | `SysSpec => ImplementsMemoryPorts` |
| `MemoryAccessors_proofs` | `AccessorsInvariant` | `AccessorsSpec => []AccessorsInv` |
| | `AccessorsAreLarFileSystem` | `AccessorsSpec => ImplementsLarFileSystem` |
| | `AccessorsAreFlatMemory` | `AccessorsSpec => Sys!ImplementsFlatMemory` |
| `PipelineControl_proofs` | `PipelineInvariant` | `Spec => []PipeInv` |
| | `TakesTheInstrAtPc` | `Spec => []TakesInstrAtPc` |
| | `BusyWbGetsNothing` | `Spec => []NothingReachesBusyWb` |
| | `CachedLinesAreMemory` | `Spec => []CacheHoldsMemory` |
| | `PipelineFollowsProgramOrder` | `Spec => FollowsProgramOrder` |
| `PipelineData_proofs` | `PipelineDataInvariant` | `DataSpec => []DataInv` |
| | `PipelineDrivesLarFileSystem` | `DataSpec => SysSpec` (of `LarFileSystem`) |
| | `OperandsAreAsInSequence` | `DataSpec => []OperandsAreSequential` |
| | `PipelineDrains` | `DataSpec => []DrainsToSequentialState` |
| | `PipelineSeesFlatMemory` | `DataSpec => ImplementsFlatMemory` |
| `ExecuteUnits_proofs` | `UnitsInvariant` | `Spec => []UnitsInv` |
| | `UnitResultsAreTheStages` | `Spec => []UnitResultsAreOwn` |
| `Toolchain_proofs` | `WalkInvariant` | `Spec => []WalkInv` (of `Assembler`) |
| | `SecondPassReplays` | `Spec => []SecondPassReplaysScopes` |
| | `ToolchainReplays` | `ToolchainSpec => [](WalkInv /\ SecondPassReplaysScopes)` |
| | `BracesAreMatched` | no step of `Spec` enters a block that is not in the tree or leaves the scope of the whole program, in either pass |
| | `SymbolInvariant` | `Spec => []SymbolInv` |
| | `NamesAreLexical` | `Spec => []NamesLeadToDefinitions` |
| | `PassesAgree` | `Spec => []PassesAgreeOnAddresses` |
| | `ReferencesResolve` | `Spec => []ReferencesResolveLexically` |
| | `RefusesBadPrograms` | `Spec => []RefusesExactlyBadPrograms` |
| | `ToolchainAssemblesRight` | `ToolchainSpec => []` of `SymbolInv` and the four properties above |
| | `CpuReadsWhatIsWritten` | for any operands, what `Decoded` takes from what `encode_group_0_instr` to `encode_group_3_instr` give |
| | `DisassemblerReadsWhatIsWritten` | the same of `decode_iog` and `decode_group_0_instr` to `decode_group_3_instr` |

The assumptions:

| assumption | where | what it says, and why the code gives it |
|---|---|---|
| `NumLarsAssumption` | `LarFile` | a natural number above 1; the code has 16, or 4 |
| `ResetAssumption` | `LarFile` | the power-up values belong to their sets |
| `NoAddrAssumption` | `LarFileSystem` | the mark for "no address" is no address |
| `InstrAddrAssumption` | `MemoryAccessors` | instructions are read from addresses of memory |
| `SizesAssumption`, `AddrsAssumption` | `PipelineControl` | sizes are positive, and lines and the cache divide the address space as the code's bit fields of an address do |
| `ProgramsAssumption` | `PipelineControl` | a program gives each address an instruction (a nop, or of one of three kinds) that knows its own address |
| `UnresolvedAssumption` | `PipelineControl` | the mark for a program counter not known yet is no address |
| `WidthArgsAssumption` | `MultiCycleUnits` | dividers are at least a bit wide |
| `UnknownAssumption` | `PipelineData` | the mark for data that is left open is no line of data |
| `PortsAssumption` | `PipelineData` | port "a" is one of the read ports: an instruction's destination is read through it |
| `MenusAssumption` | `ExecuteUnits` | menus hold instructions: kinds, types and operands that exist |
| `BlocksAssumption` | `Assembler` | programs are finite sequences of lines, and no brace closes a block that was not opened above it: the grammar knows a block only as a pair of braces with lines between them (`AssemblerGrammar.g4`) |
| `OperandsAssumption` | `Assembler` | the grammar gives each kind of line its operands: registers or identifiers to instructions only; expressions to `.equ`, `.org`, `.space`, data and instructions only, one to each of the first three and at most one to an instruction |

The way to memory needs none: its addresses and values are any sets.

**The LAR file.**  None of the properties is inductive alone.  `LarInv` joins them with two
facts about registers: `SnapshotIsConsistent`, that in `WrStStartLdSt` what was captured one edge ago is still
true (so the FSM acts on the present), and `DataWritesAvoidDzero`, that a write under way to the block
RAM goes to an element other than 0.  Each part needs the others: a count changes by one
exactly when a LAR enters or leaves its holders, which is only known because the captured
tag is the LAR's tag; the tag on the stack's top is free only while the stack is exact;
a pop finds the stack non-empty because the LARs that hold an element are one fewer than all LARs,
dzero being bound to tag 0, and a full set of elements in use would need as many holders
(a counting argument over `Holders`, with cardinalities of finite sets); joining the
found element keeps "one element per line" because the search found the only one, and a
miss allocates a line nobody holds.  The proof of preservation has one lemma for each of the seven actions
of `WrStStartLdSt`, one for the idle state and one for the waits, and in each one step per conjunct
that can be disturbed; the block RAM's edge is dealt with once (`RamStep`).  `PopsAndPushesFit` follows from `LarInv` alone, `DirtyElementsAreInUse`
and the action property `DirtyLineIsWrittenBack` take `LarInv` as their invariant.

**The LAR file between write-back and memory.**  An edge of the system is an edge of the LAR file, so `LarInv` is a part of
`SysInv` and everything above carries over (`SystemDrivesLarFile`).  The other parts say what the two FSMs and memory know of each
other: `WriteBackWaits`, that write-back is silent while the LAR file is busy; `WaitsForWhatIsUnderWay`, that the state of the LAR
file says exactly which requests are at the ports or in memory, each once and for different lines; `ResultIsInPlace`, that the
result before a load or store, which write-back's request register makes the LAR file accept twice, is in the RAM by the time its
element is copied.  Without the last, `SnapshotIsCurrent` is not inductive; without `SnapshotIsCurrent`, an eviction could write
back an old line and `CleanLineEqualsMemory` fails one step later.  `ImplementsFlatMemory` then needs no further invariant: lines
of the flat memory that are held by an element are its newest data (`LineIsHeld`, `LineWillBeHeld`), and each step is one of
idle (`FlatIdle`: a result writes through the window, or nothing shows), start (`FlatStart`: a load or store, in all seven cases,
moves the window and nothing else) and wait (`FlatWait`: an arriving line or a finished write-back shows nothing).

**The way to memory.**  The first part is about `MemoryAccess` and any requests of its clients (`AccessInv`), so that it can be used
of both systems that contain it.  `FifoMoves` says what one edge does to a FIFO, `GuardMoves` what it does to the guard, and
`MemoryServes` and `MemoryRests` what to memory.  `AcceptedOnce` and `StagesMatchMemory` need one another: a request that
stays up one edge after its acceptance is not taken again because the guard's stages still name it, and the stages name the right
accesses because nothing was taken twice.  `OneDataAnswerPerEdge` follows since memory answers the oldest access only.  The
refinement of `MemoryPorts` follows each port from asking to answer (`RequestEnters`, `RequestStays`, `AnswersTravel`), with one lemma
for each kind of step a port can make (`FreePortMoves`, `WaitingPortStays`, `ServedPortMoves`, `AnsweredPortMoves`) and one
that says that a step serves at most one (`OtherPortsMove`).

**The two joined.**  `MemoryAccessors_proofs` uses the modules above through two instances, `Sys` and `Way`; the lemmas at its
top say that their definitions mean the same.  `AccessorsInv` is both invariants and two parts that neither half can
state: `FifosHoldWhatIsUnderWay`, that the LAR file's requests in progress are those the FIFOs hold, and `AnswersAreCurrent`, that a line
on its way back has not been overtaken by a write-back, nor a write-back by another.  `ReadStaysCurrent` and `WriteStaysCurrent` are
where this is decided: the LAR file never has the same line in both FIFOs (`WaitsForWhatIsUnderWay`), and instruction
reads change nothing.  The refinement of `LarFileSystem` matches the LAR file's abstract memory with what the FIFOs hold (`PendingMoves`,
`AnswersToLarFile`, `WriteHasLanded`), and with `LarFileIsFlatMemory` it gives `AccessorsAreFlatMemory`: the LAR file, its FIFOs, the bus
guard and memory, as wired, are a flat memory.

**The pipeline.**  `TakesInstrAtPc` and `NothingReachesBusyWb` are what goes wrong first if one of the stages counts a cycle too few, and neither
is inductive.  `PipeInv` says where the youngest instruction is in each state of the fetch stage (`FetchWaitsForYoungest`,
`LdStIsAlone`), that only results of group 0 keep the execute stage (`StalledByAlu`), that the request the cache is about to answer
was made at the program counter (`RequestIsForPc`), and that what is captured, asked for or kept in the cache are lines of
memory at their addresses (`CacheHoldsMemory`, `CapturedLineHoldsMemory`, `FetchesTheMissedLine`).  The last ones rest on
arithmetic: tag, index and place put together are the address (`LineAddrFromParts`, from `DivisionIsUnique`).  The stall
lines are written as conditions on the next states (`ExecuteStep`, `WriteBackStep`), which makes the cases few.  For `FollowsProgramOrder`
the instruction in the execute stage outlives an edge as the oldest that is still in flight (`InFlightMoves`), and what the fetch stage
does at that edge is a step of `ProgramOrder` beside it: taking an instruction issues it, a nop is skipped, a new program
counter resolves a branch, and all else only writes back.  A branch counts from the wrapped address of its
successor (`BranchFromWrapped`).

**The operands.**  `DataInv` says where each of the last four results is.  A result moves with every edge by one place: the input of
write-back, its request, the write port of the block RAM, the RAM; and the forwarder's four past results
move with it (`PastResultsAreUnderWay`).  A port misses at most the last of the four (`PortsAreRecent`), which the forwarder still
has.  So an operand is the youngest of the past results for its address, or the port's line, and either is what the sequential machine
has there (`SequentialInTheEnd`: the LAR file, once it is through with what is under way, shows the sequential machine's memory and
windows).  Two facts make this inductive.  While results are under way no LAR moves, since the fetch stage waits for a
load or store with nothing behind it (`LdStHasTheBack`), so "the address of the result" and "the window of the LAR now" agree.
And a load or store takes so long that the past results have run out when the next instruction reads
(`PastResultsRunOut`), so a result of before cannot be forwarded to a LAR that has since moved to its address.
`LdStUnderWay` follows the one load or store from the execute stage to the end of its wait; in the last
edge `ImplementsFlatMemory`'s lemmas of `LarFileSystem_proofs` say that the window moves and nothing else does.  `LdStUnderWay` is the only place where the
two machines differ, so `DrainsToSequentialState` is what remains of the invariant when it is empty.

**The units of the execute stage.**  `UnitsInv` says of every unit that it is at rest unless the stage waits for it
(`MulRests`, `DivRests`, `FpuRests`), and that it is then at work for the instruction in the stage or shows its finished result
(`MulServes`, `DivServes`, `FpuServes`).  So a start never meets a unit at work and a valid line of an earlier result is down, or belongs
to a submodule that is not selected, when the stage begins to look.  Each unit has a lemma of its own about one edge (`MulStep`,
`DivStep`, `FpuStarts`, `FpuMoves`, `CastersStart`, `CastersMove`), which knows nothing of the stage; one lemma (`StageFollows`) says when the
stage starts a unit, waits and leaves; the rest is their combination, unit by unit (`MulKept`, `DivKept`, `FpuKept`, `CastsKept`).
The part about the casters of scalars is stated for menus without instructions that leave casts behind, as `UnitResultsAreOwn` is (section 8).

**The two passes.**  Nothing names a block, so the second pass counts: at each depth, how many blocks have ended in the scope it
is in.  `WalkInv` says what it has to agree with.  The tree is closed (`TreeIsClosed`: parents are there, and a scope's number of children is
the number of lines that open a block in it); each line is in the scope its brace or the line above it leads to (`LinesWalkTheTree`); a
scope is entered at one line and never before (`ScopesAreFresh`); the counts of braces in the text say
which blocks a line is in (`TextShowsTheTree`), which is what ties scopes to `Block`, where no tree occurs; and the stack of
the second pass has in each place as many as blocks were opened in that scope above the line (`CountersFollow`), less the one
it is inside.  Opening a block, the second pass finds the child of that number, which is the scope the first pass entered at
this line (`BraceIsMatched`).  Of the program nothing is asked but that no brace closes what was not opened (`BlocksAssumption`).

**The symbols.**  `SymbolInv` is inductive beside `WalkInv`.  Its first two parts say what is in the table, for every program:
`TableHasDefinitions` and `DefinitionsAreUnique`, that each definition has the symbol of its own scope to itself, unless an outer
definition of its name has captured it (section 8).  A definition takes the first symbol of its name that it meets going
outward; if none is around it, it goes to its own scope, and in the second pass it meets itself.  Whatever else is looked up
in the second pass and not found, a name of a register among the operands of an instruction, is put where no definition
of it is around, and no later definition of the pass is new.  That `find` then leads to `Meaning` (`NamesAreLexical`) needs both halves of the walk: the
prefixes of a line's scope are the scopes of the blocks around it (`TextShowsTheTree`), a deeper scope belongs to a block that
opens later, and so the longest prefix with a definition of the name is the scope of the innermost definition.  The largest and least
elements that `find` and `Meaning` choose exist by the well-foundedness of the natural numbers (`LeastOf`, `GreatestOf`).

The other parts say what a symbol is worth.  Symbols are read while they are being set again, so a line may meet the value of this
pass or of the one before: `SymbolsHaveLastValues` says which, of the last definition that has set the symbol, and `LinesReadLastValues` that each
line has read just that.  `LinesFollow` ties an address to the line above it, and a line's values to its address and to the values of
its symbols.  Expressions stay uninterpreted here: all that is used is that equal addresses and equal
symbols give equal values.  `PassesAgree` then takes the first line at which the passes differ in their address or in a value
that lays out the program, and finds a line above it that differs already (`LayoutAgrees`); this is where
`LayoutKnown` is needed, as a symbol from below is unknown in the first pass.  For `ReferencesResolve`, the
second pass reads a definition above in this pass and one below in the first, and the two values are equal by `LayoutAgrees` (`ReferencesAre`).
No definition of another name interferes, captured or not, as each sets a symbol of its own name (`TargetHasName`).

`LinesAreFaultless` remembers that no line went by with a fault, so an assembly that is done had none: no unknown symbol, hence every name
has a visible definition; no binary literal; no divisor of 0.  Conversely a step that stops has met one of them (`FaultTells`, `StopsForReasons`).
Two definitions count as such a fault when the first is not captured (`HasTwoOfItsOwn`).
A symbol is a known label if and only if a definition is visible (`KnownIsLabel`); a definition is refused as a duplicate only if
an earlier one of its block has the symbol (`DuplicateIsSecond`); and the second of two definitions in a block goes through only
if an outer one has captured both (`CapturedTogether`: what captures the second has captured the first).

**Instruction words.**  The two halves of a word are sums of fields (`HighFields`, `LowFields`), and fields put side by side
are taken apart again by division and remainder, whatever number was to be put into them: `Field` keeps the lower bits
of any integer.  The encoders of the four groups then give the same halves as the decoder's and the disassembler's cuts expect, the
immediate of group 1 alone crossing the halves (`LongImmediate`).  That negative immediates
survive is `SignedFieldIsWhole`.  What a mnemonic means is a matter of finite tables, which `CpuRunsTheSource` and `ListingShowsTheSource` check entry by entry.

## 7. What is only model-checked

- Liveness: `EveryClientIsAnswered`, `LdStCompletes`, `KeepsFetching`, `EveryInstructionLeaves`.  This prover has no rule for
  fairness over ENABLED.
- What an expression evaluates to: it is a sequence of any length and its value a fold over it, so that statements about the value
  itself are inductions over data.  The proofs about symbols and addresses use only that the value depends on nothing but
  the line's address and its symbols.
- Whole programs behind the assembler, `ImageIsProgram`, `CpuRunsTheSource`, `ListingShowsTheSource`: their image is put together from all lines by
  folds, and the tables they compare are finite.  Proved of them is what one word means (section 6).
- The types of the tool chain (the rest of `ToolInv`).

## 8. Where the code and its comments differ

`FirstStoreIsZero`.  The comment at `snow64_lar_file_module.src.sv:1359` says that a store
through a LAR that never held data writes zero, and
`docs_old/outputs/snow64_lar_file_details.md:81` says its data is zero.  The code leaves the
element's data as the tag's previous user left it.  The counterexample frees a tag
that held a non-zero line, by loading its LAR from the address of another LAR, and then stores through a
LAR that was never used.  `FlatMemory` therefore leaves the data of such a store
open.

`DzeroReadsZero`.  `docs_old/outputs/snow64_instruction_set.md:10` lists dzero as "always zero".  The forwarder
(`snow64_pipe_stage_ex_modules.src.sv:145`) compares base addresses only, and the element that
dzero reads has the power-up base address 0; for four cycles after a result for a LAR that
points at address 0, dzero reads as that result.  The LAR file itself keeps dzero's line zero
(`DzeroIsZero`, proved).  A LAR without an element reads the same way.  Operands from dzero and from
such LARs are therefore outside `OperandsAreSequential`.

`VectorCastsEnd`.  `docs_old/outputs/snow64_instruction_set.md:40` says of all ALU instructions that their operands are cast to
the type of the destination.  `Snow64ToOrFromBFloat16VectorCaster` (`snow64_vector_caster_modules.src.sv:494`) keeps its results in
`__real_out_valid` and `__real_out_data` and never connects them to its port `out`.  Icarus Verilog, which the makefile builds
with, gives `out.valid` the value X, and `if (X || X)` is not taken: the execute stage waits for ever
(`snow64_pipe_stage_ex_modules.src.sv:1041`).  The states of that module are therefore not modelled.  Behind the
missing connection there is another difficulty, for whoever makes it: the module starts its sixteen units through registers, one
edge after it begins to look at their valid lines, which are still up from an earlier cast then (lines 700 and 721).

Met while modelling, and stated by no run:

- A scalar cast of BFloat16 to an integer is taken one step early.  `Snow64PsExCastScalars` waits until the whole output of a unit is non-zero
  (`snow64_pipe_stage_ex_modules.src.sv:798`; the test of the valid bits stands above it as a comment).  The data of a cast to an integer is
  non-zero one step before the unit is done, and in that last step it applies sign and
  saturation.  `UnitResultsAreOwn` is therefore stated for casts to BFloat16, which are taken at the right edge.
- Loads, stores, branches and system calls whose registers differ in type start scalar casts and do not wait for them; a scalar
  operation right behind one may then be given the operands of the cast before.  `UnitResultsAreOwn` is stated for programs without
  such instructions (`Unawaited`), `EveryInstructionLeaves` for all.
- The comment at `assembler_class.cpp:295` says that duplicate labels in the same
  scope are disallowed.  The check at line 307 looks into the innermost table, but the definition goes to the
  symbol that `find_or_insert` finds, which may belong to an outer scope; the innermost table then
  stays without it, the outer value is overwritten and a second definition is accepted.  The properties take no side: a program
  with such a duplicate may be refused or assembled (`MustBeRefused` against `Refusable`), and what its name then
  stands for is left open.  That such a duplicate goes unnoticed is the one part of the hazards of the tool chain's
  names that no property covers.
- The disassembler shows the offset of a branch where the assembler expects its target, so that a listing does not
  assemble to the same program.
- The comment at `DisassemblerGrammar.g4:6` says that the grammar takes
the assembler's output, but a number of that grammar has two digits or more (line 28) and the assembler prints
addresses below 16 with one, so that the lexer drops such a line.  The properties of
the tool chain are stated for outputs without one (`Readable`).

## 9. What is not modelled, and why

- The data path of EX: results and addresses are any value in `PipelineData`, and in `ExecuteUnits` data is only known to be
  finished or not, of this instruction or of another.
- The units inside `PipelineControl` and `PipelineData`: there they are valid lines that come after any time, which
  `ExecuteUnits` justifies (section 5).
- Arithmetic (integer ALU, multiplication, division, BFloat16): planned as pure operators at small widths;
  rounding of BFloat16 results is not planned.
- The states of the vector casters, which nothing outside them can see (section 8); casts between integers, which are
  combinational; the radix-8 long division, which nothing uses.
- Coherence of the instruction cache with stores: the code has none, no
  document promises it, and `PipelineControl` keeps the program constant.
- Rotation, extraction and injection of scalars: byte wiring.
- Test benches: no part of the CPU's behaviour.
- Lexing and parsing of source text, which generated code does, and syntax errors: a program is its parsed lines.
- The wording of error messages and listings, and reading of standard input.
- Numbers from 2^31 on and shifts by more than 30 in expressions of the assembler, which TLC cannot count.
- Of liborangepower, everything but the bit fields and the pair of previous and current value: the programs do not
  use it.
- In `Toolchain`, what becomes of the output of an assembly that failed; images with data at addresses that are not
  multiples of the size it is printed in (`Aligned`), or whose first word is word 1 (`StartsBelowOrBeyondWordOne`), where
  the generator is known to go wrong (hazards at `main_mem_words_generator_class.cpp:186` and `:43`).

## 10. Plan

Done, in this order: `LarFile`, its system and its proof; the way to memory; the two joined; the pipeline's control;
the assembler; the other tools and the decoder (`Toolchain`); the pipeline's operands (`PipelineData`);
the casters and units of the execute stage (`ExecuteUnits`).

To come, the most important first:

1. `Alu`, `LongDiv`, `Rotate`: pure operators against arithmetic on the integers, at small widths.
2. `ExecuteUnits` under `PipelineControl`, so that the bubbles between instructions are the fetch stage's own and not
   a count (`BubblesAfter`).
