------------------------------- MODULE Toolchain -------------------------------
(***************************************************************************)
(* From source to the CPU: the assembler's output goes into the disassembler  *)
(* (-a or -b, then -d), or, as full_assemble.sh does, into the generator of    *)
(* memory words (-b, then -w) and from there into the main memory, where the  *)
(* CPU's decoder reads it.  Each program reads all of its input first.  What  *)
(* becomes of the output of an assembly that failed is left out.              *)
(***************************************************************************)
EXTENDS Assembler, Disassembler, MainMemWordsGenerator, InstrDecoder

VARIABLES
    tool,     \* the program that reads the assembler's output: "-d" or "-w"
    stage,
    memory    \* the main memory, from addresses of words to their elements

toolVars == <<asmVars, disVars, genVars, tool, stage, memory>>

ToolchainInit ==
    /\ Init
    /\ DisInit
    /\ GenInit
    /\ tool \in {"-d", "-w"}
    /\ tool = "-w" => show_words
    /\ stage = "assembling"
    /\ memory = [a \in {} |-> NoMemWord]

Assembling ==
    /\ stage = "assembling"
    /\ Next
    /\ UNCHANGED <<disVars, genVars, tool, stage, memory>>

\* pipefail: the script fails with the assembler.
Failing ==
    /\ stage = "assembling"
    /\ status \notin {"running", "done"}
    /\ stage' = "failed"
    /\ UNCHANGED <<asmVars, disVars, genVars, tool, memory>>

Piping ==
    /\ stage = "assembling"
    /\ status = "done"
    /\ stage' = IF tool = "-d" THEN "disassembling" ELSE "generating"
    /\ text' = IF tool = "-d" THEN Lexed(out) ELSE text
    /\ input' = IF tool = "-w" THEN Lexed(out) ELSE input
    /\ UNCHANGED <<asmVars, text_at, listing, input_at, curr_instr_addr, mem_words_map,
                   printed, mem_word_addr, tool, memory>>

Disassembling ==
    /\ stage = "disassembling"
    /\ DisassembleLine
    /\ UNCHANGED <<asmVars, genVars, tool, stage, memory>>

Disassembled ==
    /\ stage = "disassembling"
    /\ text_at > Len(text)
    /\ stage' = "end"
    /\ UNCHANGED <<asmVars, disVars, genVars, tool, memory>>

Generating ==
    /\ stage = "generating"
    /\ VisitInput \/ PrintMemWord
    /\ UNCHANGED <<asmVars, disVars, tool, stage, memory>>

\* $readmemh: words go to successive addresses from 0 on, or from the address
\* that is given.
ReadMem(words) ==
    LET Place(sofar, word) ==
            LET addr == IF word.has_addr THEN word.addr ELSE sofar.next IN
            [next |-> addr + 1,
             mem |-> [a \in DOMAIN sofar.mem \cup {addr} |->
                        IF a = addr THEN word.data ELSE sofar.mem[a]]]
    IN  FoldLeft(Place, [next |-> 0, mem |-> memory], words).mem

Loading ==
    /\ stage = "generating"
    /\ input_at > Len(input)
    /\ Unprinted = {}
    /\ memory' = ReadMem(printed)
    /\ stage' = "end"
    /\ UNCHANGED <<asmVars, disVars, genVars, tool>>

ToolchainNext ==
    \/ Assembling \/ Failing \/ Piping
    \/ Disassembling \/ Disassembled
    \/ Generating \/ Loading

ToolchainSpec == ToolchainInit /\ [][ToolchainNext]_toolVars
=============================================================================
