--------------------------- MODULE MCPipelineControl ---------------------------
(* Model checking PipelineControl on programs of eight instructions, in a cache *)
(* of two lines of two instructions: two addresses compete for each.  Any four  *)
(* kinds may follow each other; control flow is a jump to anywhere in the first *)
(* half of a program and a branch in the second.                                *)
EXTENDS PipelineControl

ProgramOf(kinds) ==
    [a \in 0 .. NumAddrs - 1 |->
        [kind |-> kinds[a % 4], at |-> a, jmp |-> a < NumAddrs \div 2, offset |-> 2]]

MCPrograms == {ProgramOf(kinds) : kinds \in [0 .. 3 -> {"alu", "ctrl", "ldst", "nop"}]}
=============================================================================
