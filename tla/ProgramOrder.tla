----------------------------- MODULE ProgramOrder -----------------------------
(***************************************************************************)
(* What the pipeline promises: instructions of the program are issued one   *)
(* by one along a path of the program, and each issued instruction reaches  *)
(* write-back, in the order of issue.                                       *)
(***************************************************************************)
EXTENDS Naturals, Sequences

CONSTANTS NumAddrs, Unresolved

VARIABLES
    program,   \* the instruction at each address
    pc,        \* where the next instruction is, or Unresolved
    inflight   \* issued and not yet written back, oldest first

orderVars == <<program, pc, inflight>>

\* Where an instruction of control flow may lead.
Targets(instr) ==
    IF instr.jmp THEN 0 .. NumAddrs - 1
    ELSE {(instr.at + 1) % NumAddrs, (instr.at + 1 + instr.offset) % NumAddrs}

Init == pc = 0 /\ inflight = <<>>

\* The oldest instruction may be written back at the same edge.
Rest == {inflight} \cup (IF inflight = <<>> THEN {} ELSE {Tail(inflight)})

Issue(rest) ==
    /\ pc # Unresolved
    /\ program[pc].kind # "nop"
    /\ inflight' = Append(rest, program[pc])
    /\ pc' = IF program[pc].kind = "ctrl" THEN Unresolved ELSE (pc + 1) % NumAddrs

SkipNop(rest) ==
    /\ pc # Unresolved
    /\ program[pc].kind = "nop"
    /\ inflight' = rest
    /\ pc' = (pc + 1) % NumAddrs

\* The youngest instruction in flight is the one the program counter waits for.
Resolve(rest) ==
    /\ pc = Unresolved
    /\ pc' \in Targets(inflight[Len(inflight)])
    /\ inflight' = rest

WriteBack(rest) == inflight' = rest /\ UNCHANGED pc

Next == /\ UNCHANGED program
        /\ \E rest \in Rest : Issue(rest) \/ SkipNop(rest) \/ Resolve(rest) \/ WriteBack(rest)

Spec == Init /\ [][Next]_orderVars
=============================================================================
