-------------------------- MODULE OperandForwarder --------------------------
(***************************************************************************)
(* Snow64PsExOperandForwarder and the results of the execute stage.  A       *)
(* result takes four edges to come out of a read port again; until then it   *)
(* is taken from the last four results, the newest of those that were        *)
(* computed for the address of the LAR that is read.                         *)
(***************************************************************************)
EXTENDS Naturals

VARIABLES
    rd,                 \* the read ports of the LAR file
    past_results,       \* the results of the last four cycles, 0 the newest
    captured_true_ra    \* of the destination: what a stalled instruction keeps

exDataVars == <<past_results, captured_true_ra>>

\* The other fields of a result that is not valid are never looked at.
NoResult == [valid |-> FALSE]
Result(addr, d) == [valid |-> TRUE, base_addr |-> addr, computed_data |-> d]
NothingCaptured == [tag |-> 0]

Init ==
    /\ past_results = [k \in 0 .. 3 |-> NoResult]
    /\ captured_true_ra = NothingCaptured

\* Mutant: one result fewer is kept.
operand_forwarding_check_OneFewer(p) ==
    {k \in 0 .. 2 : past_results[k].valid /\ past_results[k].base_addr = rd[p].base_addr}
operand_forwarding_check(p) ==
    {k \in 0 .. 3 : past_results[k].valid /\ past_results[k].base_addr = rd[p].base_addr}

\* What an instruction that has just come to the stage finds at port p.
CurrTrueData(p) ==
    LET found == operand_forwarding_check(p) IN
    IF found = {} THEN rd[p]
    ELSE LET k == CHOOSE n \in found : \A other \in found : n <= other IN
         [rd[p] EXCEPT !.data = past_results[k].computed_data,
                       !.base_addr = past_results[k].base_addr]

\* Address and tag of the destination, in the first cycle and in later ones.
TrueRa(first) ==
    IF first THEN [tag |-> CurrTrueData("a").tag, base_addr |-> CurrTrueData("a").base_addr]
    ELSE captured_true_ra

\* Mutant: a result for a LAR without an element is kept as well.
CurrResults_NoElement(first, is_alu, ra_index, stall, computed_data) ==
    IF is_alu /\ ra_index # 0 /\ ~stall
    THEN Result(TrueRa(first).base_addr, computed_data) ELSE NoResult
\* Only an instruction of group 0 that leaves the stage and whose destination has
\* an element has a result.
CurrResults(first, is_alu, ra_index, stall, computed_data) ==
    IF TrueRa(first).tag # 0 /\ is_alu /\ ra_index # 0 /\ ~stall
    THEN Result(TrueRa(first).base_addr, computed_data) ELSE NoResult

\* What is captured is only used again during a stall.
Clock(first, curr_results, stall) ==
    /\ past_results' = [k \in 0 .. 3 |-> IF k = 0 THEN curr_results ELSE past_results[k - 1]]
    /\ captured_true_ra' = IF stall THEN TrueRa(first) ELSE NothingCaptured
=============================================================================
