----------------------------- MODULE InstrCache -----------------------------
(***************************************************************************)
(* The direct-mapped instruction cache.  It captures a request and the line *)
(* it selects at one edge and answers in the cycle after; on a miss it      *)
(* forgets the request, fetches the line, and waits to be asked again.      *)
(*                                                                         *)
(* Addresses count instructions: the don't-care bits below are dropped, as  *)
(* the cache drops them.                                                    *)
(***************************************************************************)
EXTENDS Naturals

CONSTANTS
    LineSize,   \* instructions in a line: 8
    NumLines,   \* lines in the cache: 1024
    NoData      \* what a line holds before its first fill

VARIABLES
    ic_state,
    captured_req, captured_addr,  \* the request of the last edge
    captured_line,                \* and the line it selected
    lines,                        \* valid flag, tag and data, by index
    ic_mem_access                 \* request line and address, towards memory

icacheVars == <<ic_state, captured_req, captured_addr, captured_line, lines, ic_mem_access>>

NoReq == [req |-> FALSE]
EmptyLine == [valid |-> FALSE, tag |-> 0, data |-> NoData]

Tag(addr) == addr \div (LineSize * NumLines)
ArrIndex(addr) == (addr \div LineSize) % NumLines
LineIndex(addr) == addr % LineSize
LineAddr(addr) == addr - LineIndex(addr)

Init ==
    /\ ic_state = "StIdle"
    /\ captured_req = FALSE
    /\ captured_addr = 0
    /\ captured_line = EmptyLine
    /\ lines = [i \in 0 .. NumLines - 1 |-> EmptyLine]
    /\ ic_mem_access = NoReq

LineIsValid == captured_line.valid /\ captured_line.tag = Tag(captured_addr)
Miss == captured_req /\ ~LineIsValid

\* The answer, a function of what was captured.
Valid == captured_req /\ ic_state = "StIdle" /\ LineIsValid
Instr == captured_line.data[LineIndex(captured_addr)]

Capture(req, addr) ==
    /\ ic_state = "StIdle" /\ ~Miss
    /\ captured_req' = req
    /\ captured_addr' = addr
    /\ captured_line' = lines[ArrIndex(addr)]
    /\ ic_mem_access' = NoReq
    /\ UNCHANGED <<ic_state, lines>>

StartMiss ==
    /\ ic_state = "StIdle" /\ Miss
    /\ ic_state' = "StWaitForMem"
    /\ ic_mem_access' = [req |-> TRUE, addr |-> LineAddr(captured_addr)]
    /\ UNCHANGED <<captured_req, captured_addr, captured_line, lines>>

\* Mutant: the request that missed is answered from the line captured before.
ForgetRequest_Keeps == UNCHANGED captured_req
ForgetRequest == captured_req' = FALSE

Fill(data) ==
    lines' = [lines EXCEPT ![ArrIndex(captured_addr)] =
                  [valid |-> TRUE, tag |-> Tag(captured_addr), data |-> data]]

WaitForMem(mem) ==
    /\ ic_state = "StWaitForMem"
    /\ ic_mem_access' = NoReq
    /\ ForgetRequest
    /\ IF mem.valid
       THEN ic_state' = "StIdle" /\ Fill(mem.data)
       ELSE UNCHANGED <<ic_state, lines>>
    /\ UNCHANGED <<captured_addr, captured_line>>

Clock(req, addr, mem) ==
    \/ Capture(req, addr)
    \/ StartMiss
    \/ WaitForMem(mem)
=============================================================================
