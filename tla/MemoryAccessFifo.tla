-------------------------- MODULE MemoryAccessFifo --------------------------
(***************************************************************************)
(* A "FIFO" between a client and the memory bus guard: it takes one request *)
(* from the client, holds it until the guard accepts it, and hands the      *)
(* answer back for one cycle.  The read FIFO and the write FIFO have the    *)
(* same control; a write's request carries data and its answer carries      *)
(* none.  The busy output is left out: nothing in the CPU reads it.         *)
(***************************************************************************)

VARIABLE fifo   \* its registers: state, cmd_was_accepted, to_mbg and out

NoReq == [req |-> FALSE]
NotValid == [valid |-> FALSE]

Init == fifo = [state |-> "Idle", cmd_was_accepted |-> FALSE,
                to_mbg |-> NoReq, out |-> NotValid]

\* Idle, and the client asks nothing.  The address and data registers are not
\* cleared, but nothing reads them any more: the model forgets them.
IdleNoRequest(request) ==
    /\ fifo.state = "Idle"
    /\ ~request.req
    /\ fifo' = [fifo EXCEPT !.to_mbg = NoReq, !.out = NotValid]

IdleRequest(request) ==
    /\ fifo.state = "Idle"
    /\ request.req
    /\ fifo' = [state |-> "WaitForMem", cmd_was_accepted |-> FALSE,
                to_mbg |-> request, out |-> NotValid]

\* Mutant: an acceptance is forgotten at the next edge.
Accepted_OnlyNow(cmd_accepted) == cmd_accepted
Accepted(cmd_accepted) == cmd_accepted \/ fifo.cmd_was_accepted

\* Mutant: the request stays up after the guard has accepted it.
ToMbg_Holds(cmd_accepted) == fifo.to_mbg
ToMbg(cmd_accepted) ==
    IF cmd_accepted THEN [fifo.to_mbg EXCEPT !.req = FALSE] ELSE fifo.to_mbg

\* Waiting for memory, and the answer is not there.
WaitMore(cmd_accepted, answer) ==
    /\ fifo.state = "WaitForMem"
    /\ ~(Accepted(cmd_accepted) /\ answer.valid)
    /\ fifo' = [fifo EXCEPT !.cmd_was_accepted = Accepted(cmd_accepted),
                            !.to_mbg = ToMbg(cmd_accepted)]

\* The answer goes to the client.  cmd_was_accepted stays set until the next request
\* clears it, unread: the model clears it here.
Grant(cmd_accepted, answer) ==
    /\ fifo.state = "WaitForMem"
    /\ Accepted(cmd_accepted) /\ answer.valid
    /\ fifo' = [state |-> "Idle", cmd_was_accepted |-> FALSE,
                to_mbg |-> ToMbg(cmd_accepted), out |-> answer]

Clock(request, cmd_accepted, answer) ==
    \/ IdleNoRequest(request)
    \/ IdleRequest(request)
    \/ WaitMore(cmd_accepted, answer)
    \/ Grant(cmd_accepted, answer)
=============================================================================
