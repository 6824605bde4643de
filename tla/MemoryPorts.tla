----------------------------- MODULE MemoryPorts -----------------------------
(***************************************************************************)
(* What the way to memory promises its clients: each port takes a request   *)
(* when it is free, the request meets memory exactly once, at some edge     *)
(* before its answer, and the answer comes back to the port it was asked    *)
(* on.  Memory is met by one request per edge, in any order between ports.  *)
(***************************************************************************)

CONSTANTS Port, Addr, Data, Request   \* Request[p]: what port p may ask

VARIABLES main_mem, port

portVars == <<main_mem, port>>

Free == [stage |-> "Free"]
Asked(r) == [stage |-> "Asked", request |-> r]
Served(r, d) == [stage |-> "Served", request |-> r, data |-> d]

IsWrite(r) == "data" \in DOMAIN r

Init ==
    /\ main_mem \in [Addr -> Data]
    /\ port = [p \in Port |-> Free]

\* Nothing, a request, or an answer at port p.
Ask(p) == port[p] = Free /\ \E r \in Request[p] : port'[p] = Asked(r)
Reply(p) == port[p].stage = "Served" /\ port'[p] = Free
Stay(p) == port'[p] = port[p]

\* The request of port p meets memory.  What a write answers is left open.
Meet(p) ==
    /\ port[p].stage = "Asked"
    /\ LET r == port[p].request IN
       IF IsWrite(r)
       THEN /\ main_mem' = [main_mem EXCEPT ![r.addr] = r.data]
            /\ \E d \in Data : port'[p] = Served(r, d)
       ELSE /\ UNCHANGED main_mem
            /\ port'[p] = Served(r, main_mem[r.addr])

Others(P) == \A p \in P : Ask(p) \/ Reply(p) \/ Stay(p)

Next ==
    /\ DOMAIN port' = Port
    /\ \/ UNCHANGED main_mem /\ Others(Port)
       \/ \E p \in Port : Meet(p) /\ Others(Port \ {p})

Spec == Init /\ [][Next]_portVars
=============================================================================
