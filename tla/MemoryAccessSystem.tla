------------------------- MODULE MemoryAccessSystem -------------------------
(***************************************************************************)
(* The way to memory between its three clients.  A client raises its        *)
(* request line for one cycle and then waits for valid, as the instruction  *)
(* cache and the LAR file do.  A data read and a data write may be under    *)
(* way together, but never for one line (LarFileSystem, OneRequestAtATime). *)
(***************************************************************************)
EXTENDS MemoryAccess

VARIABLES
    instr_req, read_req, write_req,  \* the clients' request registers
    waiting                          \* the ports on which a client waits

clientVars == <<instr_req, read_req, write_req, waiting>>
vars == <<accessVars, clientVars>>

NoReq == [req |-> FALSE]
ReadReq == [req : {TRUE}, addr : Addr]
WriteReq == [req : {TRUE}, addr : Addr, data : Data]

SysInit ==
    /\ Init
    /\ instr_req = NoReq /\ read_req = NoReq /\ write_req = NoReq
    /\ waiting = {}

ReqOf(p) == CASE p = "ReadInstr" -> instr_req
              [] p = "ReadData"  -> read_req
              [] p = "WriteData" -> write_req

\* The request a client waits for: on its request line or in the FIFO.
Outstanding(p) == IF ReqOf(p).req THEN ReqOf(p) ELSE FifoOf(p).to_mbg

\* A request, or none, for a port whose client is not waiting.
MayAsk(p, Requests) == IF p \in waiting THEN {NoReq} ELSE {NoReq} \cup Requests

Clients ==
    /\ instr_req' \in MayAsk("ReadInstr", ReadReq)
    /\ read_req' \in MayAsk("ReadData", ReadReq)
    /\ write_req' \in MayAsk("WriteData", WriteReq)
    /\ read_req'.req /\ write_req'.req => read_req'.addr # write_req'.addr
    /\ read_req'.req /\ "WriteData" \in waiting
           => read_req'.addr # Outstanding("WriteData").addr
    /\ write_req'.req /\ "ReadData" \in waiting
           => write_req'.addr # Outstanding("ReadData").addr
    /\ waiting' = {p \in Port : \/ p \in waiting /\ ~Out(p).valid
                                \/ ReqOf(p)'.req}

Edge == Clients /\ Clock(instr_req, read_req, write_req)

EdgeServe == Edge /\ Serve
EdgeNotYet == Edge /\ NotYet

SysNext == EdgeServe \/ EdgeNotYet

\* The clock does not stop, and memory answers what it was asked.
SysSpec == SysInit /\ [][SysNext]_vars /\ WF_vars(SysNext) /\ WF_vars(EdgeServe)

-----------------------------------------------------------------------------
(* What the registers stand for *)

Rq(r) == IF "data" \in DOMAIN r THEN [addr |-> r.addr, data |-> r.data]
         ELSE [addr |-> r.addr]

\* Port p as MemoryPorts sees it.
PortShows(p) ==
    IF p \notin waiting THEN [stage |-> "Free"]
    ELSE IF HasMetMemory(p)
         THEN [stage |-> "Served", request |-> Rq(Outstanding(p)),
               data |-> IF p = "WriteData" THEN CHOOSE d \in Data : TRUE ELSE Behind(p).data]
         ELSE [stage |-> "Asked", request |-> Rq(Outstanding(p))]

Ports == INSTANCE MemoryPorts WITH
    Request <- [p \in Port |-> IF p = "WriteData" THEN [addr : Addr, data : Data]
                               ELSE [addr : Addr]],
    port <- [p \in Port |-> PortShows(p)]

-----------------------------------------------------------------------------
(* Properties *)

SysTypeOK ==
    /\ AccessTypeOK
    /\ {instr_req, read_req} \subseteq {NoReq} \cup ReadReq
    /\ write_req \in {NoReq} \cup WriteReq
    /\ waiting \subseteq Port

\* A client waits exactly while its request is on its way: on its request line, in its
\* FIFO, or answered at this edge, and never in two of these.
ClientsWait ==
    \A p \in Port :
        /\ p \in waiting <=> ReqOf(p).req \/ Waits(p) \/ Out(p).valid
        /\ ReqOf(p).req => ~Waits(p) /\ ~Out(p).valid

\* The inductive invariant behind the theorems of MemoryAccessSystem_proofs.
SysInv == SysTypeOK /\ AccessInv /\ ClientsWait

\* The FIFOs, the guard and memory implement the three ports: each request meets
\* memory once, in the form it was asked, and its answer comes to its client.
ImplementsMemoryPorts == Ports!Spec

\* Instruction reads go first, yet no client waits for ever.
EveryClientIsAnswered == \A p \in Port : p \in waiting ~> p \notin waiting
=============================================================================
