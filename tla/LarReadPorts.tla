---------------------------- MODULE LarReadPorts ----------------------------
(***************************************************************************)
(* The read ports of the LAR file: three of them, all alike, none looking at *)
(* another.  At every edge each takes the metadata of the LAR it is pointed  *)
(* at, and the address and the data of the element that this LAR refers to,  *)
(* as they were before the edge.                                             *)
(***************************************************************************)
EXTENDS LarFile

CONSTANT Ports   \* rd_a, rd_b and rd_c, or fewer of them
VARIABLE rd      \* the registers of each port

\* A LAR without an element refers to element 0, which is nobody's: its address
\* is the power-up address, its data zero.
Selected(index) ==
    [tag |-> tag[index], data_offset |-> data_offset[index], data_type |-> data_type[index],
     data |-> data[tag[index]], base_addr |-> base_addr[tag[index]]]

ReadInit ==
    rd = [p \in Ports |-> [tag |-> UnallocatedTag, data_offset |-> Offset0, data_type |-> Type0,
                           data |-> Zero, base_addr |-> Addr0]]

GenRd(index) == rd' = [p \in Ports |-> Selected(index[p])]
=============================================================================
