----------------------------- MODULE FlatMemory -----------------------------
(***************************************************************************)
(* What the LAR file promises to the instructions that use it: memory is    *)
(* one array of lines, and a LAR that has executed a load or a store is a   *)
(* window on the line at its address.  Tags, reference counts, dirty flags, *)
(* write-backs and the latency of memory cannot be seen.                    *)
(***************************************************************************)
EXTENDS Naturals

CONSTANTS Lars, dzero, BaseAddr, Data, NoAddr

VARIABLES
    memory,   \* memory[a] is the line at a
    window    \* window[l] is the address LAR l looks at, or NoAddr

flatVars == <<memory, window>>

\* Before its first load or store a LAR has no window, and what a store then
\* writes is left open.
Values(l) == IF window[l] = NoAddr THEN Data ELSE {memory[window[l]]}

Init ==
    /\ memory \in [BaseAddr -> Data]
    /\ window = [l \in Lars |-> NoAddr]

\* A result is written through the window.
Write(l, d) ==
    /\ window[l] # NoAddr
    /\ memory' = [memory EXCEPT ![window[l]] = d]
    /\ UNCHANGED window

\* A load moves the window.
Ld(l, a) ==
    /\ window' = [window EXCEPT ![l] = a]
    /\ UNCHANGED memory

\* A store copies what the LAR shows to the new address and moves the window.
St(l, a) ==
    /\ \E d \in Values(l) : memory' = [memory EXCEPT ![a] = d]
    /\ window' = [window EXCEPT ![l] = a]

Next == \E l \in Lars \ {dzero} :
    \/ \E d \in Data : Write(l, d)
    \/ \E a \in BaseAddr : Ld(l, a) \/ St(l, a)

Spec == Init /\ [][Next]_flatVars
=============================================================================
