---------------------------- MODULE MCExecuteUnits ----------------------------
(* Model checking ExecuteUnits: programs of any two of the instructions below in *)
(* any order and number, and of some three of them; dividers of three bits.     *)
EXTENDS ExecuteUnits

Alu(op_type, oper, dst, src) ==
    [kind |-> "alu", op_type |-> op_type, oper |-> oper, dst |-> dst, src |-> src]
Other(kind, oper, dst, src) ==
    [kind |-> kind, op_type |-> "Scalar", oper |-> oper, dst |-> dst, src |-> src]

\* Each cast, of the first, the second or both operands.
ScalarCasts == {
    Alu("Scalar", "And_ThreeRegs", "Int16", <<"BFloat16", "Int8">>),
    Alu("Scalar", "Mul_ThreeRegs", "Int16", <<"BFloat16", "BFloat16">>),
    Alu("Scalar", "Sub_ThreeRegs", "BFloat16", <<"Int8", "BFloat16">>),
    Alu("Scalar", "Mul_ThreeRegs", "BFloat16", <<"BFloat16", "Int32">>),
    Alu("Scalar", "Add_ThreeRegs", "BFloat16", <<"Int8", "Int16">>),
    Alu("Scalar", "Mul_ThreeRegs", "Int64", <<"Int32", "Int64">>)}
VectorCasts == {
    Alu("Vector", "Mul_ThreeRegs", "BFloat16", <<"Int16", "BFloat16">>),
    Alu("Vector", "Slt_ThreeRegs", "BFloat16", <<"Int16", "Int16">>),
    Alu("Vector", "Mul_ThreeRegs", "Int32", <<"Int32", "BFloat16">>),
    Alu("Vector", "Orr_ThreeRegs", "Int16", <<"BFloat16", "BFloat16">>),
    Alu("Vector", "Add_ThreeRegs", "Int16", <<"Int8", "Int16">>)}

\* Every unit, without casts.
Operations == {
    Alu("Scalar", "Add_ThreeRegs", "Int16", <<"Int16", "dzero">>),
    Alu("Vector", "Mul_ThreeRegs", "Int8", <<"Int8", "Int8">>),
    Alu("Vector", "Mul_ThreeRegs", "Int64", <<"Int64", "Int64">>),
    Alu("Scalar", "Div_ThreeRegs", "Int16", <<"BFloat16", "Int64">>),
    Alu("Vector", "Addi_OneRegOnePcOneSimm12", "BFloat16", <<"Int8", "Int8">>),
    Alu("Vector", "Slt_ThreeRegs", "BFloat16", <<"BFloat16", "BFloat16">>),
    Alu("Vector", "Div_ThreeRegs", "BFloat16", <<"BFloat16", "BFloat16">>),
    Alu("Vector", "And_ThreeRegs", "BFloat16", <<"BFloat16", "BFloat16">>),
    Other("nop", "Add_ThreeRegs", "BFloat16", <<"dzero", "dzero">>)}

\* Instructions that leave casts behind.
Leavers == {
    Other("sim", "SimSyscall_ThreeRegsOneSimm12", "BFloat16", <<"Int8", "Int8">>),
    Other("ctrl", "Bnz_OneRegOneSimm20", "Int8", <<"BFloat16", "Int16">>),
    Other("ldst", "LdF16", "BFloat16", <<"Int64", "BFloat16">>)}

Instrs == ScalarCasts \cup VectorCasts \cup Operations \cup Leavers

MCMenus ==
    {{i, j} : i \in Instrs, j \in Instrs} \cup
    {{i, j, k} : i \in ScalarCasts, j \in VectorCasts, k \in Operations \cup Leavers}
=============================================================================
