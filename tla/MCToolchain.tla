------------------------------ MODULE MCToolchain ------------------------------
(***************************************************************************)
(* Programs for AssemblerRules and ToolchainRules.  Every program of up to    *)
(* five lines from a menu in which blocks open and close, two symbols are     *)
(* defined, mentioned before or after, and used to move the place counter;    *)
(* and programs that together use every form of instruction, every directive  *)
(* and operator, and layouts that the tools read well or badly.               *)
(***************************************************************************)
EXTENDS ToolchainRules

Stmt(kind, name, exprs) ==
    [kind |-> kind, form |-> "none", name |-> name, regs |-> <<>>, exprs |-> exprs]
Sym(n) == << <<"sym", n>> >>
Plus(e, v) == e \o << <<"num", v>>, <<"op", "+">> >>

Open == Stmt("open", "none", <<>>)
Close == Stmt("close", "none", <<>>)
Menu ==
    {Open, Close, Stmt("label", "a", <<>>), Stmt("equ", "b", <<Plus(Sym("a"), 4)>>),
     Stmt("label", "b", <<>>), Stmt("db32", "none", <<Sym("a")>>),
     Stmt("org", "none", <<Plus(Sym("b"), 8)>>)}

Balanced(p) ==
    \A n \in 1 .. Len(p) :
        LET opened == Cardinality({k \in 1 .. n : p[k] = Open})
            closed == Cardinality({k \in 1 .. n : p[k] = Close})
        IN  IF n = Len(p) THEN opened = closed ELSE opened >= closed

\* Longer ones: blocks side by side and inside each other, a definition below
\* a block that has mentioned it, a symbol taken for one of an outer block.
A == Stmt("label", "a", <<>>)
UseA == Stmt("db32", "none", <<Sym("a")>>)
Rest == Stmt("db8", "none", << << <<"num", 7>>, <<"sym", "a">>, <<"op", "%">> >> >>)

\* Lines of every size before the symbols they mention.
DataOf(kind) == Stmt(kind, "none", <<Sym("a"), Sym("a"), Sym("a")>>)
Call == [Stmt("instruction", "bl", <<Sym("a")>>) EXCEPT !.form = "BlOneSimm20"]
Sized ==
    <<DataOf("db8"), Stmt("codealign", "none", <<>>), Call, DataOf("db16"), Open,
      Stmt("dataalign", "none", <<>>), DataOf("db64"), Stmt("blank", "none", <<>>),
      Stmt("space", "none", <<Sym("b")>>), Stmt("label", "b", <<>>), A, Close>>

LongPrograms ==
    {<<Open, A, UseA, Open, A, UseA, Close, Close, Open, A, UseA, Close, A, UseA>>,
     <<Open, Open, UseA, Close, Open, A, UseA, Close, A, UseA, Close, A>>,
     <<Open, Close, Open, UseA, Open, A, UseA, Close, Close, UseA, A>>,
     <<A, UseA, Open, A, UseA, A, UseA, Close, UseA>>,
     <<UseA, A, Rest>>, <<Rest, UseA, A>>, <<A, Rest>>,
     Sized \o <<A, Call>>,
     <<Stmt("label", "b", <<>>), A>> \o Sized,
     <<Stmt("equ", "b", << << <<"num", 5>> >> >>)>> \o Sized \o <<A>>}

ScopePrograms ==
    {p \in UNION {[1 .. n -> Menu] : n \in 1 .. 5} : Balanced(p)} \cup LongPrograms

-----------------------------------------------------------------------------
Num(v) == << <<"num", v>> >>
Pc == << <<"pc", 0>> >>
Un(op, e) == e \o << <<"unary", op>> >>
Op(l, op, r) == l \o r \o << <<"op", op>> >>
Regs(names) == [k \in DOMAIN names |-> <<"reg", names[k]>>]

Line0(kind, form, name, regs, exprs) ==
    [kind |-> kind, form |-> form, name |-> name, regs |-> regs, exprs |-> exprs]
D(kind, exprs) == Line0(kind, "none", "none", <<>>, exprs)
Label(n) == Line0("label", "none", n, <<>>, <<>>)
Equ(n, e) == Line0("equ", "none", n, <<>>, <<e>>)
Org(v) == D("org", <<Num(v)>>)
I(form, name, regs, exprs) == Line0("instruction", form, name, Regs(regs), exprs)

\* One line for each mnemonic of a table.
All(map, form, regs, exprs) ==
    LET first == CHOOSE v \in Numbers(map) : \A w \in Numbers(map) : v <= w
    IN  [k \in 1 .. Cardinality(DOMAIN map) |->
            I(form, NameOf(map, first + k - 1), regs, exprs)]

Scalar ==
    All(iog0_three_regs_scalar_map, "Grp0ThreeRegsScalar", <<"du1", "dsp", "dlr">>, <<>>)
    \o All(iog0_two_regs_scalar_map, "Grp0TwoRegsScalar", <<"dfp", "du7">>, <<>>)
    \o <<I("Grp0OneRegOnePcOneSimm12Scalar", "addis", <<"du11">>, <<Num(-5)>>),
         I("Grp0TwoRegsOneSimm12Scalar", "addis", <<"du2", "du3">>, <<Num(2047)>>)>>
Vector ==
    All(iog0_three_regs_vector_map, "Grp0ThreeRegsVector", <<"du8", "du9", "du10">>, <<>>)
    \o All(iog0_two_regs_vector_map, "Grp0TwoRegsVector", <<"dzero", "du6">>, <<>>)
    \o <<I("Grp0OneRegOnePcOneSimm12Vector", "addiv", <<"du4">>, <<Num(-2048)>>),
         I("Grp0TwoRegsOneSimm12Vector", "addiv", <<"du5", "du0">>, <<Un("-", Num(1))>>)>>
Memory ==
    All(iog2_ld_three_regs_one_simm12_map, "Grp2LdThreeRegsOneSimm12",
        <<"du1", "du2", "du3">>, <<Num(-1)>>)
    \o All(iog3_st_three_regs_one_simm12_map, "Grp3StThreeRegsOneSimm12",
           <<"dlr", "dfp", "dsp">>, <<Num(3)>>)
Syscall ==
    <<I("Grp0ThreeRegsOneSimm12", "sim_syscall", <<"du1", "du2", "du3">>, <<Num(4)>>),
      I("Grp0SimSyscall", "sysc_disp_regs", <<"du4", "du5", "du6">>, <<>>),
      I("Grp0SimSyscall", "sysc_disp_ddest_vector_data", <<"du1">>, <<>>),
      I("Grp0SimSyscall", "sysc_disp_ddest_scalar_data", <<"du2">>, <<>>),
      I("Grp0SimSyscall", "sysc_disp_ddest_addr", <<"du3">>, <<>>),
      I("Grp0SimSyscall", "sysc_finish", <<>>, <<>>)>>
\* Branches both ways, some farther than 16 bits reach, in and out of a block.
Control(far) ==
    <<Label("start"), I("Grp1RelBranch", "bnz", <<"du3">>, <<Sym("end")>>),
      I("BlOneSimm20", "bl", <<>>, <<Sym("end")>>), I("JlOneReg", "jl", <<"du9">>, <<>>),
      D("open", <<>>), Label("end"),
      I("BraOneSimm20", "bra", <<>>, <<Sym("end")>>),
      I("PcrelScalar", "pcrels", <<"du1">>, <<Sym("end")>>), D("close", <<>>),
      I("PcrelVector", "pcrelv", <<"du2">>, <<Sym("start")>>),
      I("CpysTwoRegs", "cpys", <<"du4", "du5">>, <<>>),
      I("CpyisOneRegOneSimm12", "cpyis", <<"du6">>, <<Num(-7)>>),
      I("Grp1Jump", "jmp", <<"dlr">>, <<>>), Org(far),
      Label("end"), I("Grp1RelBranch", "bzo", <<"dlr">>, <<Sym("start")>>)>>
OutOfReach ==
    <<I("CpyisOneRegOneSimm12", "cpyis", <<"du6">>, <<Num(5000)>>),
      I("Grp2LdThreeRegsOneSimm12", "lds8", <<"du6", "du1", "du2">>, <<Num(2048)>>)>>

\* Data of every size, with items left over, below blank lines and gaps.
Data1 ==
    <<D("db64", <<Num(-1), Num(2147483647), Pc>>), D("db32", <<Num(-2), Pc, Pc>>),
      D("db16", <<Num(1), Num(65535), Num(258)>>), D("dataalign", <<>>),
      D("blank", <<>>), Label("bytes"),
      D("db8", <<Num(1), Num(2), Num(255), Num(-128), Num(5), Num(6), Num(7), Num(8), Num(9)>>),
      D("codealign", <<>>), D("db32", <<Sym("bytes")>>), D("space", <<Num(40)>>),
      D("db16", <<Num(-3), Num(4)>>)>>
\* Later lines over earlier ones, and words out of order.
Overlaid ==
    <<Org(64), D("db32", <<Num(-1), Num(-1)>>), Org(65), D("db8", <<Num(1), Num(255)>>),
      D("db8", <<Num(170)>>), Org(66), D("db16", <<Num(4660)>>), Org(16), D("db32", <<Num(7)>>),
      Org(128), D("db32", <<Num(8)>>), Org(32), D("db8", <<Num(9)>>)>>
Operators ==
    LET e == <<Op(Num(7), "*", Num(-3)), Op(Num(-7), "/", Num(2)), Op(Num(-7), "%", Num(2)),
               Op(Num(12), "&", Num(-6)), Op(Num(12), "|", Num(-3)), Op(Num(12), "^", Num(10)),
               Op(Num(5), "<<", Num(3)), Op(Num(100), ">>", Num(3)), Op(Num(-100), ">>>", Num(3)),
               Op(Num(2), "-", Num(9)), Un("~", Num(0)), Un("!", Num(0)),
               Op(Num(1), "&&", Num(0)), Op(Num(1), "||", Num(0)), Op(Num(1), "==", Num(1)),
               Op(Num(1), "!=", Num(1)), Op(Num(1), "<", Num(2)), Op(Num(1), ">", Num(2)),
               Op(Num(1), "<=", Num(2)), Op(Num(1), ">=", Num(2)),
               Op(Num(19), ".align2next", Num(3)), Op(Num(19), ".align2curr", Num(3))>>
    IN  <<D("db32", e), D("db8", SubSeq(e, 10, 20))>>
\* Words that are no instruction, in the last 16 bits or the upper ones.
NoInstruction == <<D("db32", <<Num(61440), Num(540016640), Num(1073778688), Num(-1)>>)>>

MCPrograms == ScopePrograms \cup
    {Scalar, Vector, Memory, Syscall, Control(131072), Control(256),
     OutOfReach \o <<I("BraOneSimm20", "bra", <<>>, <<Num(1048576)>>)>>,
     Data1, Overlaid, Operators, NoInstruction, <<>>,
     <<Org(32)>> \o OutOfReach, <<Org(8), D("db8", <<Num(1)>>)>>,
     <<D("db8", <<Num(3)>>), D("db32", <<Num(4)>>)>>,
     <<Label("du1"), Equ("k", Num(21)),
       [I("Grp0TwoRegsScalar", "invs", <<"du1", "du2">>, <<>>) EXCEPT !.regs[2] = <<"ident", "k">>]>>,
     <<D("db32", << << <<"binary literal", 0>> >> >>)>>,
     <<D("db8", <<Op(Num(1), "/", Sym("z"))>>), Equ("z", Num(0))>>,
     <<D("db8", <<Op(Num(1), "%", Num(0))>>)>>, <<D("db8", <<Sym("nowhere")>>)>>}
=============================================================================
