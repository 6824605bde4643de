------------------------------ MODULE Assembler ------------------------------
(***************************************************************************)
(* The two-pass assembler.  A program is a sequence of parsed lines, the     *)
(* braces of a scoped block being lines of their own; a step visits one      *)
(* line.  Pass 0 builds the tree of scopes and the symbols, pass 1 walks the *)
(* tree again and prints.  Expressions are in the order in which the         *)
(* visitors evaluate them, operands before their operator.                   *)
(***************************************************************************)
EXTENDS Instructions, ScopedTable, SequencesExt

CONSTANT Programs   \* the programs to assemble
\* A program is a sequence of lines, and the grammar gives each closing brace its
\* opening one.
ASSUME BlocksAssumption ==
    \A p \in Programs :
        /\ p \in Seq({p[k] : k \in DOMAIN p})
        /\ \A n \in DOMAIN p :
               Cardinality({k \in 1 .. n : p[k].kind = "close"})
                   <= Cardinality({k \in 1 .. n : p[k].kind = "open"})
\* Its rule of the grammar gives a line its operands: registers or symbols to
\* instructions, and numbers, most often a single one, to lines that use them.
IsSeq(s) == s \in Seq({s[k] : k \in DOMAIN s})
ASSUME OperandsAssumption ==
    \A p \in Programs : \A i \in DOMAIN p :
        /\ IsSeq(p[i].regs) /\ IsSeq(p[i].exprs)
        /\ \A k \in DOMAIN p[i].exprs : IsSeq(p[i].exprs[k])
        /\ \A k \in DOMAIN p[i].regs : p[i].regs[k][1] \in {"reg", "ident"}
        /\ p[i].regs # <<>> => p[i].kind = "instruction"
        /\ p[i].exprs # <<>> =>
               p[i].kind \in {"equ", "org", "space", "db64", "db32", "db16", "db8", "instruction"}
        /\ p[i].kind \in {"equ", "org", "space"} => Len(p[i].exprs) = 1
        /\ p[i].kind = "instruction" => Len(p[i].exprs) <= 1

VARIABLES
    program,
    show_words,      \* the output is of words rather than of bytes
    pass,
    at,              \* the line to visit next
    curr_scope_node,
    scope_child_num, \* stack, its top last
    pc,              \* [prev, curr]
    out,             \* the lines printed
    warnings,        \* the lines warned of, and for what
    status,          \* "running", "done", or how the program stopped
    trace            \* history: what each pass met at each line

asmVars == <<program, show_words, pass, at, curr_scope_node, scope_child_num, pc,
             out, warnings, status, trace, scopeVars>>

Init ==
    /\ program \in Programs
    /\ show_words \in BOOLEAN
    /\ pass = 0
    /\ at = 1
    /\ ScopesInit
    /\ curr_scope_node = FirstScope
    /\ scope_child_num = <<0>>
    /\ pc = [prev |-> 0, curr |-> 0]
    /\ out = <<>>
    /\ warnings = {}
    /\ status = "running"
    /\ trace = [p \in 0 .. 1 |-> <<>>]

-----------------------------------------------------------------------------
(* Generating data.  What data prints are lines of text.                     *)

gen_8(data) == << <<"hex2", data % 2^8>> >>
gen_16(data) ==
    IF show_words THEN << <<"hex4", data % 2^16>> >>
    ELSE gen_8(get_bits_with_range(data, 15, 8)) \o gen_8(data)
gen_32(word) ==
    IF show_words THEN << <<"hex8", word>> >>
    ELSE gen_8(ByteOf(word, 3)) \o gen_8(ByteOf(word, 2))
         \o gen_8(ByteOf(word, 1)) \o gen_8(ByteOf(word, 0))

\* The place counter has been moved other than by generating.
has_changed == pc.prev # pc.curr

\* The place counter and the output after the text of so many bytes, which has its
\* address above it after a jump; the first pass only counts.
Generated(text, size) ==
    [prev |-> IF size = 0 THEN pc.prev ELSE pc.curr + size, curr |-> pc.curr + size,
     out |-> IF pass = 0 \/ size = 0 THEN out
             ELSE out \o (IF has_changed THEN << <<"@", pc.curr>> >> ELSE <<>>) \o text]
NothingGenerated == Generated(<<>>, 0)

-----------------------------------------------------------------------------
(* Expressions.                                                              *)

SymbolIn(node, name) ==
    IF find(node, name) = NotFound THEN NewSymbol ELSE table[find(node, name)]
\* Mutant: symbols are only looked up in the second pass.
get_sym_address_SecondPassOnly(name) ==
    [val |-> IF pass = 0 THEN 0 ELSE SymbolIn(curr_scope_node, name).addr,
     fault |-> IF pass = 1 /\ ~SymbolIn(curr_scope_node, name).found_as_label
               THEN "err" ELSE "none"]
\* A symbol that the first pass does not know yet is 0.
get_sym_address(name) ==
    [val |-> SymbolIn(curr_scope_node, name).addr,
     fault |-> IF pass = 1 /\ ~SymbolIn(curr_scope_node, name).found_as_label
               THEN "err" ELSE "none"]

Symbols(expr) == {token[2] : token \in {t \in ToSet(expr) : t[1] = "sym"}}
Mentions(line) ==
    (UNION {Symbols(line.exprs[k]) : k \in DOMAIN line.exprs})
    \cup {operand[2] : operand \in {o \in ToSet(line.regs) : o[1] = "ident"}}
\* What the symbols of the line being visited are.
Known == [n \in Mentions(program[at]) |-> get_sym_address(n).val]

get_aligned_to_next(v, amount) ==
    IF amount # 0 /\ v % 2^amount # 0 THEN clear_bits_with_range(v, amount - 1, 0) + 2^amount
    ELSE v

visitUnary(op, x) ==
    CASE op = "~" -> Invert(x) [] op = "-" -> -x [] op = "!" -> Truth(x = 0)

\* Both operands of && and || are always visited.
visitExpr(op, left, right) ==
    CASE op = "&&" -> Truth(left # 0 /\ right # 0) [] op = "||" -> Truth(left # 0 \/ right # 0)
visitExprLogical(op, left, right) ==
    CASE op = "==" -> Truth(left = right) [] op = "!=" -> Truth(left # right)
      [] op = "<" -> Truth(left < right) [] op = ">" -> Truth(left > right)
      [] op = "<=" -> Truth(left <= right) [] op = ">=" -> Truth(left >= right)
visitExprCompare(op, left, right) == IF op = "+" THEN left + right ELSE left - right
\* Shifts by 0 to 30 places.
visitExprAddSub(op, left, right) ==
    CASE op = "*" -> left * right
      [] op = "/" -> IF right = 0 THEN 0 ELSE Quotient(left, right)
      [] op = "%" -> IF right = 0 THEN 0 ELSE Remainder(left, right)
      [] op = "&" -> BitAnd(left, right)
      [] op = "|" -> BitOr(left, right)
      [] op = "^" -> BitXor(left, right)
      [] op = "<<" -> left * 2^right
      [] op = ">>" -> LogicalShiftRight(left, right)
      [] op = ">>>" -> ArithShiftRight(left, right)
visitExprDotAlign2(op, v, amount) ==
    IF op = ".align2next" THEN get_aligned_to_next(v, amount)
    ELSE IF amount = 0 THEN v ELSE clear_bits_with_range(v, amount - 1, 0)

\* Division by zero is only an error in the second pass; a remainder by zero
\* is a signal in either.
OperatorFault(op, right) ==
    CASE op = "/" /\ right = 0 /\ pass = 1 -> "err"
      [] op = "%" /\ right = 0 -> "crashed"
      [] OTHER -> "none"

visitBinary(op, left, right) ==
    CASE op \in {"&&", "||"} -> visitExpr(op, left, right)
      [] op \in {"==", "!=", "<", ">", "<=", ">="} -> visitExprLogical(op, left, right)
      [] op \in {"+", "-"} -> visitExprCompare(op, left, right)
      [] op \in {".align2curr", ".align2next"} -> visitExprDotAlign2(op, left, right)
      [] OTHER -> visitExprAddSub(op, left, right)

\* The stack of numbers after a visit, with the place counter and the symbols at
\* that moment.  What stops the program counts as 0, which nobody reads.
VisitToken(token, nums, here, syms) ==
    LET top == nums[Len(nums)]
        under == nums[Len(nums) - 1]
        Push(below, v) == Append(SubSeq(nums, 1, below), v)
    IN  CASE token[1] = "num" -> Push(Len(nums), token[2])
          [] token[1] = "binary literal" -> Push(Len(nums), 0)
          [] token[1] = "pc" -> Push(Len(nums), here)
          [] token[1] = "sym" -> Push(Len(nums), syms[token[2]])
          [] token[1] = "unary" -> Push(Len(nums) - 1, visitUnary(token[2], top))
          [] token[1] = "op" -> Push(Len(nums) - 2, visitBinary(token[2], under, top))
Stacks(expr, here, syms) ==
    LET upTo[k \in 0 .. Len(expr)] ==
            IF k = 0 THEN <<>> ELSE VisitToken(expr[k], upTo[k - 1], here, syms)
    IN  upTo
Evaluate(expr, here, syms) == Stacks(expr, here, syms)[Len(expr)][1]

\* How a visit stops the program.
TokenFault(token, nums) ==
    CASE token[1] = "binary literal" -> "err"
      [] token[1] = "sym" -> get_sym_address(token[2]).fault
      [] token[1] = "op" -> OperatorFault(token[2], nums[Len(nums)])
      [] OTHER -> "none"

\* The fault that comes first.
FirstFault(faults) ==
    LET bad == {k \in DOMAIN faults : faults[k] # "none"} IN
    IF bad = {} THEN "none" ELSE faults[Min(bad)]

-----------------------------------------------------------------------------
(* The operands of a line: registers or symbols, and expressions.            *)

\* The bytes that each number of a line of data takes.
Width(line) ==
    CASE line.kind = "db64" -> 8 [] line.kind = "db32" -> 4
      [] line.kind = "db16" -> 2 [] line.kind = "db8" -> 1 [] OTHER -> 0
IsCall(line) == line.kind = "instruction" /\ line.form \in Calls

\* The place counter when expression k of a line at an address is visited: 64- and
\* 32-bit numbers are generated one by one, and a call's first word before its operands.
Here(line, addr, k) ==
    CASE line.kind \in {"db64", "db32"} -> addr + Width(line) * (k - 1)
      [] IsCall(line) -> addr + 4
      [] OTHER -> addr

ValuesOf(line, addr, syms) ==
    [k \in DOMAIN line.exprs |-> Evaluate(line.exprs[k], Here(line, addr, k), syms)]

\* An operand that is a register or a symbol (visitRegOrIdentName).
Operand(operand) ==
    IF operand[1] = "reg" THEN reg_names_map[operand[2]] ELSE Known[operand[2]]
OperandFault(operand) ==
    IF operand[1] = "reg" THEN "none" ELSE get_sym_address(operand[2]).fault

-----------------------------------------------------------------------------
(* Lines.  A line has a kind, for instructions a form, and the name,         *)
(* registers and expressions that its rule of the grammar asks for.          *)

Line == program[at]
Values == ValuesOf(Line, pc.curr, Known)
ExprFault(k) ==
    LET nums == Stacks(Line.exprs[k], Here(Line, pc.curr, k), Known) IN
    FirstFault([t \in DOMAIN Line.exprs[k] |-> TokenFault(Line.exprs[k][t], nums[t - 1])])
\* How the line stops the program: its registers come first.
LineFault ==
    LET regs == FirstFault([k \in DOMAIN Line.regs |-> OperandFault(Line.regs[k])]) IN
    IF regs # "none" THEN regs ELSE FirstFault([k \in DOMAIN Line.exprs |-> ExprFault(k)])

Visiting(kind) ==
    /\ status = "running"
    /\ at <= Len(program)
    /\ Line.kind = kind

\* What the history keeps of a line: where it was visited, what its symbols
\* were then and the values of its expressions.
Met(values) ==
    [node |-> curr_scope_node, addr |-> pc.curr, values |-> values, syms |-> Known]

\* The visit of a line leaves g behind and goes on, unless something stopped it.
Ends(g, fault, values) ==
    /\ pc' = [prev |-> g.prev, curr |-> g.curr]
    /\ out' = g.out
    /\ status' = IF fault = "none" THEN status ELSE fault
    /\ at' = IF fault = "none" THEN at + 1 ELSE at
    /\ trace' = IF fault = "none" THEN [trace EXCEPT ![pass] = Append(@, Met(values))] ELSE trace
    /\ UNCHANGED <<program, show_words, pass>>

inScopes == <<curr_scope_node, scope_child_num>>

BlankLine ==
    /\ Visiting("blank")
    /\ Ends(NothingGenerated, "none", <<>>)
    /\ UNCHANGED <<inScopes, scopeVars, warnings>>

(* visitScopedLines, before and after its lines. *)
Top(stack) == stack[Len(stack)]
Push(stack, number) == Append(stack, number)
Pop(stack) == SubSeq(stack, 1, Len(stack) - 1)

OpenScope ==
    /\ Visiting("open")
    /\ IF pass = 0
       THEN /\ mkscope(curr_scope_node)
            /\ curr_scope_node' = NewChild(curr_scope_node)
            /\ UNCHANGED scope_child_num
            /\ Ends(NothingGenerated, "none", <<>>)
       ELSE LET number == Top(scope_child_num) IN
            /\ curr_scope_node' = Append(curr_scope_node, number)
            /\ scope_child_num' = Push(scope_child_num, 0)
            /\ UNCHANGED children
            /\ Ends(NothingGenerated,
                    IF HasChild(curr_scope_node, number) THEN "none" ELSE "out_of_range", <<>>)
    /\ UNCHANGED <<table, warnings>>

\* Mutant: a block that has ended is not counted.
NextChild_Same(stack) == stack
NextChild(stack) ==
    IF Len(stack) >= 1 THEN Push(Pop(stack), Top(stack) + 1) ELSE stack

CloseScope ==
    /\ Visiting("close")
    /\ curr_scope_node' = IF pass = 0 THEN rmscope(curr_scope_node) ELSE Parent(curr_scope_node)
    /\ scope_child_num' = IF pass = 0 THEN scope_child_num ELSE NextChild(Pop(scope_child_num))
    /\ Ends(NothingGenerated, "none", <<>>)
    /\ UNCHANGED <<scopeVars, warnings>>

(* Definitions of symbols. *)

\* Mutant: the check in both passes.
Duplicate_BothPasses(name) ==
    LET sym == find_in_this_blklev(curr_scope_node, name) IN
    sym # NotFound /\ table[sym].found_as_label
Duplicate(name) ==
    LET sym == find_in_this_blklev(curr_scope_node, name) IN
    sym # NotFound /\ pass = 0 /\ table[sym].found_as_label

Define(name, addr) == SetSymbol(curr_scope_node, name, [addr |-> addr, found_as_label |-> TRUE])

visitLabel ==
    /\ Visiting("label")
    /\ IF Duplicate(Line.name)
       THEN Ends(NothingGenerated, "err", <<>>) /\ UNCHANGED table
       ELSE Ends(NothingGenerated, "none", <<pc.curr>>) /\ Define(Line.name, pc.curr)
    /\ UNCHANGED <<inScopes, children, warnings>>

visitDotEquDirective ==
    /\ Visiting("equ")
    /\ LET fault == IF LineFault = "none" /\ Duplicate(Line.name) THEN "err" ELSE LineFault
       IN  /\ Ends(NothingGenerated, fault, Values)
           /\ IF fault = "none" THEN Define(Line.name, Values[1]) ELSE UNCHANGED table
    /\ UNCHANGED <<inScopes, children, warnings>>

(* Directives that move the place counter. *)

JumpsTo(addr) ==
    /\ Ends(IF LineFault = "none" THEN [NothingGenerated EXCEPT !.curr = addr]
            ELSE NothingGenerated, LineFault, Values)
    /\ UNCHANGED <<inScopes, scopeVars, warnings>>

visitDotOrgDirective == Visiting("org") /\ JumpsTo(Values[1])
visitDotSpaceDirective == Visiting("space") /\ JumpsTo(pc.curr + Values[1])
visitDotCodeAlignDirective ==
    Visiting("codealign") /\ JumpsTo(get_aligned_to_next(pc.curr, 2))
visitDotDataAlignDirective ==
    Visiting("dataalign") /\ JumpsTo(get_aligned_to_next(pc.curr, 5))

(* Data.  64- and 32-bit numbers are generated one by one, up to one that      *)
(* stops the program; of the smaller ones all are visited first.               *)

gen_64(v) ==
    IF show_words THEN gen_32(LowWord(v)) \o gen_32(HighWord(v))
    ELSE gen_32(HighWord(v)) \o gen_32(LowWord(v))

\* One number of a directive, of its size.
gen_number(kind, v) ==
    CASE kind = "db64" -> gen_64(v)
      [] kind = "db32" -> gen_32(LowWord(v))
      [] kind = "db16" -> gen_16(v)
      [] kind = "db8" -> gen_8(v)

OneByOne ==
    LET bad == {k \in DOMAIN Line.exprs : ExprFault(k) # "none"}
        generated == IF bad = {} THEN Len(Line.exprs) ELSE Min(bad) - 1
        text == FlattenSeq([k \in 1 .. generated |-> gen_number(Line.kind, Values[k])])
    IN  /\ Ends(Generated(text, Width(Line) * generated), LineFault, Values)
        /\ UNCHANGED <<inScopes, scopeVars, warnings>>

visitDotDb64Directive == Visiting("db64") /\ OneByOne
visitDotDb32Directive == Visiting("db32") /\ OneByOne

\* The word that two halves or four bytes fill, the first item lowest.
PackedWord(v) ==
    IF Len(v) = 2 THEN <<v[2] % 2^16, v[1] % 2^16>>
    ELSE <<Field(v[4], 8, 8) + Field(v[3], 8, 0), Field(v[2], 8, 8) + Field(v[1], 8, 0)>>

\* As many words as n items each fill, then what is left.
Packed(n) ==
    LET items == Len(Line.exprs)
        words == [k \in 1 .. items \div n |-> gen_32(PackedWord(SubSeq(Values, n * (k - 1) + 1, n * k)))]
        rest == [k \in 1 .. items % n |-> gen_number(Line.kind, Values[n * (items \div n) + k])]
        text == FlattenSeq(words \o rest)
    IN  /\ Ends(IF LineFault = "none" THEN Generated(text, Width(Line) * items)
                ELSE NothingGenerated, LineFault, Values)
        /\ UNCHANGED <<inScopes, scopeVars, warnings>>

visitDotDb16Directive == Visiting("db16") /\ Packed(2)
visitDotDb8Directive == Visiting("db8") /\ Packed(4)

(* Instructions and pseudo-instructions. *)

\* The names of registers that are visited, up to an operand that stops the program.
RegNames ==
    LET visited == {k \in DOMAIN Line.regs :
                        \A j \in 1 .. k - 1 : OperandFault(Line.regs[j]) = "none"}
    IN  {Line.regs[k][2] : k \in {j \in visited : Line.regs[j][1] = "reg"}}

visitInstruction ==
    /\ Visiting("instruction")
    /\ LET call == IF IsCall(Line) THEN gen_32(ReturnAddressToDlr) ELSE <<>>
           value == IF Line.exprs = <<>> THEN 0 ELSE Values[1]
           imm == Immediate(Line.form, value, Here(Line, pc.curr, 1))
           regs == [k \in DOMAIN Line.regs |-> Operand(Line.regs[k])]
           text == call \o gen_32(InstructionWord(Line.form, Line.name, regs, imm))
           before == IF IsCall(Line) THEN 4 ELSE 0
       IN  /\ Ends(IF LineFault = "none" THEN Generated(text, before + 4)
                   ELSE Generated(call, before), LineFault, Values)
           /\ warnings' = warnings \cup
                {w \in {<<at, "immediate">>, <<at, "register">>} :
                    /\ pass = 1
                    /\ \/ w[2] = "immediate" /\ LineFault = "none" /\ OutOfRange(Line.form, imm)
                       \/ w[2] = "register"
                          /\ \E n \in RegNames : SymbolIn(curr_scope_node, n).found_as_label}
    /\ IF pass = 1 THEN InsertMissing(curr_scope_node, RegNames) ELSE UNCHANGED table
    /\ UNCHANGED <<inScopes, children>>

(* The end of a pass. *)

NextPass ==
    /\ status = "running"
    /\ pass = 0
    /\ at > Len(program)
    /\ pass' = 1
    /\ at' = 1
    /\ pc' = [prev |-> 0, curr |-> 0]
    /\ curr_scope_node' = FirstScope
    /\ UNCHANGED <<program, show_words, scope_child_num, out, warnings, status, trace, scopeVars>>

Finish ==
    /\ status = "running"
    /\ pass = 1
    /\ at > Len(program)
    /\ status' = "done"
    /\ UNCHANGED <<program, show_words, pass, at, curr_scope_node, scope_child_num, pc,
                   out, warnings, trace, scopeVars>>

Next ==
    \/ BlankLine \/ OpenScope \/ CloseScope
    \/ visitLabel \/ visitDotEquDirective
    \/ visitDotOrgDirective \/ visitDotSpaceDirective
    \/ visitDotCodeAlignDirective \/ visitDotDataAlignDirective
    \/ visitDotDb64Directive \/ visitDotDb32Directive
    \/ visitDotDb16Directive \/ visitDotDb8Directive
    \/ visitInstruction
    \/ NextPass \/ Finish

Spec == Init /\ [][Next]_asmVars
=============================================================================
