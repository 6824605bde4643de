---------------------------- MODULE AssemblerRules ----------------------------
(***************************************************************************)
(* What the assembler owes to the text of a program: the blocks, the         *)
(* definitions and their scopes are read off the lines here, with no tree,    *)
(* table or pass.                                                            *)
(***************************************************************************)
EXTENDS Assembler

Kinds == {"open", "close", "blank", "label", "equ", "org", "space", "codealign",
          "dataalign", "db64", "db32", "db16", "db8", "instruction"}

\* The blocks that line i is in, each named by the line that opens it; 0 is
\* the whole program.
Count(kind, i, j) == Cardinality({k \in i .. j : program[k].kind = kind})
Enclosing(i) ==
    {0} \cup {o \in 1 .. i - 1 :
                /\ program[o].kind = "open"
                /\ \A j \in o .. i - 1 : Count("open", o, j) > Count("close", o, j)}
Block(i) == CHOOSE b \in Enclosing(i) : \A c \in Enclosing(i) : c <= b

IsDefinition(d) == program[d].kind \in {"label", "equ"}
Definitions(name) == {d \in DOMAIN program : IsDefinition(d) /\ program[d].name = name}
Visible(i, name) == {d \in Definitions(name) : Block(d) \in Enclosing(i)}
\* The definition of a name that is innermost at line i.
Meaning(i, name) ==
    CHOOSE d \in Visible(i, name) : \A e \in Visible(i, name) : Block(e) <= Block(d)

\* A definition below an earlier one of the same name in a block around its own.
Captured(d) ==
    \E e \in Definitions(program[d].name) : e < d /\ Block(e) \in Enclosing(d) \ {Block(d)}
Uncaptured(name) == \A d \in Definitions(name) : ~Captured(d)

Duplicates ==
    {d \in DOMAIN program :
        /\ IsDefinition(d)
        /\ \E e \in Definitions(program[d].name) : e < d /\ Block(e) = Block(d)}

\* How many bytes a line takes, and the address below a line at an address with values.
Size(line) ==
    IF line.kind = "instruction" THEN (IF line.form \in Calls THEN 8 ELSE 4)
    ELSE Width(line) * Len(line.exprs)
After(line, addr, values) ==
    CASE line.kind = "org" -> values[1]
      [] line.kind = "space" -> addr + values[1]
      [] line.kind = "codealign" -> get_aligned_to_next(addr, 2)
      [] line.kind = "dataalign" -> get_aligned_to_next(addr, 5)
      [] OTHER -> addr + Size(line)
\* The address that a pass has reached, above line i.
Reached(p, i) ==
    IF i = 1 THEN 0 ELSE After(program[i - 1], trace[p][i - 1].addr, trace[p][i - 1].values)

\* The value of line i, if it has one, needs nothing that is defined below it.
Settled(i) ==
    \A n \in Mentions(program[i]) : Visible(i, n) # {} /\ Meaning(i, n) < i
LayoutKnown ==
    \A i \in DOMAIN program : program[i].kind \in {"org", "space", "equ"} => Settled(i)

-----------------------------------------------------------------------------

\* Types: the variables of the assembler and its symbol table, between any
\* two lines of either pass.
TypeOK ==
    /\ pass \in 0 .. 1
    /\ at \in 1 .. Len(program) + 1
    /\ program \in Programs
    /\ \A i \in DOMAIN program : program[i].kind \in Kinds
    /\ status \in {"running", "done", "err", "crashed"}
    /\ curr_scope_node \in DOMAIN children \ {tree}
    /\ Len(scope_child_num) = IF pass = 0 THEN 1 ELSE Len(curr_scope_node)
    /\ \A n \in DOMAIN children : \A k \in 0 .. children[n] - 1 : Append(n, k) \in DOMAIN children
    /\ \A k \in DOMAIN table : k[1] \in DOMAIN children \ {tree}
    /\ \A k \in DOMAIN table : table[k].addr \in Int /\ table[k].found_as_label \in BOOLEAN
    /\ pc.prev \in Int /\ pc.curr \in Int
    /\ warnings \subseteq (DOMAIN program) \X {"immediate", "register"}

\* The second pass visits each line in the scope where the first pass visited
\* it, and two lines share a scope if and only if they are in the same block:
\* the scopes are found again by counting the blocks that have ended
\* (visitScopedLines).
SecondPassReplaysScopes ==
    /\ \A i \in DOMAIN trace[1] : trace[1][i].node = trace[0][i].node
    /\ \A i, j \in DOMAIN trace[0] :
            trace[0][i].node = trace[0][j].node <=> Block(i) = Block(j)

\* When the layout needs no symbol before its definition, each line has the same
\* address in both passes: what the first pass has put into the symbol table is
\* where the second pass puts the code (visitLabel, get_sym_address).
PassesAgreeOnAddresses ==
    LayoutKnown => \A i \in DOMAIN trace[1] : trace[1][i].addr = trace[0][i].addr

\* A symbol stands for its innermost definition around the line that mentions
\* it, above or below that line, with the value that this definition has in
\* the output (ScopedTableBase::find through the tree of the first pass).  What
\* becomes of a name with a captured definition is left open; it harms no other.
ReferencesResolveLexically ==
    status = "done" /\ LayoutKnown =>
        \A i \in DOMAIN program : \A n \in Mentions(program[i]) :
            Uncaptured(n) => trace[1][i].syms[n] = trace[1][Meaning(i, n)].values[1]

\* The assembler stops with an error if and only if a symbol has no visible
\* definition or two in one block, an expression has a binary literal, or a
\* divisor is 0 in the second pass; and only a remainder whose divisor is 0,
\* or not known yet, kills it.  Left open, in either direction, is whether two
\* definitions in one block are accepted if the first has been taken for a
\* symbol of an outer block (visitLabel and its comment differ).
HasNoDefinition == \E i \in DOMAIN program : \E n \in Mentions(program[i]) : Visible(i, n) = {}
HasTwoDefinitions == Duplicates # {}
\* Two definitions in one block that are no matter of capture.
HasTwoOfItsOwn ==
    \E d \in Duplicates : \E e \in Definitions(program[d].name) :
        e < d /\ Block(e) = Block(d) /\ ~Captured(e)
HasBinaryLiteral ==
    \E i \in DOMAIN program : \E k \in DOMAIN program[i].exprs :
        \E t \in DOMAIN program[i].exprs[k] : program[i].exprs[k][t][1] = "binary literal"
Refusable == HasNoDefinition \/ HasTwoDefinitions \/ HasBinaryLiteral
MustBeRefused == HasNoDefinition \/ HasTwoOfItsOwn \/ HasBinaryLiteral
\* A line at an address, with symbols that have these values, has a divisor of 0.
DividesByZero(op, line, addr, syms) ==
    \E k \in DOMAIN line.exprs :
        LET expr == line.exprs[k]
            nums == Stacks(expr, Here(line, addr, k), syms)
        IN  \E t \in DOMAIN expr :
                expr[t][1] = "op" /\ expr[t][2] = op /\ nums[t - 1][Len(nums[t - 1])] = 0
StopsAtZero(op) == at \in DOMAIN program /\ DividesByZero(op, program[at], Reached(pass, at), Known)
RefusesExactlyBadPrograms ==
    /\ status = "err" => Refusable \/ (pass = 1 /\ StopsAtZero("/"))
    /\ status = "crashed" => StopsAtZero("%")
    /\ status = "done" =>
            /\ ~MustBeRefused
            /\ \A i \in DOMAIN program : \A op \in {"/", "%"} :
                    ~DividesByZero(op, program[i], trace[1][i].addr, trace[1][i].syms)
-----------------------------------------------------------------------------
(* Why the second pass finds the scopes again.                               *)

\* The scope of line i, once the first pass has come to it.
Scope(i) == IF i \in DOMAIN trace[0] THEN trace[0][i].node ELSE curr_scope_node
Seen == IF pass = 0 THEN at ELSE Len(program)

Opens(i) == program[i].kind = "open"
\* The lines above i that open a block directly in a scope; their number is what
\* the second pass counts on its stack.
OpenedIn(node, i) == {k \in 1 .. i - 1 : Opens(k) /\ Scope(k) = node}
\* The scope of the block that line i opens.
Entered(i) == Append(Scope(i), Cardinality(OpenedIn(Scope(i), i)))

\* What is visited is noted, and lies in the tree.
VisitsAreTraced ==
    /\ program \in Programs
    /\ pass \in 0 .. 1
    /\ trace = [p \in 0 .. 1 |-> trace[p]]
    /\ \A p \in 0 .. 1 : trace[p] = [i \in 1 .. Len(trace[p]) |-> trace[p][i]]
    /\ at = Len(trace[pass]) + 1
    /\ at \in 1 .. Len(program) + 1
    /\ IF pass = 0 THEN Len(trace[1]) = 0 ELSE Len(trace[0]) = Len(program)

TreeIsClosed ==
    /\ children \in [DOMAIN children -> Nat]
    /\ DOMAIN children \subseteq Seq(Nat)
    /\ {tree, FirstScope} \subseteq DOMAIN children
    /\ children[tree] = 1
    /\ \A n \in DOMAIN children : \A k \in 0 .. Len(n) : SubSeq(n, 1, k) \in DOMAIN children
    /\ \A n \in DOMAIN children : n # tree => n[Len(n)] < children[Parent(n)]
    /\ \A n \in DOMAIN children \ {tree} :
           children[n] = Cardinality(OpenedIn(n, Len(trace[0]) + 1))

\* From a line to the next, the scope is entered, left or kept.
LinesWalkTheTree ==
    /\ \A i \in 1 .. Seen : Scope(i) \in DOMAIN children \ {tree}
    /\ Seen >= 1 => Scope(1) = FirstScope
    /\ \A i \in 1 .. Seen - 1 :
           Scope(i + 1) = CASE Opens(i) -> Entered(i)
                            [] program[i].kind = "close" -> Parent(Scope(i))
                            [] OTHER -> Scope(i)

\* A scope is entered at one line and only seen below it.
ScopesAreFresh ==
    /\ \A n \in DOMAIN children : Len(n) > 1 =>
           \E o \in 1 .. Len(trace[0]) : Opens(o) /\ Entered(o) = n
    /\ \A o \in 1 .. Len(trace[0]) : Opens(o) =>
           \A i \in 1 .. o : ~IsPrefix(Entered(o), Scope(i))

\* How deep a line is, and in which blocks, the text says as well.
TextShowsTheTree ==
    /\ \A i \in 1 .. Seen : \A o \in 1 .. i :
           Count("open", o, i - 1) - Count("close", o, i - 1) = Len(Scope(i)) - Len(Scope(o))
    /\ \A i \in 1 .. Seen : \A o \in 1 .. i - 1 :
           Opens(o) => (o \in Enclosing(i) <=> IsPrefix(Entered(o), Scope(i)))

\* The second pass is where the first one was, and its stack has for each scope
\* that it is in the number of blocks that have ended there.
CountersFollow ==
    IF pass = 0 THEN scope_child_num = <<0>>
    ELSE /\ \A i \in 1 .. Len(trace[1]) : trace[1][i].node = Scope(i)
         /\ at <= Len(program) =>
                /\ curr_scope_node = Scope(at)
                /\ scope_child_num \in Seq(Nat)
                /\ Len(scope_child_num) = Len(curr_scope_node)
                /\ \A d \in 1 .. Len(curr_scope_node) :
                       scope_child_num[d] + (IF d < Len(curr_scope_node) THEN 1 ELSE 0)
                           = Cardinality(OpenedIn(SubSeq(curr_scope_node, 1, d), at))

\* The inductive invariant behind SecondPassReplaysScopes.
WalkInv ==
    /\ VisitsAreTraced
    /\ TreeIsClosed
    /\ LinesWalkTheTree
    /\ ScopesAreFresh
    /\ TextShowsTheTree
    /\ CountersFollow

-----------------------------------------------------------------------------
(* What the symbol table has in each scope.                                  *)

DefinedSoFar == {d \in DOMAIN trace[0] : IsDefinition(d)}
SymbolOf(d) == <<Scope(d), program[d].name>>
Labels == {k \in DOMAIN table : table[k].found_as_label}

\* The symbols found as labels are the definitions met by the first pass, each in the
\* scope of its own line, except those that an outer definition of their name has
\* captured; the others, for names of registers, come in the second pass where no
\* definition is visible.
TableHasDefinitions ==
    /\ Labels = {SymbolOf(d) : d \in {e \in DefinedSoFar : ~Captured(e)}}
    /\ \A k \in DOMAIN table \ Labels :
            /\ pass = 1
            /\ \A n \in 1 .. Len(k[1]) : <<SubSeq(k[1], 1, n), k[2]>> \notin Labels

\* No two definitions have one symbol, other than captured ones.
DefinitionsAreUnique ==
    \A d, e \in DefinedSoFar :
        ~Captured(d) /\ ~Captured(e) /\ SymbolOf(d) = SymbolOf(e) => d = e

\* In the second pass, a name at a line leads through the tree to a symbol that counts as
\* a label if and only if a definition is visible there, above the line or below it; and
\* to the symbol of the innermost one, unless one of this name is captured (find_or_insert).
NamesLeadToDefinitions ==
    pass = 1 =>
        \A i \in DOMAIN program : \A name \in Mentions(program[i]) :
            LET sym == find(Scope(i), name) IN
            /\ sym \in Labels <=> Visible(i, name) # {}
            /\ Uncaptured(name) /\ sym \in Labels => sym = SymbolOf(Meaning(i, name))

-----------------------------------------------------------------------------
(* What symbols are worth.                                                   *)

\* The symbol that definition d sets.
Target(d) == find(Scope(d), program[d].name)
\* Definition d is the last one above line i to set its symbol.
SetLast(d, i) ==
    /\ d \in 1 .. i - 1 /\ IsDefinition(d)
    /\ \A e \in d + 1 .. i - 1 : IsDefinition(e) => Target(e) # Target(d)
\* Above line i nothing sets a symbol, and of the whole program d does so last.
SetsFromBelow(d, i) ==
    /\ SetLast(d, Len(program) + 1)
    /\ \A e \in 1 .. i - 1 : IsDefinition(e) => Target(e) # Target(d)

\* A symbol is worth what the last definition of it has given to it, in this pass
\* or else in the first one.
SymbolsHaveLastValues ==
    /\ \A d \in 1 .. at - 1 : SetLast(d, at) => table[Target(d)].addr = trace[pass][d].values[1]
    /\ pass = 1 =>
          \A d \in DOMAIN program :
              SetsFromBelow(d, at) => table[Target(d)].addr = trace[0][d].values[1]

\* And so each line has met it.
LinesReadLastValues ==
    /\ \A p \in 0 .. 1 : \A i \in DOMAIN trace[p] : \A n \in Mentions(program[i]) :
          \A d \in 1 .. i - 1 :
              SetLast(d, i) /\ Target(d) = find(Scope(i), n) =>
                  trace[p][i].syms[n] = trace[p][d].values[1]
    /\ \A i \in DOMAIN trace[1] : \A n \in Mentions(program[i]) : \A d \in DOMAIN program :
          SetsFromBelow(d, i) /\ Target(d) = find(Scope(i), n) =>
              trace[1][i].syms[n] = trace[0][d].values[1]

\* Each line is at the address where the line above has ended, and lays out the program by
\* the values that its expressions have there.
LinesFollow ==
    /\ status = "running" /\ at <= Len(program) => pc.curr = Reached(pass, at)
    /\ \A p \in 0 .. 1 : \A i \in DOMAIN trace[p] :
          LET line == program[i]
              met == trace[p][i]
          IN  /\ met.addr = Reached(p, i)
              /\ met.syms = [n \in Mentions(line) |-> met.syms[n]]
              /\ line.kind = "label" => met.values = <<met.addr>>
              /\ line.kind \in {"equ", "org", "space"} =>
                     met.values = ValuesOf(line, met.addr, met.syms)

\* No line goes by with a fault; only the second pass knows all symbols and minds a
\* division by zero.
LinesAreFaultless ==
    /\ status = "done" => pass = 1 /\ Len(trace[1]) = Len(program)
    /\ \A p \in 0 .. 1 : \A i \in DOMAIN trace[p] :
          LET line == program[i]
              met == trace[p][i]
          IN  /\ \A k \in DOMAIN line.exprs : \A t \in DOMAIN line.exprs[k] :
                     line.exprs[k][t][1] # "binary literal"
              /\ ~DividesByZero("%", line, met.addr, met.syms)
              /\ p = 1 => /\ ~DividesByZero("/", line, met.addr, met.syms)
                          /\ \A n \in Mentions(line) : find(Scope(i), n) \in Labels

\* The inductive invariant behind PassesAgreeOnAddresses, ReferencesResolveLexically and
\* RefusesExactlyBadPrograms.
SymbolInv ==
    /\ TableHasDefinitions
    /\ DefinitionsAreUnique
    /\ SymbolsHaveLastValues
    /\ LinesReadLastValues
    /\ LinesFollow
    /\ LinesAreFaultless
=============================================================================
