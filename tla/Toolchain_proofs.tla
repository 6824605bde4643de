--------------------------- MODULE Toolchain_proofs ---------------------------
(***************************************************************************)
(* Proofs about the tool chain: that for every program the second pass of the *)
(* assembler finds the scopes of the first, the symbols, their values and the *)
(* addresses of the lines, and that programs are refused for the faults of    *)
(* their text only; and that the CPU and the disassembler read in an          *)
(* instruction word what the assembler put there, for every register, opcode  *)
(* and immediate.                                                             *)
(***************************************************************************)
EXTENDS ToolchainRules, FiniteSetTheorems, WellFoundedInduction, TLAPS

-----------------------------------------------------------------------------
(* Nodes of the tree *)

Node == Seq(Nat)

LEMMA NodesAreEqual ==
    ASSUME NEW s \in Node, NEW t \in Node, Len(s) = Len(t), \A k \in 1 .. Len(s) : s[k] = t[k]
    PROVE  s = t
  BY DEF Node

LEMMA PrefixIs ==
    ASSUME NEW m \in Node, NEW n \in Node
    PROVE  IsPrefix(m, n) <=> Len(m) <= Len(n) /\ \A k \in 1 .. Len(m) : m[k] = n[k]
<1>1. ASSUME Len(m) <= Len(n)
      PROVE  /\ SubSeq(m, 1, Len(m)) \in Node /\ Len(SubSeq(m, 1, Len(m))) = Len(m)
             /\ \A k \in 1 .. Len(m) : SubSeq(m, 1, Len(m))[k] = m[k]
             /\ SubSeq(n, 1, Len(m)) \in Node /\ Len(SubSeq(n, 1, Len(m))) = Len(m)
             /\ \A k \in 1 .. Len(m) : SubSeq(n, 1, Len(m))[k] = n[k]
  BY <1>1 DEF Node
<1>2. QED
  BY <1>1, NodesAreEqual DEF IsPrefix

LEMMA ChildIs ==
    ASSUME NEW n \in Node, NEW c \in Nat
    PROVE  /\ Append(n, c) \in Node
           /\ Len(Append(n, c)) = Len(n) + 1
           /\ Append(n, c)[Len(n) + 1] = c
           /\ \A k \in 1 .. Len(n) : Append(n, c)[k] = n[k]
  BY DEF Node

LEMMA ParentIs ==
    ASSUME NEW n \in Node, n # tree
    PROVE  /\ Len(n) \in Nat \ {0}
           /\ Parent(n) \in Node
           /\ Len(Parent(n)) = Len(n) - 1
           /\ \A k \in 1 .. Len(n) - 1 : Parent(n)[k] = n[k]
           /\ n[Len(n)] \in Nat
<1>1. Len(n) \in Nat /\ Len(n) # 0
  BY DEF Node, tree
<1>2. SubSeq(n, 1, Len(n) - 1) \in Seq(Nat)
  BY <1>1 DEF Node
<1>3. Len(SubSeq(n, 1, Len(n) - 1)) = Len(n) - 1
  BY <1>1 DEF Node
<1>4. \A k \in 1 .. Len(n) - 1 : SubSeq(n, 1, Len(n) - 1)[k] = n[k]
  BY <1>1 DEF Node
<1>5. n[Len(n)] \in Nat
  BY <1>1 DEF Node
<1>6. QED
  BY <1>1, <1>2, <1>3, <1>4, <1>5 DEF Node, Parent

LEMMA ParentOfChild ==
    ASSUME NEW n \in Node, NEW c \in Nat
    PROVE  Parent(Append(n, c)) = n /\ Append(n, c) # tree
<1> DEFINE child == Append(n, c)
<1>1. /\ child \in Node /\ Len(n) \in Nat /\ Len(child) = Len(n) + 1
      /\ \A k \in 1 .. Len(n) : child[k] = n[k]
  BY ChildIs DEF Node
<1>2. child # tree
  BY <1>1, SMTT(60) DEF tree
<1> HIDE DEF child
<1>3. /\ Parent(child) \in Node /\ Len(Parent(child)) = Len(n)
      /\ \A k \in 1 .. Len(n) : Parent(child)[k] = n[k]
  BY <1>1, <1>2, ParentIs
<1>4. Parent(child) = n
  BY <1>1, <1>3, NodesAreEqual
<1>5. QED
  BY <1>2, <1>4 DEF child

\* The nodes above a child are those above its parent, and the child.
LEMMA PrefixOfChild ==
    ASSUME NEW m \in Node, NEW n \in Node, NEW c \in Nat
    PROVE  IsPrefix(m, Append(n, c)) <=> IsPrefix(m, n) \/ m = Append(n, c)
<1> DEFINE child == Append(n, c)
<1>1. /\ child \in Node /\ Len(m) \in Nat /\ Len(n) \in Nat /\ Len(child) = Len(n) + 1
      /\ \A k \in 1 .. Len(n) : child[k] = n[k]
  BY ChildIs DEF Node
<1> HIDE DEF child
<1>2. /\ IsPrefix(m, child) <=> Len(m) <= Len(child) /\ \A k \in 1 .. Len(m) : m[k] = child[k]
      /\ IsPrefix(m, n) <=> Len(m) <= Len(n) /\ \A k \in 1 .. Len(m) : m[k] = n[k]
  BY <1>1, PrefixIs
<1>3. CASE Len(m) = Len(n) + 1
  <2>1. m = child <=> \A k \in 1 .. Len(m) : m[k] = child[k]
    BY <1>1, <1>3, NodesAreEqual
  <2>2. QED
    BY <1>1, <1>2, <1>3, <2>1 DEF child
<1>4. CASE Len(m) # Len(n) + 1
  BY <1>1, <1>2, <1>4 DEF child
<1>5. QED
  BY <1>3, <1>4

\* The nodes above a parent are those above its child, but for the child.
LEMMA PrefixOfParent ==
    ASSUME NEW m \in Node, NEW n \in Node, n # tree
    PROVE  IsPrefix(m, Parent(n)) <=> IsPrefix(m, n) /\ Len(m) < Len(n)
<1>1. Len(m) \in Nat
  BY DEF Node
<1>2. QED
  BY <1>1, ParentIs, PrefixIs

LEMMA PrefixOfItself ==
    ASSUME NEW n \in Node
    PROVE  IsPrefix(n, n)
<1>1. Len(n) \in Nat
  BY DEF Node
<1>2. QED
  BY <1>1, PrefixIs

-----------------------------------------------------------------------------
(* Counting lines *)

LEMMA OpenedCounts ==
    ASSUME NEW n, NEW i \in Nat \ {0}
    PROVE  /\ Cardinality(OpenedIn(n, i)) \in Nat
           /\ Cardinality(OpenedIn(n, i + 1))
                = Cardinality(OpenedIn(n, i)) + (IF Opens(i) /\ Scope(i) = n THEN 1 ELSE 0)
           /\ Cardinality(OpenedIn(n, 1)) = 0
<1>1. IsFiniteSet(OpenedIn(n, i))
  <2>1. IsFiniteSet(1 .. i - 1)
    BY FS_Interval
  <2>2. OpenedIn(n, i) \in SUBSET (1 .. i - 1)
    BY DEF OpenedIn
  <2>3. QED
    BY <2>1, <2>2, FS_Subset
<1>2. Cardinality(OpenedIn(n, i)) \in Nat
  BY <1>1, FS_CardinalityType
<1>3. OpenedIn(n, i + 1) = IF Opens(i) /\ Scope(i) = n THEN OpenedIn(n, i) \cup {i} ELSE OpenedIn(n, i)
  BY DEF OpenedIn
<1>4. i \notin OpenedIn(n, i)
  BY DEF OpenedIn
<1>5. Cardinality(OpenedIn(n, i) \cup {i}) = Cardinality(OpenedIn(n, i)) + 1
  BY <1>1, <1>4, FS_AddElement
<1>6. OpenedIn(n, 1) = {}
  BY DEF OpenedIn
<1>7. Cardinality(OpenedIn(n, 1)) = 0
  BY <1>6, FS_EmptySet
<1>8. CASE Opens(i) /\ Scope(i) = n
  BY <1>2, <1>3, <1>5, <1>7, <1>8
<1>9. CASE ~(Opens(i) /\ Scope(i) = n)
  BY <1>2, <1>3, <1>7, <1>9
<1>10. QED
  BY <1>8, <1>9

LEMMA CountIs ==
    ASSUME NEW kind, NEW i \in Nat \ {0}, NEW j \in Nat, i <= j + 1
    PROVE  /\ Count(kind, i, j) \in Nat
           /\ Count(kind, i, j + 1) = Count(kind, i, j) + (IF program[j + 1].kind = kind THEN 1 ELSE 0)
           /\ i = j + 1 => Count(kind, i, j) = 0
<1> DEFINE lines == {k \in i .. j : program[k].kind = kind}
           more == {k \in i .. j + 1 : program[k].kind = kind}
<1>1. IsFiniteSet(lines)
  <2>1. IsFiniteSet(i .. j)
    BY FS_Interval
  <2>2. lines \in SUBSET (i .. j)
    OBVIOUS
  <2>3. QED
    BY <2>1, <2>2, FS_Subset
<1>2. more = IF program[j + 1].kind = kind THEN lines \cup {j + 1} ELSE lines
  OBVIOUS
<1>3. j + 1 \notin lines
  OBVIOUS
<1>4. i = j + 1 => lines = {}
  OBVIOUS
<1>5. Count(kind, i, j) = Cardinality(lines) /\ Count(kind, i, j + 1) = Cardinality(more)
  BY DEF Count
<1> HIDE DEF lines, more
<1>6. Cardinality(lines) \in Nat /\ Cardinality(lines \cup {j + 1}) = Cardinality(lines) + 1
  BY <1>1, <1>3, FS_CardinalityType, FS_AddElement
<1>7. i = j + 1 => Cardinality(lines) = 0
  BY <1>4, FS_EmptySet
<1>8. CASE program[j + 1].kind = kind
  BY <1>2, <1>5, <1>6, <1>7, <1>8
<1>9. CASE program[j + 1].kind # kind
  BY <1>2, <1>5, <1>6, <1>7, <1>9
<1>10. QED
  BY <1>8, <1>9

\* What BlocksAssumption says of the program that is assembled.
LEMMA ProgramIs ==
    ASSUME program \in Programs
    PROVE  /\ Len(program) \in Nat
           /\ DOMAIN program = 1 .. Len(program)
           /\ \A n \in 1 .. Len(program) : Count("close", 1, n) <= Count("open", 1, n)
<1>1. program \in Seq({program[k] : k \in DOMAIN program})
  BY BlocksAssumption
<1>2. Len(program) \in Nat /\ DOMAIN program = 1 .. Len(program)
  BY <1>1
<1>3. QED
  BY <1>2, BlocksAssumption DEF Count

-----------------------------------------------------------------------------
(* What a step does to the walk *)

\* A line is left behind, and its scope noted.
Noted ==
    /\ UNCHANGED <<program, pass>>
    /\ at \in 1 .. Len(program)
    /\ at' = at + 1
    /\ \E values : trace' = [trace EXCEPT ![pass] = Append(trace[pass], Met(values))]

Stays == UNCHANGED <<program, pass, at, trace, children, inScopes>>
Keeps ==
    /\ Noted
    /\ program[at].kind \notin {"open", "close"}
    /\ UNCHANGED <<children, inScopes>>
Enters ==
    /\ Noted
    /\ program[at].kind = "open"
    /\ pass = 0
    /\ mkscope(curr_scope_node)
    /\ curr_scope_node' = NewChild(curr_scope_node)
    /\ UNCHANGED scope_child_num
EntersAgain ==
    /\ UNCHANGED <<program, pass, children>>
    /\ at \in 1 .. Len(program)
    /\ program[at].kind = "open"
    /\ pass # 0
    /\ curr_scope_node' = Append(curr_scope_node, Top(scope_child_num))
    /\ scope_child_num' = Push(scope_child_num, 0)
    /\ IF HasChild(curr_scope_node, Top(scope_child_num)) THEN Noted
       ELSE UNCHANGED <<at, trace>>
Leaves ==
    /\ Noted
    /\ program[at].kind = "close"
    /\ UNCHANGED children
    /\ curr_scope_node' = Parent(curr_scope_node)
    /\ scope_child_num' = IF pass = 0 THEN scope_child_num ELSE NextChild(Pop(scope_child_num))

LEMMA LineEnds ==
    ASSUME NEW g, NEW fault, NEW values, Ends(g, fault, values), at \in 1 .. Len(program)
    PROVE  IF fault = "none" THEN Noted ELSE UNCHANGED <<program, pass, at, trace>>
  BY DEF Ends, Noted

LEMMA StepIs ==
    ASSUME at \in 1 .. Len(program) + 1, Len(program) \in Nat, Next
    PROVE  Stays \/ Keeps \/ Enters \/ EntersAgain \/ Leaves \/ NextPass
<1>1. ASSUME NEW kind, Visiting(kind)
      PROVE  at \in 1 .. Len(program) /\ program[at].kind = kind
  BY <1>1 DEF Visiting, Line
<1>2. ASSUME at \in 1 .. Len(program), program[at].kind \notin {"open", "close"},
             NEW g, NEW fault, NEW values, Ends(g, fault, values), UNCHANGED <<children, inScopes>>
      PROVE  Stays \/ Keeps
  <2>1. CASE fault = "none"
    BY <1>2, <2>1, LineEnds DEF Keeps
  <2>2. CASE fault # "none"
    BY <1>2, <2>2, LineEnds DEF Stays
  <2>3. QED
    BY <2>1, <2>2
<1>3. CASE BlankLine
  BY <1>1, <1>2, <1>3 DEF BlankLine, scopeVars
<1>4. CASE OpenScope
  <2>1. at \in 1 .. Len(program) /\ program[at].kind = "open"
    BY <1>1, <1>4 DEF OpenScope
  <2>2. CASE pass = 0
    <3>1. Ends(NothingGenerated, "none", <<>>)
      BY <1>4, <2>2 DEF OpenScope
    <3>2. Noted
      BY <2>1, <3>1, LineEnds
    <3>3. QED
      BY <1>4, <2>1, <2>2, <3>2 DEF OpenScope, Enters
  <2>3. CASE pass # 0
    <3>1. Ends(NothingGenerated,
               IF HasChild(curr_scope_node, Top(scope_child_num)) THEN "none" ELSE "out_of_range",
               <<>>)
      BY <1>4, <2>3 DEF OpenScope
    <3>2. IF HasChild(curr_scope_node, Top(scope_child_num)) THEN Noted
          ELSE UNCHANGED <<program, pass, at, trace>>
      BY <2>1, <3>1, LineEnds
    <3>3. UNCHANGED <<program, pass>>
      BY <3>2 DEF Noted
    <3>4. QED
      BY <1>4, <2>1, <2>3, <3>2, <3>3 DEF OpenScope, EntersAgain
  <2>4. QED
    BY <2>2, <2>3
<1>5. CASE CloseScope
  <2>1. at \in 1 .. Len(program) /\ program[at].kind = "close"
    BY <1>1, <1>5 DEF CloseScope
  <2>2. Noted
    BY <1>5, <2>1, LineEnds DEF CloseScope
  <2>3. QED
    BY <1>5, <2>1, <2>2 DEF CloseScope, Leaves, scopeVars, rmscope
<1>6. CASE visitLabel
  BY <1>1, <1>2, <1>6 DEF visitLabel, inScopes
<1>7. CASE visitDotEquDirective
  BY <1>1, <1>2, <1>7 DEF visitDotEquDirective
<1>8. ASSUME NEW addr, JumpsTo(addr), at \in 1 .. Len(program), program[at].kind \notin {"open", "close"}
      PROVE  Stays \/ Keeps
  BY <1>2, <1>8 DEF JumpsTo, scopeVars
<1>9. CASE visitDotOrgDirective \/ visitDotSpaceDirective \/ visitDotCodeAlignDirective
           \/ visitDotDataAlignDirective
  BY <1>1, <1>8, <1>9 DEF visitDotOrgDirective, visitDotSpaceDirective, visitDotCodeAlignDirective,
     visitDotDataAlignDirective
<1>10. CASE visitDotDb64Directive \/ visitDotDb32Directive
  <2>1. ASSUME OneByOne
        PROVE  /\ \E g, fault, values : Ends(g, fault, values)
               /\ UNCHANGED <<inScopes, scopeVars>>
    BY <2>1, Zenon DEF OneByOne
  <2>2. QED
    BY <1>1, <1>2, <1>10, <2>1 DEF visitDotDb64Directive, visitDotDb32Directive, scopeVars
<1>11. CASE visitDotDb16Directive \/ visitDotDb8Directive
  <2>1. ASSUME NEW n, Packed(n)
        PROVE  /\ \E g, fault, values : Ends(g, fault, values)
               /\ UNCHANGED <<inScopes, scopeVars>>
    BY <2>1, Zenon DEF Packed
  <2>2. QED
    BY <1>1, <1>2, <1>11, <2>1 DEF visitDotDb16Directive, visitDotDb8Directive, scopeVars
<1>12. CASE visitInstruction
  BY <1>1, <1>2, <1>12 DEF visitInstruction
<1>13. CASE Finish
  BY <1>13 DEF Finish, Stays, scopeVars, inScopes
<1>14. QED
  BY <1>3, <1>4, <1>5, <1>6, <1>7, <1>9, <1>10, <1>11, <1>12, <1>13 DEF Next

-----------------------------------------------------------------------------
(* Which scope a line is in, before and after a step *)

LEMMA TraceGrows ==
    ASSUME NEW s, NEW x, Len(s) \in Nat, s = [i \in 1 .. Len(s) |-> s[i]]
    PROVE  /\ Len(Append(s, x)) = Len(s) + 1
           /\ Append(s, x) = [i \in 1 .. Len(s) + 1 |-> Append(s, x)[i]]
           /\ \A i \in 1 .. Len(s) : Append(s, x)[i] = s[i]
           /\ Append(s, x)[Len(s) + 1] = x
<1> DEFINE S == {s[i] : i \in 1 .. Len(s)} \cup {x}
<1>1. s \in Seq(S)
  OBVIOUS
<1>2. x \in S
  OBVIOUS
<1> HIDE DEF S
<1>3. Append(s, x) \in Seq(S) /\ Len(Append(s, x)) = Len(s) + 1
  BY <1>1, <1>2
<1>4. \A i \in 1 .. Len(s) : Append(s, x)[i] = s[i]
  BY <1>1, <1>2
<1>5. Append(s, x)[Len(s) + 1] = x
  BY <1>1, <1>2
<1>6. ASSUME NEW t \in Seq(S)
      PROVE  t = [i \in 1 .. Len(t) |-> t[i]]
  OBVIOUS
<1>7. Append(s, x) = [i \in 1 .. Len(s) + 1 |-> Append(s, x)[i]]
  BY <1>3, <1>6
<1>8. QED
  BY <1>3, <1>4, <1>5, <1>7

LEMMA VisitsAre ==
    ASSUME VisitsAreTraced
    PROVE  /\ Len(program) \in Nat /\ DOMAIN program = 1 .. Len(program)
           /\ at \in 1 .. Len(program) + 1
           /\ pass \in 0 .. 1
           /\ Len(trace[0]) \in Nat /\ Len(trace[1]) \in Nat
           /\ DOMAIN trace[0] = 1 .. Len(trace[0]) /\ DOMAIN trace[1] = 1 .. Len(trace[1])
           /\ DOMAIN trace = 0 .. 1
           /\ Seen \in Nat
           /\ \A i \in 1 .. Len(trace[0]) : Scope(i) = trace[0][i].node
           /\ pass = 0 => /\ Len(trace[0]) = at - 1 /\ Len(trace[1]) = 0
                          /\ Seen = at /\ Scope(at) = curr_scope_node
           /\ pass = 1 => /\ Len(trace[0]) = Len(program) /\ Len(trace[1]) = at - 1
                          /\ Seen = Len(program)
<1>1. Len(program) \in Nat /\ DOMAIN program = 1 .. Len(program)
  BY ProgramIs DEF VisitsAreTraced
<1>2. at \in 1 .. Len(program) + 1 /\ pass \in 0 .. 1 /\ at = Len(trace[pass]) + 1
  BY DEF VisitsAreTraced
<1>3. DOMAIN trace = 0 .. 1
  BY DEF VisitsAreTraced
<1>4. DOMAIN trace[0] = 1 .. Len(trace[0]) /\ DOMAIN trace[1] = 1 .. Len(trace[1])
  BY DEF VisitsAreTraced
<1>5. Len(trace[0]) \in Nat /\ Len(trace[1]) \in Nat
  <2>1. trace[0] = [i \in 1 .. Len(trace[0]) |-> trace[0][i]]
        /\ trace[1] = [i \in 1 .. Len(trace[1]) |-> trace[1][i]]
    BY DEF VisitsAreTraced
  <2>2. CASE pass = 0
    BY <1>1, <1>2, <2>2 DEF VisitsAreTraced
  <2>3. CASE pass = 1
    BY <1>1, <1>2, <2>3 DEF VisitsAreTraced
  <2>4. QED
    BY <1>2, <2>2, <2>3
<1>6. CASE pass = 0
  <2>1. Len(trace[0]) = at - 1 /\ Len(trace[1]) = 0 /\ Seen = at
    BY <1>1, <1>2, <1>5, <1>6 DEF VisitsAreTraced, Seen
  <2>2. Scope(at) = curr_scope_node
    BY <1>2, <1>4, <2>1 DEF Scope
  <2>3. QED
    BY <1>1, <1>2, <1>3, <1>4, <1>5, <1>6, <2>1, <2>2 DEF Scope
<1>7. CASE pass = 1
  BY <1>1, <1>2, <1>3, <1>4, <1>5, <1>7 DEF VisitsAreTraced, Seen, Scope
<1>8. QED
  BY <1>2, <1>6, <1>7

LEMMA NotedFirst ==
    ASSUME VisitsAreTraced, Noted, pass = 0
    PROVE  /\ VisitsAreTraced'
           /\ pass' = 0 /\ Seen' = at + 1 /\ Len(trace[0])' = at
           /\ \A i \in 1 .. at : Scope(i)' = Scope(i)
           /\ \A i : i = at + 1 => Scope(i)' = curr_scope_node'
<1> PICK values : trace' = [trace EXCEPT ![pass] = Append(trace[pass], Met(values))]
  BY DEF Noted
<1>1. /\ UNCHANGED <<program, pass>> /\ at \in 1 .. Len(program) /\ at' = at + 1
      /\ Len(program) \in Nat
  BY VisitsAre DEF Noted
<1>2. /\ DOMAIN trace' = 0 .. 1 /\ trace'[0] = Append(trace[0], Met(values)) /\ trace'[1] = trace[1]
  BY VisitsAre
<1>3. trace' = [p \in 0 .. 1 |-> trace'[p]]
  BY <1>2, VisitsAre
<1>4. Len(trace[0]) = at - 1 /\ Len(trace[0]) \in Nat /\ trace[0] = [i \in 1 .. Len(trace[0]) |-> trace[0][i]]
  BY VisitsAre DEF VisitsAreTraced
<1>5. /\ Len(trace'[0]) = at
      /\ trace'[0] = [i \in 1 .. at |-> trace'[0][i]]
      /\ \A i \in 1 .. at - 1 : trace'[0][i] = trace[0][i]
      /\ trace'[0][at] = Met(values)
  BY <1>1, <1>2, <1>4, TraceGrows
<1>6. VisitsAreTraced'
  BY <1>1, <1>2, <1>3, <1>5 DEF VisitsAreTraced
<1>7. Met(values).node = curr_scope_node
  BY DEF Met
<1>8. Scope(at) = curr_scope_node /\ \A i \in 1 .. at - 1 : Scope(i) = trace[0][i].node
  BY <1>4, VisitsAre
<1>9. \A i \in 1 .. at : Scope(i)' = trace'[0][i].node
  BY <1>5 DEF Scope
<1>10. \A i : i = at + 1 => Scope(i)' = curr_scope_node'
  BY <1>1, <1>5 DEF Scope
<1>11. Seen' = at + 1
  BY <1>1 DEF Seen
<1>12. ASSUME NEW i \in 1 .. at
       PROVE  Scope(i)' = Scope(i)
  <2>1. CASE i = at
    BY <1>5, <1>7, <1>8, <1>9, <2>1
  <2>2. CASE i # at
    <3>1. i \in 1 .. at - 1
      BY <1>1, <2>2
    <3>2. QED
      BY <1>5, <1>8, <1>9, <3>1
  <2>3. QED
    BY <2>1, <2>2
<1>13. QED
  BY <1>1, <1>5, <1>6, <1>10, <1>11, <1>12

LEMMA NotedAgain ==
    ASSUME VisitsAreTraced, Noted, pass = 1
    PROVE  /\ VisitsAreTraced'
           /\ pass' = 1 /\ Seen' = Seen /\ trace'[0] = trace[0]
           /\ \A i \in 1 .. Len(program) : Scope(i)' = Scope(i)
           /\ Len(trace'[1]) = at
           /\ \A i \in 1 .. at - 1 : trace'[1][i] = trace[1][i]
           /\ trace'[1][at].node = curr_scope_node
<1> PICK values : trace' = [trace EXCEPT ![pass] = Append(trace[pass], Met(values))]
  BY DEF Noted
<1>1. /\ UNCHANGED <<program, pass>> /\ at \in 1 .. Len(program) /\ at' = at + 1
      /\ Len(program) \in Nat
  BY VisitsAre DEF Noted
<1>2. /\ DOMAIN trace' = 0 .. 1 /\ trace'[1] = Append(trace[1], Met(values)) /\ trace'[0] = trace[0]
  BY VisitsAre
<1>3. trace' = [p \in 0 .. 1 |-> trace'[p]]
  BY <1>2, VisitsAre
<1>4. Len(trace[1]) = at - 1 /\ Len(trace[1]) \in Nat /\ trace[1] = [i \in 1 .. Len(trace[1]) |-> trace[1][i]]
  BY VisitsAre DEF VisitsAreTraced
<1>5. /\ Len(trace'[1]) = at
      /\ trace'[1] = [i \in 1 .. at |-> trace'[1][i]]
      /\ \A i \in 1 .. at - 1 : trace'[1][i] = trace[1][i]
      /\ trace'[1][at] = Met(values)
  BY <1>1, <1>2, <1>4, TraceGrows
<1>6. VisitsAreTraced'
  BY <1>1, <1>2, <1>3, <1>5 DEF VisitsAreTraced
<1>7. Met(values).node = curr_scope_node
  BY DEF Met
<1>8. DOMAIN trace[0] = 1 .. Len(program)
  BY VisitsAre
<1>9. \A i \in 1 .. Len(program) : Scope(i)' = Scope(i)
  BY <1>2, <1>8 DEF Scope
<1>10. Seen' = Seen
  BY <1>1 DEF Seen
<1>11. QED
  BY <1>1, <1>2, <1>5, <1>6, <1>7, <1>9, <1>10

\* What is said of lines above j stays true while their scopes do.
LEMMA SameScopes ==
    ASSUME NEW j \in Nat, program' = program, \A k \in 1 .. j - 1 : Scope(k)' = Scope(k)
    PROVE  /\ \A n : \A i \in 1 .. j : OpenedIn(n, i)' = OpenedIn(n, i)
           /\ \A i \in 1 .. j - 1 : Entered(i)' = Entered(i) /\ Opens(i)' = Opens(i)
           /\ \A kind, i, k : Count(kind, i, k)' = Count(kind, i, k)
           /\ \A i : Enclosing(i)' = Enclosing(i)
<1>1. \A i : Opens(i)' = Opens(i)
  BY DEF Opens
<1>2. \A n : \A i \in 1 .. j : OpenedIn(n, i)' = OpenedIn(n, i)
  BY <1>1 DEF OpenedIn
<1>3. \A i \in 1 .. j - 1 : Entered(i)' = Entered(i)
  BY <1>2 DEF Entered
<1>4. \A kind, i, k : Count(kind, i, k)' = Count(kind, i, k)
  BY DEF Count
<1>5. \A i : Enclosing(i)' = Enclosing(i)
  BY <1>4 DEF Enclosing
<1>6. QED
  BY <1>1, <1>2, <1>3, <1>4, <1>5

-----------------------------------------------------------------------------
(* Steps that leave the tree and the scopes of lines as they are *)

LEMMA WalkStays ==
    ASSUME WalkInv, UNCHANGED <<program, children>>, trace'[0] = trace[0],
           Seen' \in Nat, Seen' <= Seen, \A i \in 1 .. Seen' : Scope(i)' = Scope(i)
    PROVE  TreeIsClosed' /\ LinesWalkTheTree' /\ ScopesAreFresh' /\ TextShowsTheTree'
<1> USE DEF WalkInv
<1>1. /\ Len(trace[0]) \in Nat /\ DOMAIN trace[0] = 1 .. Len(trace[0])
      /\ Seen \in Nat /\ Seen <= Len(trace[0]) + 1
  BY VisitsAre
<1>2. \A i \in 1 .. Len(trace[0]) : Scope(i)' = Scope(i)
  BY <1>1 DEF Scope
<1>3. /\ \A n : \A i \in 1 .. Len(trace[0]) + 1 : OpenedIn(n, i)' = OpenedIn(n, i)
      /\ \A i \in 1 .. Len(trace[0]) : Entered(i)' = Entered(i) /\ Opens(i)' = Opens(i)
      /\ \A kind, i, k : Count(kind, i, k)' = Count(kind, i, k)
      /\ \A i : Enclosing(i)' = Enclosing(i)
  BY <1>1, <1>2, SameScopes, SMTT(60)
<1>4. TreeIsClosed'
  <2>1. \A n : OpenedIn(n, Len(trace[0]) + 1)' = OpenedIn(n, Len(trace[0]) + 1)
    BY <1>1, <1>3
  <2>2. QED
    BY <2>1 DEF TreeIsClosed
<1>5. LinesWalkTheTree'
  <2>1. LinesWalkTheTree
    OBVIOUS
  <2> HIDE DEF WalkInv
  <2>2. ASSUME NEW i \in 1 .. Seen'
        PROVE  Scope(i)' \in (DOMAIN children \ {tree})'
    <3>1. i \in 1 .. Seen /\ Scope(i)' = Scope(i)
      BY <1>1
    <3>2. QED
      BY <2>1, <3>1 DEF LinesWalkTheTree, tree
  <2>3. Seen' >= 1 => Scope(1)' = FirstScope
    BY <1>1, <2>1 DEF LinesWalkTheTree
  <2>4. ASSUME NEW i \in 1 .. Seen' - 1
        PROVE  Scope(i + 1)' = CASE Opens(i)' -> Entered(i)'
                                 [] program'[i].kind = "close" -> Parent(Scope(i)')
                                 [] OTHER -> Scope(i)'
    <3>1. /\ i \in 1 .. Seen - 1 /\ i \in 1 .. Len(trace[0])
          /\ i \in 1 .. Seen' /\ i + 1 \in 1 .. Seen'
      <4>1. PICK m \in Nat : m = Seen'
        OBVIOUS
      <4>2. PICK n \in Nat : n = Len(trace[0])
        BY <1>1
      <4>3. PICK s \in Nat : s = Seen
        BY <1>1
      <4>4. i \in 1 .. m - 1 /\ m <= s /\ s <= n + 1
        BY <1>1, <4>1, <4>2, <4>3
      <4>5. i \in 1 .. s - 1 /\ i \in 1 .. n /\ i \in 1 .. m /\ i + 1 \in 1 .. m
        BY <4>4
      <4>6. QED
        BY <4>1, <4>2, <4>3, <4>5
    <3>2. Scope(i + 1) = CASE Opens(i) -> Entered(i)
                           [] program[i].kind = "close" -> Parent(Scope(i))
                           [] OTHER -> Scope(i)
      BY <2>1, <3>1 DEF LinesWalkTheTree
    <3>3. /\ Scope(i + 1)' = Scope(i + 1) /\ Scope(i)' = Scope(i)
          /\ Opens(i)' = Opens(i) /\ Entered(i)' = Entered(i) /\ program' = program
      BY <1>3, <3>1
    <3>4. QED
      BY <3>2, <3>3
  <2>5. QED
    BY <2>2, <2>3, <2>4 DEF LinesWalkTheTree, Parent
<1>6. ScopesAreFresh'
  BY <1>1, <1>2, <1>3 DEF ScopesAreFresh
<1>7. TextShowsTheTree'
  <2>1. ASSUME NEW i \in (1 .. Seen)', NEW o \in 1 .. i
        PROVE  (Count("open", o, i - 1) - Count("close", o, i - 1))'
                    = Len(Scope(i)') - Len(Scope(o)')
    <3>1. i \in 1 .. Seen /\ i \in 1 .. Seen' /\ o \in 1 .. Seen'
      BY <1>1
    <3>2. Count("open", o, i - 1) - Count("close", o, i - 1) = Len(Scope(i)) - Len(Scope(o))
      BY <3>1 DEF TextShowsTheTree
    <3>3. QED
      BY <1>3, <3>1, <3>2
  <2>2. ASSUME NEW i \in (1 .. Seen)', NEW o \in 1 .. i - 1, Opens(o)'
        PROVE  (o \in Enclosing(i) <=> IsPrefix(Entered(o), Scope(i)))'
    <3>1. i \in 1 .. Seen /\ i \in 1 .. Seen' /\ o \in 1 .. Len(trace[0])
      BY <1>1
    <3>2. Opens(o)
      BY <1>3, <2>2, <3>1
    <3>3. o \in Enclosing(i) <=> IsPrefix(Entered(o), Scope(i))
      BY <3>1, <3>2 DEF TextShowsTheTree
    <3>4. QED
      BY <1>3, <3>1, <3>3
  <2>3. QED
    BY <2>1, <2>2 DEF TextShowsTheTree
<1>8. QED
  BY <1>4, <1>5, <1>6, <1>7

-----------------------------------------------------------------------------
(* The first pass *)

LEMMA TreeNodes ==
    ASSUME TreeIsClosed
    PROVE  /\ DOMAIN children \subseteq Node
           /\ \A n \in DOMAIN children : children[n] \in Nat /\ Len(n) \in Nat
           /\ \A n \in DOMAIN children \ {tree} : Len(n) >= 1 /\ Parent(n) \in DOMAIN children
           /\ \A m \in Node, n \in DOMAIN children : IsPrefix(m, n) => m \in DOMAIN children
           /\ FirstScope \in DOMAIN children /\ Len(FirstScope) = 1
<1>1. DOMAIN children \subseteq Node
  BY DEF TreeIsClosed, Node
<1>2. \A n \in DOMAIN children : children[n] \in Nat /\ Len(n) \in Nat
  BY DEF TreeIsClosed
<1>3. ASSUME NEW n \in DOMAIN children, n # tree
      PROVE  Len(n) >= 1 /\ Parent(n) \in DOMAIN children
  <2>1. Len(n) \in Nat \ {0}
    BY <1>1, <1>3, ParentIs
  <2>2. SubSeq(n, 1, Len(n) - 1) \in DOMAIN children
    <3>1. Len(n) - 1 \in 0 .. Len(n)
      BY <2>1
    <3>2. \A k \in 0 .. Len(n) : SubSeq(n, 1, k) \in DOMAIN children
      BY DEF TreeIsClosed
    <3>3. QED
      BY <3>1, <3>2
  <2>3. QED
    BY <2>1, <2>2 DEF Parent
<1>4. ASSUME NEW m \in Node, NEW n \in DOMAIN children, IsPrefix(m, n)
      PROVE  m \in DOMAIN children
  <2>1. Len(m) \in Nat /\ Len(n) \in Nat /\ SubSeq(m, 1, Len(m)) = m
    BY <1>2 DEF Node
  <2>2. Len(m) <= Len(n) /\ SubSeq(n, 1, Len(m)) = m
    BY <1>4, <2>1 DEF IsPrefix
  <2>3. Len(m) \in 0 .. Len(n) /\ \A k \in 0 .. Len(n) : SubSeq(n, 1, k) \in DOMAIN children
    BY <2>1, <2>2 DEF TreeIsClosed
  <2>4. QED
    BY <2>2, <2>3
<1>5. FirstScope \in DOMAIN children /\ Len(FirstScope) = 1
  BY DEF TreeIsClosed, FirstScope
<1>6. QED
  BY <1>1, <1>2, <1>3, <1>4, <1>5

\* Where the first pass is, and the scope it would enter there, which is new.
LEMMA AtTheCursor ==
    ASSUME WalkInv, pass = 0, at \in 1 .. Len(program)
    PROVE  /\ curr_scope_node \in DOMAIN children \ {tree}
           /\ curr_scope_node \in Node /\ Len(curr_scope_node) \in Nat \ {0}
           /\ children[curr_scope_node] \in Nat
           /\ Entered(at) = NewChild(curr_scope_node)
           /\ NewChild(curr_scope_node) \in Node \ DOMAIN children
           /\ Len(NewChild(curr_scope_node)) = Len(curr_scope_node) + 1
<1>1. Seen = at /\ Scope(at) = curr_scope_node /\ Len(trace[0]) = at - 1 /\ at \in Nat
  BY VisitsAre DEF WalkInv
<1>2. curr_scope_node \in DOMAIN children \ {tree}
  BY <1>1 DEF WalkInv, LinesWalkTheTree
<1>3. curr_scope_node \in Node /\ Len(curr_scope_node) \in Nat \ {0} /\ children[curr_scope_node] \in Nat
  BY <1>2, TreeNodes DEF WalkInv
<1>4. children[curr_scope_node] = Cardinality(OpenedIn(curr_scope_node, at))
  BY <1>1, <1>2 DEF WalkInv, TreeIsClosed
<1>5. Entered(at) = NewChild(curr_scope_node)
  BY <1>1, <1>4 DEF Entered, NewChild
<1> DEFINE c == children[curr_scope_node]
           child == Append(curr_scope_node, c)
<1> HIDE DEF c
<1>6. /\ child \in Node /\ Len(child) = Len(curr_scope_node) + 1
      /\ child[Len(child)] = c
      /\ Parent(child) = curr_scope_node /\ child # tree
  <2>1. c \in Nat
    BY <1>3 DEF c
  <2>2. /\ child \in Node /\ Len(child) = Len(curr_scope_node) + 1
        /\ child[Len(curr_scope_node) + 1] = c
    BY <1>3, <2>1, ChildIs
  <2>3. Parent(child) = curr_scope_node /\ child # tree
    BY <1>3, <2>1, ParentOfChild
  <2>4. QED
    BY <2>2, <2>3
<1> HIDE DEF child
<1>7. child \notin DOMAIN children
  <2>1. ASSUME child \in DOMAIN children
        PROVE  child[Len(child)] < children[Parent(child)]
    BY <1>6, <2>1 DEF WalkInv, TreeIsClosed
  <2>2. ASSUME child \in DOMAIN children
        PROVE  FALSE
    BY <1>3, <1>6, <2>1, <2>2 DEF c
  <2>3. QED
    BY <2>2
<1>8. QED
  BY <1>2, <1>3, <1>5, <1>6, <1>7 DEF child, c, NewChild

\* A closing brace is only met inside a block.
LEMMA BlockIsOpen ==
    ASSUME WalkInv, at \in 1 .. Len(program), program[at].kind = "close"
    PROVE  Len(curr_scope_node) > 1
<1>1. /\ at \in 1 .. Seen /\ 1 \in 1 .. at /\ at \in Nat \ {0}
      /\ Scope(at) = curr_scope_node
  <2>1. pass \in 0 .. 1 /\ Len(program) \in Nat
    BY VisitsAre DEF WalkInv
  <2>2. CASE pass = 0
    BY <2>1, <2>2, VisitsAre DEF WalkInv
  <2>3. CASE pass = 1
    <3>1. Seen = Len(program)
      BY <2>3, VisitsAre DEF WalkInv
    <3>2. Scope(at) = curr_scope_node
      BY <2>1, <2>3 DEF WalkInv, CountersFollow
    <3>3. QED
      BY <2>1, <3>1, <3>2
  <2>4. QED
    BY <2>1, <2>2, <2>3
<1>2. Scope(1) = FirstScope /\ curr_scope_node \in Node
  <2>1. 1 \in 1 .. Seen
    BY <1>1, VisitsAre DEF WalkInv
  <2>2. Scope(1) = FirstScope /\ curr_scope_node \in DOMAIN children
    BY <1>1, <2>1 DEF WalkInv, LinesWalkTheTree
  <2>3. QED
    BY <2>2, TreeNodes DEF WalkInv
<1>3. Count("open", 1, at - 1) - Count("close", 1, at - 1) = Len(curr_scope_node) - 1
  <2>1. Count("open", 1, at - 1) - Count("close", 1, at - 1) = Len(Scope(at)) - Len(Scope(1))
    BY <1>1 DEF WalkInv, TextShowsTheTree
  <2>2. QED
    BY <1>1, <1>2, <2>1, TreeNodes DEF WalkInv
<1>4. /\ Count("open", 1, at - 1) \in Nat /\ Count("close", 1, at - 1) \in Nat
      /\ Count("open", 1, at) = Count("open", 1, at - 1)
      /\ Count("close", 1, at) = Count("close", 1, at - 1) + 1
  <2>1. at - 1 \in Nat /\ 1 <= (at - 1) + 1 /\ (at - 1) + 1 = at
    BY <1>1
  <2>2. /\ Count("open", 1, at - 1) \in Nat
        /\ Count("open", 1, (at - 1) + 1)
             = Count("open", 1, at - 1) + (IF program[(at - 1) + 1].kind = "open" THEN 1 ELSE 0)
    BY <2>1, CountIs
  <2>3. /\ Count("close", 1, at - 1) \in Nat
        /\ Count("close", 1, (at - 1) + 1)
             = Count("close", 1, at - 1) + (IF program[(at - 1) + 1].kind = "close" THEN 1 ELSE 0)
    BY <2>1, CountIs
  <2>4. QED
    BY <2>1, <2>2, <2>3
<1>5. Count("close", 1, at) <= Count("open", 1, at)
  BY ProgramIs DEF WalkInv, VisitsAreTraced
<1>6. Len(curr_scope_node) \in Nat
  BY <1>2 DEF Node
<1>7. QED
  BY <1>3, <1>4, <1>5, <1>6

\* A step of the first pass over a line: what it leaves of the scopes of the lines
\* so far, and the scope it goes on in.
LEMMA FirstPassStep ==
    ASSUME WalkInv, pass = 0, Keeps \/ Enters \/ Leaves
    PROVE  /\ Noted /\ program' = program
           /\ at \in 1 .. Len(program) /\ at \in Nat \ {0}
           /\ Seen = at /\ Len(trace[0]) = at - 1 /\ Scope(at) = curr_scope_node
           /\ Seen' = at + 1 /\ Len(trace[0])' = at /\ pass' = 0
           /\ \A i \in 1 .. at : Scope(i)' = Scope(i)
           /\ \A i \in 1 .. at : Scope(i) \in DOMAIN children \ {tree}
           /\ \A i : i = at + 1 => Scope(i)' = curr_scope_node'
           /\ \A n : \A i \in 1 .. at + 1 : OpenedIn(n, i)' = OpenedIn(n, i)
           /\ \A i \in 1 .. at : Entered(i)' = Entered(i) /\ Opens(i)' = Opens(i)
           /\ \A kind, i, k : Count(kind, i, k)' = Count(kind, i, k)
           /\ \A i : Enclosing(i)' = Enclosing(i)
           /\ VisitsAreTraced'
<1>1. Noted
  BY DEF Keeps, Enters, Leaves
<1>2. /\ at \in 1 .. Len(program) /\ Len(program) \in Nat /\ program' = program
      /\ Seen = at /\ Len(trace[0]) = at - 1 /\ Scope(at) = curr_scope_node
  BY <1>1, VisitsAre DEF WalkInv, Noted
<1>3. at \in Nat \ {0}
  BY <1>2
<1>4. /\ Seen' = at + 1 /\ Len(trace[0])' = at /\ pass' = 0
      /\ \A i \in 1 .. at : Scope(i)' = Scope(i)
      /\ \A i : i = at + 1 => Scope(i)' = curr_scope_node'
      /\ VisitsAreTraced'
  BY <1>1, NotedFirst DEF WalkInv
<1>5. \A i \in 1 .. at : Scope(i) \in DOMAIN children \ {tree}
  BY <1>2 DEF WalkInv, LinesWalkTheTree
<1> DEFINE j == at + 1
<1>6. j \in Nat /\ \A k \in 1 .. j - 1 : Scope(k)' = Scope(k)
  BY <1>3, <1>4
<1>7. /\ \A n : \A i \in 1 .. j : OpenedIn(n, i)' = OpenedIn(n, i)
      /\ \A i \in 1 .. j - 1 : Entered(i)' = Entered(i) /\ Opens(i)' = Opens(i)
      /\ \A kind, i, k : Count(kind, i, k)' = Count(kind, i, k)
      /\ \A i : Enclosing(i)' = Enclosing(i)
  <2> HIDE DEF j
  <2> QED
    BY <1>2, <1>6, SameScopes
<1>8. QED
  BY <1>1, <1>2, <1>3, <1>4, <1>5, <1>7

\* The scope that a block is given lies directly in that of the line that opens it.
LEMMA EnteredIs ==
    ASSUME NEW o \in Nat \ {0}, Scope(o) \in Node
    PROVE  /\ Entered(o) \in Node
           /\ Len(Entered(o)) = Len(Scope(o)) + 1
           /\ Parent(Entered(o)) = Scope(o)
<1>1. Cardinality(OpenedIn(Scope(o), o)) \in Nat
  BY OpenedCounts
<1>2. QED
  BY <1>1, ChildIs, ParentOfChild DEF Entered

\* The tree after a block is entered.
LEMMA TreeGrows ==
    ASSUME WalkInv, pass = 0, Enters
    PROVE  /\ DOMAIN children' = DOMAIN children \cup {NewChild(curr_scope_node)}
           /\ children'[NewChild(curr_scope_node)] = 0
           /\ children'[curr_scope_node] = children[curr_scope_node] + 1
           /\ \A n \in DOMAIN children \ {curr_scope_node} : children'[n] = children[n]
           /\ children' \in [DOMAIN children' -> Nat]
<1>1. /\ curr_scope_node \in DOMAIN children /\ children[curr_scope_node] \in Nat
      /\ NewChild(curr_scope_node) \notin DOMAIN children
  BY AtTheCursor, FirstPassStep
<1>2. \A n \in DOMAIN children : children[n] \in Nat
  BY TreeNodes DEF WalkInv
<1>3. children' = [n \in DOMAIN children \cup {NewChild(curr_scope_node)} |->
                      CASE n = NewChild(curr_scope_node) -> 0
                        [] n = curr_scope_node -> children[n] + 1
                        [] OTHER -> children[n]]
  BY DEF Enters, mkscope
<1>4. DOMAIN children' = DOMAIN children \cup {NewChild(curr_scope_node)}
  BY <1>3
<1>5. children'[NewChild(curr_scope_node)] = 0
  BY <1>1, <1>3
<1>6. children'[curr_scope_node] = children[curr_scope_node] + 1
  BY <1>1, <1>3
<1>7. ASSUME NEW n \in DOMAIN children, n # curr_scope_node
      PROVE  children'[n] = children[n]
  <2>1. n # NewChild(curr_scope_node)
    BY <1>1
  <2>2. QED
    BY <1>3, <1>7, <2>1
<1>8. ASSUME NEW n \in DOMAIN children'
      PROVE  children'[n] \in Nat
  BY <1>1, <1>2, <1>4, <1>5, <1>6, <1>7
<1>9. children' = [n \in DOMAIN children' |-> children'[n]]
  BY <1>3, <1>4
<1>10. QED
  BY <1>4, <1>5, <1>6, <1>7, <1>8, <1>9

LEMMA TreeStaysClosed ==
    ASSUME WalkInv, pass = 0, Keeps \/ Enters \/ Leaves
    PROVE  TreeIsClosed'
<1> DEFINE child == NewChild(curr_scope_node)
<1>1. /\ at \in Nat \ {0} /\ at \in 1 .. Len(program) /\ Len(trace[0]) = at - 1 /\ Len(trace[0])' = at
      /\ Scope(at) = curr_scope_node
      /\ \A n : \A i \in 1 .. at + 1 : OpenedIn(n, i)' = OpenedIn(n, i)
      /\ \A i \in 1 .. at : Scope(i) \in DOMAIN children
  BY FirstPassStep
<1>2. ASSUME NEW n
      PROVE  /\ OpenedIn(n, Len(trace[0]) + 1)' = OpenedIn(n, at + 1)
             /\ Cardinality(OpenedIn(n, at)) \in Nat
             /\ Cardinality(OpenedIn(n, at + 1))
                  = Cardinality(OpenedIn(n, at)) + (IF Opens(at) /\ curr_scope_node = n THEN 1 ELSE 0)
  <2>1. PICK j \in Nat : j = at + 1
    BY <1>1
  <2>2. OpenedIn(n, Len(trace[0]) + 1)' = OpenedIn(n, j)'
    BY <1>1, <2>1 DEF OpenedIn
  <2>3. j \in 1 .. at + 1
    BY <1>1, <2>1
  <2>4. QED
    BY <1>1, <2>1, <2>2, <2>3, OpenedCounts
<1>3. \A n \in DOMAIN children \ {tree} : children[n] = Cardinality(OpenedIn(n, at))
  BY <1>1 DEF WalkInv, TreeIsClosed
<1>4. CASE Enters
  <2>1. /\ DOMAIN children' = DOMAIN children \cup {child}
        /\ children'[child] = 0
        /\ children'[curr_scope_node] = children[curr_scope_node] + 1
        /\ \A n \in DOMAIN children \ {curr_scope_node} : children'[n] = children[n]
        /\ children' \in [DOMAIN children' -> Nat]
    BY <1>4, TreeGrows
  <2>2. /\ curr_scope_node \in DOMAIN children \ {tree}
        /\ curr_scope_node \in Node /\ Len(curr_scope_node) \in Nat \ {0}
        /\ children[curr_scope_node] \in Nat
        /\ child \in Node \ DOMAIN children
        /\ Len(child) = Len(curr_scope_node) + 1
    BY <1>1, AtTheCursor
  <2>3. /\ Parent(child) = curr_scope_node /\ child # tree
        /\ child[Len(child)] = children[curr_scope_node]
        /\ \A k \in 1 .. Len(curr_scope_node) : child[k] = curr_scope_node[k]
    <3> DEFINE c == children[curr_scope_node]
    <3>1. c \in Nat /\ child = Append(curr_scope_node, c)
      BY <2>2 DEF NewChild
    <3> HIDE DEF c
    <3>2. Parent(child) = curr_scope_node /\ child # tree
      BY <2>2, <3>1, ParentOfChild
    <3>3. child[Len(curr_scope_node) + 1] = c /\ \A k \in 1 .. Len(curr_scope_node) : child[k] = curr_scope_node[k]
      BY <2>2, <3>1, ChildIs
    <3>4. QED
      BY <2>2, <3>2, <3>3 DEF c
  <2> HIDE DEF child
  <2>4. DOMAIN children \subseteq Node /\ \A n \in DOMAIN children : children[n] \in Nat
    BY TreeNodes DEF WalkInv
  <2>5. DOMAIN children' \subseteq Seq(Nat)
    BY <2>1, <2>2, <2>4 DEF Node
  <2>6. {tree, FirstScope} \subseteq DOMAIN children' /\ children'[tree] = 1
    BY <2>1, <2>2 DEF WalkInv, TreeIsClosed
  <2>7. ASSUME NEW n \in DOMAIN children', NEW k \in 0 .. Len(n)
        PROVE  SubSeq(n, 1, k) \in DOMAIN children'
    <3>1. CASE n \in DOMAIN children
      BY <2>1, <3>1 DEF WalkInv, TreeIsClosed
    <3>2. CASE n = child /\ k = Len(child)
      <4>1. SubSeq(child, 1, Len(child)) = child
        BY <2>2 DEF Node
      <4>2. QED
        BY <2>1, <3>2, <4>1
    <3>3. CASE n = child /\ k # Len(child)
      <4>1. k \in 0 .. Len(curr_scope_node) /\ k \in Nat /\ k <= Len(child)
        BY <2>2, <3>3
      <4>2. /\ SubSeq(child, 1, k) \in Node /\ Len(SubSeq(child, 1, k)) = k
            /\ \A i \in 1 .. k : SubSeq(child, 1, k)[i] = child[i]
        BY <2>2, <4>1, SMTT(60) DEF Node
      <4>3. /\ SubSeq(curr_scope_node, 1, k) \in Node /\ Len(SubSeq(curr_scope_node, 1, k)) = k
            /\ \A i \in 1 .. k : SubSeq(curr_scope_node, 1, k)[i] = curr_scope_node[i]
        BY <2>2, <4>1, SMTT(60) DEF Node
      <4>4. SubSeq(child, 1, k) = SubSeq(curr_scope_node, 1, k)
        BY <2>3, <4>1, <4>2, <4>3, NodesAreEqual
      <4>5. SubSeq(curr_scope_node, 1, k) \in DOMAIN children
        BY <2>2, <4>1 DEF WalkInv, TreeIsClosed
      <4>6. QED
        BY <2>1, <3>3, <4>4, <4>5
    <3>4. QED
      BY <2>1, <3>1, <3>2, <3>3
  <2>8. ASSUME NEW n \in DOMAIN children', n # tree
        PROVE  n[Len(n)] < children'[Parent(n)]
    <3>1. CASE n = child
      BY <2>1, <2>2, <2>3, <3>1
    <3>2. CASE n \in DOMAIN children
      <4>1. n[Len(n)] < children[Parent(n)]
        BY <2>8, <3>2 DEF WalkInv, TreeIsClosed
      <4>2. Parent(n) \in DOMAIN children
        BY <2>8, <3>2, TreeNodes DEF WalkInv
      <4>3. n[Len(n)] \in Nat /\ children[Parent(n)] \in Nat
        BY <2>4, <2>8, <3>2, <4>2, ParentIs
      <4>4. children'[Parent(n)] = children[Parent(n)] \/ children'[Parent(n)] = children[Parent(n)] + 1
        BY <2>1, <4>2
      <4>5. QED
        BY <4>1, <4>3, <4>4
    <3>3. QED
      BY <2>1, <3>1, <3>2
  <2>9. ASSUME NEW n \in DOMAIN children' \ {tree}
        PROVE  children'[n] = Cardinality(OpenedIn(n, Len(trace[0]) + 1)')
    <3>1. Opens(at)
      BY <1>4 DEF Enters, Opens
    <3>2. CASE n = child
      <4>1. OpenedIn(child, at) = {}
        BY <1>1, <2>2 DEF OpenedIn
      <4>2. Cardinality(OpenedIn(child, at)) = 0
        BY <4>1, FS_EmptySet
      <4>3. child # curr_scope_node
        BY <2>2
      <4>4. QED
        BY <1>2, <2>1, <3>2, <4>2, <4>3
    <3>3. CASE n = curr_scope_node
      BY <1>2, <1>3, <2>1, <2>2, <3>1, <3>3
    <3>4. CASE n \in DOMAIN children /\ n # curr_scope_node
      BY <1>2, <1>3, <2>1, <3>4
    <3>5. QED
      BY <2>1, <3>2, <3>3, <3>4
  <2>10. QED
    BY <2>1, <2>5, <2>6, <2>7, <2>8, <2>9 DEF TreeIsClosed
<1>5. CASE Keeps \/ Leaves
  <2>1. children' = children /\ ~Opens(at)
    BY <1>5 DEF Keeps, Leaves, Opens
  <2>2. ASSUME NEW n \in DOMAIN children \ {tree}
        PROVE  children[n] = Cardinality(OpenedIn(n, Len(trace[0]) + 1)')
    BY <1>2, <1>3, <2>1
  <2>3. QED
    BY <2>1, <2>2 DEF WalkInv, TreeIsClosed
<1>6. QED
  BY <1>4, <1>5

LEMMA CursorMoves ==
    ASSUME WalkInv, pass = 0, Keeps \/ Enters \/ Leaves
    PROVE  /\ DOMAIN children \subseteq DOMAIN children'
           /\ curr_scope_node' \in DOMAIN children' \ {tree}
           /\ Enters => /\ Opens(at) /\ curr_scope_node' = Entered(at)
                        /\ DOMAIN children' = DOMAIN children \cup {Entered(at)}
           /\ Keeps => ~Opens(at) /\ program[at].kind # "close" /\ curr_scope_node' = curr_scope_node
           /\ Leaves => /\ program[at].kind = "close" /\ ~Opens(at)
                        /\ curr_scope_node' = Parent(curr_scope_node)
           /\ Keeps \/ Leaves => DOMAIN children' = DOMAIN children
<1>1. /\ at \in 1 .. Len(program)
      /\ curr_scope_node \in DOMAIN children \ {tree}
      /\ curr_scope_node \in Node
      /\ Entered(at) = NewChild(curr_scope_node)
      /\ NewChild(curr_scope_node) \in Node \ DOMAIN children
      /\ Len(NewChild(curr_scope_node)) = Len(curr_scope_node) + 1
      /\ Len(curr_scope_node) \in Nat \ {0}
  BY FirstPassStep, AtTheCursor
<1>2. CASE Enters
  <2>1. DOMAIN children' = DOMAIN children \cup {NewChild(curr_scope_node)}
    BY <1>2, TreeGrows
  <2>2. Opens(at) /\ curr_scope_node' = NewChild(curr_scope_node) /\ program[at].kind # "close"
    BY <1>2 DEF Enters, Opens
  <2>3. NewChild(curr_scope_node) # tree
    BY <1>1 DEF tree
  <2>4. ~Keeps /\ ~Leaves
    BY <2>2 DEF Keeps, Leaves, Opens
  <2>5. QED
    BY <1>1, <2>1, <2>2, <2>3, <2>4
<1>3. CASE Keeps
  BY <1>1, <1>3 DEF Keeps, Enters, Leaves, Opens, inScopes
<1>4. CASE Leaves
  <2>1. Len(curr_scope_node) > 1
    BY <1>1, <1>4, BlockIsOpen DEF Leaves
  <2>2. Parent(curr_scope_node) \in DOMAIN children /\ Parent(curr_scope_node) # tree
    <3>1. Parent(curr_scope_node) \in DOMAIN children
      BY <1>1, TreeNodes DEF WalkInv
    <3>2. Len(Parent(curr_scope_node)) = Len(curr_scope_node) - 1
      BY <1>1, ParentIs
    <3>3. Len(tree) = 0
      BY DEF tree
    <3>4. QED
      BY <1>1, <2>1, <3>1, <3>2, <3>3
  <2>3. QED
    BY <1>4, <2>2 DEF Keeps, Enters, Leaves, Opens
<1>5. QED
  BY <1>2, <1>3, <1>4

LEMMA LinesStillWalk ==
    ASSUME WalkInv, pass = 0, Keeps \/ Enters \/ Leaves
    PROVE  LinesWalkTheTree'
<1>1. /\ at \in Nat \ {0} /\ Seen = at /\ Seen' = at + 1 /\ program' = program
      /\ Scope(at) = curr_scope_node
      /\ \A i \in 1 .. at : Scope(i)' = Scope(i)
      /\ \A i \in 1 .. at : Scope(i) \in DOMAIN children \ {tree}
      /\ \A i : i = at + 1 => Scope(i)' = curr_scope_node'
      /\ \A i \in 1 .. at : Entered(i)' = Entered(i) /\ Opens(i)' = Opens(i)
  BY FirstPassStep
<1>2. ASSUME NEW i \in 1 .. Seen'
      PROVE  Scope(i)' \in DOMAIN children' \ {tree}
  BY <1>1, <1>2, CursorMoves
<1>3. Scope(1)' = FirstScope
  BY <1>1 DEF WalkInv, LinesWalkTheTree
<1>4. ASSUME NEW i \in 1 .. Seen' - 1
      PROVE  Scope(i + 1)' = (CASE Opens(i) -> Entered(i)
                                [] program[i].kind = "close" -> Parent(Scope(i))
                                [] OTHER -> Scope(i))
  <2>1. i \in 1 .. at
    BY <1>1
  <2>2. CASE i = at
    <3>1. Scope(i + 1)' = curr_scope_node'
      BY <1>1, <2>2
    <3>2. program[at].kind = "close" => ~Opens(at)
      BY DEF Opens
    <3>3. QED
      BY <1>1, <2>2, <3>1, <3>2, CursorMoves
  <2>3. CASE i # at
    <3>1. i \in 1 .. Seen - 1 /\ i + 1 \in 1 .. at
      BY <1>1, <2>1, <2>3
    <3>2. Scope(i + 1)' = Scope(i + 1)
      BY <1>1, <3>1
    <3>3. QED
      BY <3>1, <3>2 DEF WalkInv, LinesWalkTheTree
  <2>4. QED
    BY <2>2, <2>3
<1>5. ASSUME NEW i \in 1 .. Seen' - 1
      PROVE  (Scope(i + 1) = CASE Opens(i) -> Entered(i)
                               [] program[i].kind = "close" -> Parent(Scope(i))
                               [] OTHER -> Scope(i))'
  <2>1. i \in 1 .. at
    BY <1>1
  <2>2. /\ Scope(i)' = Scope(i) /\ Entered(i)' = Entered(i) /\ Opens(i)' = Opens(i)
        /\ program'[i].kind = program[i].kind
    BY <1>1, <2>1
  <2>3. Parent(Scope(i))' = Parent(Scope(i))
    BY <2>2 DEF Parent
  <2>4. QED
    BY <1>4, <2>2, <2>3
<1>6. QED
  BY <1>2, <1>3, <1>5 DEF LinesWalkTheTree

LEMMA ScopesStayFresh ==
    ASSUME WalkInv, pass = 0, Keeps \/ Enters \/ Leaves
    PROVE  ScopesAreFresh'
<1>1. /\ at \in Nat \ {0} /\ at \in 1 .. Len(program)
      /\ Len(trace[0]) = at - 1 /\ Len(trace[0])' = at
      /\ \A i \in 1 .. at : Scope(i)' = Scope(i)
      /\ \A i \in 1 .. at : Scope(i) \in DOMAIN children
      /\ \A i \in 1 .. at : Entered(i)' = Entered(i) /\ Opens(i)' = Opens(i)
  BY FirstPassStep
<1>2. Entered(at) \in Node \ DOMAIN children
  BY <1>1, AtTheCursor
<1>3. ASSUME NEW n \in DOMAIN children', Len(n) > 1
      PROVE  \E o \in 1 .. Len(trace[0])' : Opens(o)' /\ Entered(o)' = n
  <2>1. CASE n \in DOMAIN children
    <3>1. PICK o \in 1 .. Len(trace[0]) : Opens(o) /\ Entered(o) = n
      BY <1>3, <2>1 DEF WalkInv, ScopesAreFresh
    <3>2. o \in 1 .. at
      BY <1>1, <3>1
    <3>3. QED
      BY <1>1, <3>1, <3>2
  <2>2. CASE n \notin DOMAIN children
    <3>1. Opens(at) /\ n = Entered(at)
      BY <1>3, <2>2, CursorMoves
    <3>2. at \in 1 .. at
      BY <1>1
    <3>3. QED
      BY <1>1, <3>1, <3>2
  <2>3. QED
    BY <2>1, <2>2
<1>4. ASSUME NEW o \in 1 .. Len(trace[0])', Opens(o)', NEW i \in 1 .. o
      PROVE  ~IsPrefix(Entered(o), Scope(i))'
  <2>1. o \in 1 .. at /\ i \in 1 .. at /\ Opens(o)
    BY <1>1, <1>4
  <2>2. ~IsPrefix(Entered(o), Scope(i))
    <3>1. CASE o = at
      <4>1. Scope(i) \in DOMAIN children
        BY <1>1, <2>1
      <4>2. IsPrefix(Entered(at), Scope(i)) => Entered(at) \in DOMAIN children
        BY <1>2, <4>1, TreeNodes DEF WalkInv
      <4>3. QED
        BY <1>2, <3>1, <4>2
    <3>2. CASE o # at
      <4>1. o \in 1 .. Len(trace[0])
        BY <1>1, <2>1, <3>2
      <4>2. QED
        BY <2>1, <4>1 DEF WalkInv, ScopesAreFresh
    <3>3. QED
      BY <3>1, <3>2
  <2>3. Entered(o)' = Entered(o) /\ Scope(i)' = Scope(i)
    BY <1>1, <2>1
  <2>4. QED
    BY <2>2, <2>3 DEF IsPrefix
<1>5. QED
  BY <1>3, <1>4 DEF ScopesAreFresh

\* The blocks around a line are those around the line above that have not just
\* ended, and the one that it opens.
LEMMA EnclosingNext ==
    ASSUME NEW i \in Nat \ {0}, NEW o \in 1 .. i, Opens(o)
    PROVE  o \in Enclosing(i + 1)
               <=> (o = i \/ o \in Enclosing(i)) /\ Count("open", o, i) > Count("close", o, i)
<1>1. CASE o = i
  BY <1>1 DEF Enclosing, Opens
<1>2. CASE o # i
  <2>1. o \in 1 .. i - 1 /\ o .. i = (o .. i - 1) \cup {i} /\ (i + 1) - 1 = i
    BY <1>2
  <2>2. o # 0
    OBVIOUS
  <2>3. o \in Enclosing(i + 1) <=> \A j \in o .. i : Count("open", o, j) > Count("close", o, j)
    BY <2>1, <2>2 DEF Enclosing, Opens
  <2>4. o \in Enclosing(i) <=> \A j \in o .. i - 1 : Count("open", o, j) > Count("close", o, j)
    BY <2>1, <2>2 DEF Enclosing, Opens
  <2>5. QED
    BY <1>2, <2>1, <2>3, <2>4
<1>3. QED
  BY <1>1, <1>2

LEMMA TextStillShows ==
    ASSUME WalkInv, pass = 0, Keeps \/ Enters \/ Leaves
    PROVE  TextShowsTheTree'
<1>1. /\ at \in Nat \ {0} /\ at \in 1 .. Len(program)
      /\ Seen = at /\ Seen' = at + 1 /\ Scope(at) = curr_scope_node
      /\ \A i \in 1 .. at : Scope(i)' = Scope(i)
      /\ \A i \in 1 .. at : Scope(i) \in DOMAIN children \ {tree}
      /\ \A i : i = at + 1 => Scope(i)' = curr_scope_node'
      /\ \A i \in 1 .. at : Entered(i)' = Entered(i) /\ Opens(i)' = Opens(i)
      /\ \A kind, i, k : Count(kind, i, k)' = Count(kind, i, k)
      /\ \A i : Enclosing(i)' = Enclosing(i)
  BY FirstPassStep
<1>2. \A n \in DOMAIN children : n \in Node /\ Len(n) \in Nat
  BY TreeNodes DEF WalkInv
<1>3. curr_scope_node \in Node /\ curr_scope_node # tree /\ Len(curr_scope_node) \in Nat \ {0}
  BY <1>1, AtTheCursor
<1>4. ASSUME NEW o \in 1 .. at
      PROVE  /\ Entered(o) \in Node /\ Len(Scope(o)) \in Nat
             /\ Len(Entered(o)) = Len(Scope(o)) + 1
  BY <1>1, <1>2, EnteredIs
<1>5. Len(curr_scope_node') = Len(curr_scope_node)
            + (IF Opens(at) THEN 1 ELSE 0) - (IF program[at].kind = "close" THEN 1 ELSE 0)
  <2>1. CASE Enters
    <3>1. Opens(at) /\ curr_scope_node' = Entered(at)
      BY <2>1, CursorMoves
    <3>2. Len(Entered(at)) = Len(curr_scope_node) + 1
      BY <1>1, <1>4
    <3>3. QED
      BY <1>3, <3>1, <3>2 DEF Opens
  <2>2. CASE Keeps
    BY <1>3, <2>2, CursorMoves
  <2>3. CASE Leaves
    <3>1. Len(Parent(curr_scope_node)) = Len(curr_scope_node) - 1
      BY <1>3, ParentIs
    <3>2. QED
      BY <1>3, <2>3, <3>1, CursorMoves
  <2>4. QED
    BY <2>1, <2>2, <2>3
<1>6. ASSUME NEW o \in 1 .. at
      PROVE  /\ Count("open", o, at) - Count("close", o, at) = Len(curr_scope_node') - Len(Scope(o))
             /\ Count("open", o, at) \in Nat /\ Count("close", o, at) \in Nat
  <2>1. /\ at - 1 \in Nat /\ o <= (at - 1) + 1 /\ (at - 1) + 1 = at /\ o \in Nat \ {0}
    BY <1>1
  <2>2. Count("open", o, at - 1) - Count("close", o, at - 1) = Len(curr_scope_node) - Len(Scope(o))
    <3>1. at \in 1 .. Seen /\ o \in 1 .. at
      BY <1>1
    <3>2. QED
      BY <1>1, <3>1 DEF WalkInv, TextShowsTheTree
  <2>3. /\ Count("open", o, at - 1) \in Nat
        /\ Count("open", o, (at - 1) + 1)
             = Count("open", o, at - 1) + (IF program[(at - 1) + 1].kind = "open" THEN 1 ELSE 0)
    BY <2>1, CountIs
  <2>4. /\ Count("close", o, at - 1) \in Nat
        /\ Count("close", o, (at - 1) + 1)
             = Count("close", o, at - 1) + (IF program[(at - 1) + 1].kind = "close" THEN 1 ELSE 0)
    BY <2>1, CountIs
  <2>5. Opens(at) <=> program[at].kind = "open"
    BY DEF Opens
  <2>6. /\ Count("open", o, at) = Count("open", o, at - 1) + (IF Opens(at) THEN 1 ELSE 0)
        /\ Count("close", o, at) = Count("close", o, at - 1) + (IF program[at].kind = "close" THEN 1 ELSE 0)
    BY <2>1, <2>3, <2>4, <2>5
  <2>7. CASE Opens(at)
    BY <1>3, <1>4, <1>5, <2>2, <2>3, <2>4, <2>5, <2>6, <2>7
  <2>8. CASE program[at].kind = "close"
    <3>1. ~Opens(at)
      BY <2>5, <2>8
    <3>2. /\ Count("open", o, at) = Count("open", o, at - 1)
          /\ Count("close", o, at) = Count("close", o, at - 1) + 1
          /\ Len(curr_scope_node') = Len(curr_scope_node) - 1
      BY <1>3, <1>5, <2>3, <2>4, <2>6, <2>8, <3>1
    <3>3. Count("open", o, at - 1) \in Nat /\ Count("close", o, at - 1) \in Nat
      BY <2>3, <2>4
    <3>4. Len(curr_scope_node) \in Nat /\ Len(Scope(o)) \in Nat
      BY <1>3, <1>4
    <3>5. \A a, b \in Nat, c, d \in Nat : a - b = c - d => a - (b + 1) = (c - 1) - d
      OBVIOUS
    <3>6. (Count("open", o, at - 1)) - (Count("close", o, at - 1) + 1) = (Len(curr_scope_node) - 1) - Len(Scope(o))
      BY <2>2, <3>3, <3>4, <3>5
    <3>7. QED
      BY <3>2, <3>3, <3>6
  <2>9. CASE ~Opens(at) /\ program[at].kind # "close"
    BY <1>3, <1>4, <1>5, <2>2, <2>3, <2>4, <2>6, <2>9
  <2>10. QED
    BY <2>7, <2>8, <2>9
<1>7. ASSUME NEW i \in 1 .. Seen', NEW o \in 1 .. i
      PROVE  (Count("open", o, i - 1) - Count("close", o, i - 1) = Len(Scope(i)) - Len(Scope(o)))'
  <2>1. CASE i \in 1 .. at
    <3>1. Count("open", o, i - 1) - Count("close", o, i - 1) = Len(Scope(i)) - Len(Scope(o))
      BY <1>1, <2>1 DEF WalkInv, TextShowsTheTree
    <3>2. o \in 1 .. at
      BY <1>1, <2>1
    <3>3. QED
      BY <1>1, <2>1, <3>1, <3>2
  <2>2. CASE i = at + 1 /\ o \in 1 .. at
    <3>1. i - 1 = at
      BY <1>1, <2>2
    <3>2. QED
      BY <1>1, <1>6, <2>2, <3>1
  <2>3. CASE i = at + 1 /\ o = i
    <3>1. at \in Nat /\ o \in Nat \ {0} /\ o = at + 1 /\ o <= at + 1 /\ i - 1 = at
      BY <1>1, <2>3
    <3>2. Count("open", o, at) = 0 /\ Count("close", o, at) = 0
      BY <3>1, CountIs
    <3>3. Scope(o)' = curr_scope_node' /\ Scope(i)' = curr_scope_node' /\ Len(curr_scope_node') \in Int
      BY <1>1, <1>3, <1>5, <2>3
    <3>4. QED
      BY <1>1, <3>1, <3>2, <3>3
  <2>4. QED
    BY <1>1, <2>1, <2>2, <2>3
<1>8. ASSUME NEW o \in 1 .. at, Opens(o)
      PROVE  o \in Enclosing(at + 1) <=> IsPrefix(Entered(o), curr_scope_node')
  <2>1. o \in Enclosing(at + 1)
            <=> (o = at \/ o \in Enclosing(at)) /\ Len(curr_scope_node') >= Len(Entered(o))
    <3>1. o \in Enclosing(at + 1)
              <=> (o = at \/ o \in Enclosing(at)) /\ Count("open", o, at) > Count("close", o, at)
      BY <1>1, <1>8, EnclosingNext
    <3>2. Len(curr_scope_node') \in Int
      BY <1>3, <1>5
    <3>3. /\ Count("open", o, at) - Count("close", o, at) = Len(curr_scope_node') - Len(Scope(o))
          /\ Count("open", o, at) \in Nat /\ Count("close", o, at) \in Nat
          /\ Len(Entered(o)) = Len(Scope(o)) + 1 /\ Len(Scope(o)) \in Nat
      BY <1>4, <1>6
    <3>4. Count("open", o, at) > Count("close", o, at) <=> Len(curr_scope_node') >= Len(Entered(o))
      BY <3>2, <3>3
    <3>5. QED
      BY <3>1, <3>4
  <2>2. CASE o = at
    <3>1. Enters
      BY <1>8, <2>2, CursorMoves
    <3>2. curr_scope_node' = Entered(at)
      BY <3>1, CursorMoves
    <3>3. QED
      BY <1>4, <2>1, <2>2, <3>2, PrefixOfItself
  <2>3. CASE o # at
    <3>1. o \in 1 .. at - 1 /\ at \in 1 .. Seen /\ o + 1 \in 1 .. at /\ o \in 1 .. Seen - 1
      BY <1>1, <2>3
    <3>2. o \in Enclosing(at) <=> IsPrefix(Entered(o), curr_scope_node)
      BY <1>1, <1>8, <3>1 DEF WalkInv, TextShowsTheTree
    <3>3. IsPrefix(Entered(o), curr_scope_node) => Len(Entered(o)) <= Len(curr_scope_node)
      BY <1>3, <1>4, PrefixIs
    <3>4. CASE Keeps
      <4>1. curr_scope_node' = curr_scope_node
        BY <3>4, CursorMoves
      <4>2. QED
        BY <1>3, <1>4, <2>1, <2>3, <3>2, <3>3, <4>1
    <3>5. CASE Enters
      <4>1. curr_scope_node' = NewChild(curr_scope_node) /\ NewChild(curr_scope_node) \notin DOMAIN children
        BY <1>1, <3>5, CursorMoves, AtTheCursor
      <4>2. Scope(o + 1) = Entered(o)
        <5>1. Scope(o + 1) = CASE Opens(o) -> Entered(o)
                               [] program[o].kind = "close" -> Parent(Scope(o))
                               [] OTHER -> Scope(o)
          BY <3>1 DEF WalkInv, LinesWalkTheTree
        <5>2. program[o].kind # "close"
          BY <1>8 DEF Opens
        <5>3. QED
          BY <1>8, <5>1, <5>2
      <4>3. Entered(o) # NewChild(curr_scope_node)
        BY <1>1, <3>1, <4>1, <4>2
      <4>4. IsPrefix(Entered(o), NewChild(curr_scope_node)) <=> IsPrefix(Entered(o), curr_scope_node)
        <5> DEFINE c == children[curr_scope_node]
        <5>1. c \in Nat /\ NewChild(curr_scope_node) = Append(curr_scope_node, c)
          BY <1>1, AtTheCursor DEF NewChild
        <5> HIDE DEF c
        <5>2. QED
          BY <1>3, <1>4, <4>3, <5>1, PrefixOfChild
      <4>5. Len(curr_scope_node') = Len(curr_scope_node) + 1
        BY <1>1, <4>1, AtTheCursor
      <4>6. QED
        BY <1>3, <1>4, <2>1, <2>3, <3>2, <3>3, <4>1, <4>4, <4>5
    <3>6. CASE Leaves
      <4>1. curr_scope_node' = Parent(curr_scope_node)
        BY <3>6, CursorMoves
      <4>2. IsPrefix(Entered(o), Parent(curr_scope_node))
                <=> IsPrefix(Entered(o), curr_scope_node) /\ Len(Entered(o)) < Len(curr_scope_node)
        BY <1>3, <1>4, PrefixOfParent
      <4>3. Len(Parent(curr_scope_node)) = Len(curr_scope_node) - 1
        BY <1>3, ParentIs
      <4>4. QED
        BY <1>3, <1>4, <2>1, <2>3, <3>2, <4>1, <4>2, <4>3
    <3>7. QED
      BY <3>4, <3>5, <3>6
  <2>4. QED
    BY <2>2, <2>3
<1>9. ASSUME NEW i \in 1 .. Seen', NEW o \in 1 .. i - 1, Opens(o)'
      PROVE  (o \in Enclosing(i) <=> IsPrefix(Entered(o), Scope(i)))'
  <2>1. o \in 1 .. at /\ Opens(o) /\ i \in 1 .. at + 1
    BY <1>1, <1>9
  <2>2. CASE i \in 1 .. at
    <3>1. o \in Enclosing(i) <=> IsPrefix(Entered(o), Scope(i))
      BY <1>1, <2>1, <2>2 DEF WalkInv, TextShowsTheTree
    <3>2. QED
      BY <1>1, <2>1, <2>2, <3>1 DEF IsPrefix
  <2>3. CASE i = at + 1
    <3>1. o \in Enclosing(i) <=> IsPrefix(Entered(o), curr_scope_node')
      BY <1>8, <2>1, <2>3
    <3>2. Scope(i)' = curr_scope_node' /\ Entered(o)' = Entered(o) /\ Enclosing(i)' = Enclosing(i)
      BY <1>1, <2>1, <2>3
    <3>3. QED
      BY <3>1, <3>2 DEF IsPrefix
  <2>4. QED
    BY <1>1, <2>1, <2>2, <2>3
<1>10. QED
  BY <1>7, <1>9 DEF TextShowsTheTree

LEMMA FirstPass ==
    ASSUME WalkInv, pass = 0, Keeps \/ Enters \/ Leaves
    PROVE  WalkInv'
<1>1. VisitsAreTraced' /\ pass' = 0
  BY FirstPassStep
<1>2. scope_child_num' = <<0>>
  BY DEF WalkInv, CountersFollow, Keeps, Enters, Leaves, inScopes
<1>3. CountersFollow'
  BY <1>1, <1>2 DEF CountersFollow
<1>4. QED
  BY <1>1, <1>3, TreeStaysClosed, LinesStillWalk, ScopesStayFresh, TextStillShows DEF WalkInv

-----------------------------------------------------------------------------
(* The second pass *)

LEMMA NodeAbove ==
    ASSUME NEW n \in Node, NEW d \in 1 .. Len(n)
    PROVE  /\ d \in Nat /\ Len(n) \in Nat
           /\ SubSeq(n, 1, d) \in Node /\ Len(SubSeq(n, 1, d)) = d
           /\ \A k \in 1 .. d : SubSeq(n, 1, d)[k] = n[k]
           /\ d = Len(n) <=> SubSeq(n, 1, d) = n
<1>1. Len(n) \in Nat /\ d \in Nat
  BY DEF Node
<1>2. SubSeq(n, 1, d) \in Node /\ Len(SubSeq(n, 1, d)) = d
  BY <1>1 DEF Node
<1>3. \A k \in 1 .. d : SubSeq(n, 1, d)[k] = n[k]
  BY <1>1 DEF Node
<1>4. d = Len(n) => SubSeq(n, 1, d) = n
  BY <1>1, <1>2, <1>3, NodesAreEqual
<1>5. QED
  BY <1>1, <1>2, <1>3, <1>4

LEMMA NodesAbove ==
    ASSUME NEW m \in Node, NEW n \in Node, NEW d \in 1 .. Len(m), d <= Len(n),
           \A k \in 1 .. d : m[k] = n[k]
    PROVE  SubSeq(m, 1, d) = SubSeq(n, 1, d)
<1>1. d \in Nat /\ Len(n) \in Nat /\ d \in 1 .. Len(n)
  BY DEF Node
<1>2. /\ SubSeq(m, 1, d) \in Node /\ Len(SubSeq(m, 1, d)) = d
      /\ \A k \in 1 .. d : SubSeq(m, 1, d)[k] = m[k]
  BY NodeAbove
<1>3. /\ SubSeq(n, 1, d) \in Node /\ Len(SubSeq(n, 1, d)) = d
      /\ \A k \in 1 .. d : SubSeq(n, 1, d)[k] = n[k]
  BY <1>1, NodeAbove
<1>4. QED
  BY <1>2, <1>3, NodesAreEqual

LEMMA OpenedGrows ==
    ASSUME NEW n, NEW i \in Nat \ {0}, NEW j \in Nat \ {0}, i <= j
    PROVE  Cardinality(OpenedIn(n, i)) <= Cardinality(OpenedIn(n, j))
<1>1. OpenedIn(n, i) \subseteq OpenedIn(n, j)
  BY DEF OpenedIn
<1>2. IsFiniteSet(OpenedIn(n, j))
  <2>1. IsFiniteSet(1 .. j - 1)
    BY FS_Interval
  <2>2. OpenedIn(n, j) \in SUBSET (1 .. j - 1)
    BY DEF OpenedIn
  <2>3. QED
    BY <2>1, <2>2, FS_Subset
<1>3. QED
  BY <1>1, <1>2, FS_Subset

\* Where the second pass is.
LEMMA AtTheLine ==
    ASSUME WalkInv, pass = 1, at \in 1 .. Len(program)
    PROVE  /\ at \in Nat \ {0} /\ Len(program) \in Nat
           /\ Seen = Len(program) /\ Len(trace[0]) = Len(program) /\ Len(trace[1]) = at - 1
           /\ curr_scope_node = Scope(at)
           /\ curr_scope_node \in DOMAIN children \ {tree}
           /\ curr_scope_node \in Node /\ Len(curr_scope_node) \in Nat \ {0}
           /\ scope_child_num \in Node /\ Len(scope_child_num) = Len(curr_scope_node)
           /\ \A d \in 1 .. Len(curr_scope_node) :
                 scope_child_num[d] + (IF d < Len(curr_scope_node) THEN 1 ELSE 0)
                     = Cardinality(OpenedIn(SubSeq(curr_scope_node, 1, d), at))
<1>1. /\ Len(program) \in Nat /\ Seen = Len(program) /\ Len(trace[0]) = Len(program)
      /\ Len(trace[1]) = at - 1
  BY VisitsAre DEF WalkInv
<1>2. /\ curr_scope_node = Scope(at)
      /\ scope_child_num \in Node /\ Len(scope_child_num) = Len(curr_scope_node)
      /\ \A d \in 1 .. Len(curr_scope_node) :
            scope_child_num[d] + (IF d < Len(curr_scope_node) THEN 1 ELSE 0)
                = Cardinality(OpenedIn(SubSeq(curr_scope_node, 1, d), at))
  BY <1>1 DEF WalkInv, CountersFollow, Node
<1>3. curr_scope_node \in DOMAIN children \ {tree}
  BY <1>1, <1>2 DEF WalkInv, LinesWalkTheTree
<1>4. QED
  BY <1>1, <1>2, <1>3, TreeNodes DEF WalkInv

\* The stack has the number of the next block in the scope, which the tree has too.
LEMMA NextBlockIs ==
    ASSUME WalkInv, pass = 1, at \in 1 .. Len(program), program[at].kind = "open"
    PROVE  /\ Top(scope_child_num) = Cardinality(OpenedIn(curr_scope_node, at))
           /\ Append(curr_scope_node, Top(scope_child_num)) = Entered(at)
           /\ HasChild(curr_scope_node, Top(scope_child_num))
<1> DEFINE d == Len(curr_scope_node)
<1>1. d \in 1 .. Len(curr_scope_node) /\ SubSeq(curr_scope_node, 1, d) = curr_scope_node
  BY AtTheLine, NodeAbove
<1>2. Top(scope_child_num) = scope_child_num[d] /\ scope_child_num[d] \in Nat
  BY AtTheLine DEF Top, Node
<1>3. Top(scope_child_num) = Cardinality(OpenedIn(curr_scope_node, at))
  <2>1. scope_child_num[d] + (IF d < Len(curr_scope_node) THEN 1 ELSE 0)
            = Cardinality(OpenedIn(curr_scope_node, at))
    BY <1>1, AtTheLine
  <2>2. QED
    BY <1>1, <1>2, <2>1
<1>4. /\ Cardinality(OpenedIn(curr_scope_node, at)) \in Nat
      /\ Cardinality(OpenedIn(curr_scope_node, at + 1)) = Cardinality(OpenedIn(curr_scope_node, at)) + 1
  BY AtTheLine, OpenedCounts DEF Opens
<1>5. /\ Cardinality(OpenedIn(curr_scope_node, at + 1))
            <= Cardinality(OpenedIn(curr_scope_node, Len(program) + 1))
      /\ Cardinality(OpenedIn(curr_scope_node, Len(program) + 1)) \in Nat
  <2>1. at + 1 \in Nat \ {0} /\ Len(program) + 1 \in Nat \ {0} /\ at + 1 <= Len(program) + 1
    BY AtTheLine
  <2>2. QED
    BY <2>1, OpenedGrows, OpenedCounts
<1>6. children[curr_scope_node] = Cardinality(OpenedIn(curr_scope_node, Len(program) + 1))
  BY AtTheLine DEF WalkInv, TreeIsClosed
<1>7. HasChild(curr_scope_node, Top(scope_child_num))
  BY <1>3, <1>4, <1>5, <1>6 DEF HasChild
<1>8. QED
  BY <1>3, <1>7, AtTheLine DEF Entered

\* What the stack has to be at the line below.
LEMMA CountersAdvance ==
    ASSUME WalkInv, pass = 1, Noted,
           at < Len(program) => /\ curr_scope_node' = Scope(at + 1)
                                /\ scope_child_num' \in Node
                                /\ Len(scope_child_num') = Len(curr_scope_node')
                                /\ \A d \in 1 .. Len(curr_scope_node') :
                                      scope_child_num'[d] + (IF d < Len(curr_scope_node') THEN 1 ELSE 0)
                                          = Cardinality(OpenedIn(SubSeq(curr_scope_node', 1, d), at + 1))
    PROVE  VisitsAreTraced' /\ CountersFollow'
<1>1. /\ VisitsAreTraced' /\ pass' = 1 /\ trace'[0] = trace[0]
      /\ \A i \in 1 .. Len(program) : Scope(i)' = Scope(i)
      /\ Len(trace'[1]) = at
      /\ \A i \in 1 .. at - 1 : trace'[1][i] = trace[1][i]
      /\ trace'[1][at].node = curr_scope_node
  BY NotedAgain DEF WalkInv
<1>2. at \in 1 .. Len(program) /\ at' = at + 1 /\ program' = program
  BY DEF Noted
<1>3. /\ at \in Nat \ {0} /\ Len(program) \in Nat /\ Len(trace[1]) = at - 1 /\ curr_scope_node = Scope(at)
  BY <1>2, AtTheLine
<1>4. ASSUME NEW i \in 1 .. Len(trace'[1])
      PROVE  trace'[1][i].node = Scope(i)'
  <2>1. i \in 1 .. Len(program) /\ i \in 1 .. at
    BY <1>1, <1>2
  <2>2. CASE i = at
    BY <1>1, <1>3, <2>1, <2>2
  <2>3. CASE i # at
    <3>1. i \in 1 .. Len(trace[1]) /\ i \in 1 .. at - 1
      BY <1>3, <2>1, <2>3
    <3>2. trace[1][i].node = Scope(i)
      BY <3>1 DEF WalkInv, CountersFollow
    <3>3. QED
      BY <1>1, <2>1, <3>1, <3>2
  <2>4. QED
    BY <2>2, <2>3
<1>5. PICK j \in Nat : j = at + 1
  BY <1>3
<1>6. /\ \A k \in 1 .. j - 1 : Scope(k)' = Scope(k)
      /\ \A k : Opens(k)' = Opens(k)
  BY <1>1, <1>2, <1>3, <1>5 DEF Opens
<1>7. CASE at < Len(program)
  <2>1. j \in 1 .. Len(program)
    BY <1>3, <1>5, <1>7
  <2>2. curr_scope_node' = Scope(j)'
    BY <1>1, <1>5, <1>7, <2>1
  <2>3. at' = j
    BY <1>2, <1>5
  <2>4. ASSUME NEW d \in 1 .. Len(curr_scope_node')
        PROVE  scope_child_num'[d] + (IF d < Len(curr_scope_node') THEN 1 ELSE 0)
                  = Cardinality(OpenedIn(SubSeq(curr_scope_node, 1, d), at))'
    <3>1. PICK m : m = SubSeq(curr_scope_node', 1, d)
      OBVIOUS
    <3>2. OpenedIn(SubSeq(curr_scope_node, 1, d), at)' = OpenedIn(m, j)
      BY <1>6, <2>3, <3>1 DEF OpenedIn
    <3>3. QED
      BY <1>5, <1>7, <3>1, <3>2
  <2>5. Scope(at)' = Scope(j)'
    BY <2>3 DEF Scope
  <2>6. QED
    BY <1>1, <1>4, <1>7, <2>2, <2>4, <2>5 DEF CountersFollow, Node
<1>8. CASE ~(at < Len(program))
  <2>1. ~(at' <= Len(program'))
    BY <1>2, <1>3, <1>8
  <2>2. QED
    BY <1>1, <1>4, <2>1 DEF CountersFollow
<1>9. QED
  BY <1>1, <1>7, <1>8

\* What the second pass has counted in the scope at depth d, at line i.
CountedTo(node, stack, i) ==
    \A d \in 1 .. Len(node) :
        stack[d] + (IF d < Len(node) THEN 1 ELSE 0) = Cardinality(OpenedIn(SubSeq(node, 1, d), i))

LEMMA SecondPassKeeps ==
    ASSUME WalkInv, pass = 1, Keeps
    PROVE  VisitsAreTraced' /\ CountersFollow'
<1>1. /\ Noted /\ at \in 1 .. Len(program) /\ ~Opens(at) /\ program[at].kind # "close"
      /\ curr_scope_node' = curr_scope_node /\ scope_child_num' = scope_child_num
  BY DEF Keeps, Noted, Opens, inScopes
<1>2. /\ at \in Nat \ {0} /\ Len(program) \in Nat /\ Seen = Len(program) /\ curr_scope_node = Scope(at)
      /\ scope_child_num \in Node /\ Len(scope_child_num) = Len(curr_scope_node)
      /\ CountedTo(curr_scope_node, scope_child_num, at)
  BY <1>1, AtTheLine DEF CountedTo
<1>3. ASSUME at < Len(program)
      PROVE  curr_scope_node' = Scope(at + 1)
  <2>1. at \in 1 .. Seen - 1
    BY <1>2, <1>3
  <2>2. QED
    BY <1>1, <1>2, <2>1 DEF WalkInv, LinesWalkTheTree
<1>4. \A n : Cardinality(OpenedIn(n, at + 1)) = Cardinality(OpenedIn(n, at))
  BY <1>1, <1>2, OpenedCounts
<1>5. CountedTo(curr_scope_node', scope_child_num', at + 1)
  BY <1>1, <1>2, <1>4 DEF CountedTo
<1>6. QED
  BY <1>1, <1>2, <1>3, <1>5, CountersAdvance DEF CountedTo

LEMMA SecondPassEnters ==
    ASSUME WalkInv, pass = 1, EntersAgain
    PROVE  VisitsAreTraced' /\ CountersFollow'
<1> DEFINE d1 == Len(curr_scope_node)
           top == Top(scope_child_num)
<1>1. /\ at \in 1 .. Len(program) /\ program[at].kind = "open"
      /\ curr_scope_node' = Append(curr_scope_node, top)
      /\ scope_child_num' = Append(scope_child_num, 0)
  BY DEF EntersAgain, Push
<1>2. /\ at \in Nat \ {0} /\ Len(program) \in Nat /\ Seen = Len(program) /\ Len(trace[0]) = Len(program)
      /\ curr_scope_node = Scope(at)
      /\ curr_scope_node \in Node /\ d1 \in Nat \ {0}
      /\ scope_child_num \in Node /\ Len(scope_child_num) = d1
      /\ CountedTo(curr_scope_node, scope_child_num, at)
  BY <1>1, AtTheLine DEF CountedTo
<1>3. /\ curr_scope_node' = Entered(at)
      /\ top = Cardinality(OpenedIn(curr_scope_node, at)) /\ top \in Nat
      /\ Noted
  BY <1>1, <1>2, NextBlockIs, OpenedCounts DEF EntersAgain
<1> HIDE DEF top
<1>4. /\ curr_scope_node' \in Node /\ Len(curr_scope_node') = d1 + 1
      /\ \A k \in 1 .. d1 : curr_scope_node'[k] = curr_scope_node[k]
  BY <1>1, <1>2, <1>3, ChildIs
<1>5. /\ scope_child_num' \in Node /\ Len(scope_child_num') = d1 + 1
      /\ scope_child_num'[d1 + 1] = 0
      /\ \A k \in 1 .. d1 : scope_child_num'[k] = scope_child_num[k]
  <2> DEFINE stack == scope_child_num
  <2>1. stack \in Node /\ Len(stack) = d1 /\ 0 \in Nat
    BY <1>2
  <2> HIDE DEF stack
  <2>2. /\ Append(stack, 0) \in Node /\ Len(Append(stack, 0)) = Len(stack) + 1
        /\ Append(stack, 0)[Len(stack) + 1] = 0
        /\ \A k \in 1 .. Len(stack) : Append(stack, 0)[k] = stack[k]
    BY <2>1, ChildIs
  <2>3. scope_child_num' = Append(stack, 0) /\ stack = scope_child_num
    BY <1>1 DEF stack
  <2>4. QED
    BY <2>1, <2>2, <2>3
<1>6. ASSUME at < Len(program)
      PROVE  curr_scope_node' = Scope(at + 1)
  <2>1. at \in 1 .. Seen - 1
    BY <1>2, <1>6
  <2>2. Scope(at + 1) = CASE Opens(at) -> Entered(at)
                           [] program[at].kind = "close" -> Parent(Scope(at))
                           [] OTHER -> Scope(at)
    BY <2>1 DEF WalkInv, LinesWalkTheTree
  <2>3. Opens(at) /\ program[at].kind # "close"
    BY <1>1 DEF Opens
  <2>4. QED
    BY <1>3, <2>2, <2>3
<1>7. ASSUME NEW n
      PROVE  /\ Cardinality(OpenedIn(n, at)) \in Nat
             /\ Cardinality(OpenedIn(n, at + 1))
                  = Cardinality(OpenedIn(n, at)) + (IF curr_scope_node = n THEN 1 ELSE 0)
  BY <1>1, <1>2, OpenedCounts DEF Opens
<1>8. ASSUME NEW d \in 1 .. Len(curr_scope_node')
      PROVE  scope_child_num'[d] + (IF d < Len(curr_scope_node') THEN 1 ELSE 0)
                = Cardinality(OpenedIn(SubSeq(curr_scope_node', 1, d), at + 1))
  <2>1. CASE d = d1 + 1
    <3>1. SubSeq(curr_scope_node', 1, d) = Entered(at)
      BY <1>3, <1>4, <2>1, NodeAbove
    <3>2. OpenedIn(Entered(at), at + 1) = {}
      <4>1. \A i \in 1 .. at : ~IsPrefix(Entered(at), Scope(i))
        BY <1>1, <1>2 DEF WalkInv, ScopesAreFresh, Opens
      <4>2. IsPrefix(Entered(at), Entered(at))
        BY <1>3, <1>4, PrefixOfItself
      <4>3. \A i \in 1 .. at : Scope(i) # Entered(at)
        BY <4>1, <4>2
      <4>4. QED
        BY <1>2, <4>3 DEF OpenedIn
    <3>3. Cardinality(OpenedIn(Entered(at), at + 1)) = 0
      BY <3>2, FS_EmptySet
    <3>4. scope_child_num'[d] = 0 /\ ~(d < Len(curr_scope_node'))
      BY <1>2, <1>4, <1>5, <2>1
    <3>5. scope_child_num'[d] + (IF d < Len(curr_scope_node') THEN 1 ELSE 0) = 0
      BY <3>4
    <3>6. QED
      BY <3>1, <3>3, <3>5
  <2>2. CASE d \in 1 .. d1
    <3>1. SubSeq(curr_scope_node', 1, d) = SubSeq(curr_scope_node, 1, d)
      BY <1>2, <1>4, <2>2, NodesAbove
    <3>2. scope_child_num[d] + (IF d < d1 THEN 1 ELSE 0)
              = Cardinality(OpenedIn(SubSeq(curr_scope_node, 1, d), at))
      BY <1>2, <2>2 DEF CountedTo
    <3>3. d = d1 <=> SubSeq(curr_scope_node, 1, d) = curr_scope_node
      BY <1>2, <2>2, NodeAbove
    <3>4. scope_child_num[d] \in Nat /\ scope_child_num'[d] = scope_child_num[d] /\ d < Len(curr_scope_node')
      <4>1. d < Len(curr_scope_node')
        BY <1>2, <1>4, <2>2
      <4>2. d \in 1 .. Len(scope_child_num) /\ scope_child_num \in Seq(Nat)
        BY <1>2, <2>2 DEF Node
      <4>3. scope_child_num[d] \in Nat
        BY <4>2
      <4>4. QED
        BY <1>5, <2>2, <4>1, <4>3
    <3>5. Cardinality(OpenedIn(SubSeq(curr_scope_node, 1, d), at + 1))
              = Cardinality(OpenedIn(SubSeq(curr_scope_node, 1, d), at)) + (IF d = d1 THEN 1 ELSE 0)
      BY <1>7, <3>3
    <3>6. scope_child_num[d] + 1 = Cardinality(OpenedIn(SubSeq(curr_scope_node, 1, d), at + 1))
      <4>1. Cardinality(OpenedIn(SubSeq(curr_scope_node, 1, d), at)) \in Nat
        BY <1>7
      <4>2. CASE d = d1
        BY <1>2, <3>2, <3>4, <3>5, <4>1, <4>2
      <4>3. CASE d # d1
        <5>1. d < d1
          BY <1>2, <2>2, <4>3
        <5>2. QED
          BY <3>2, <3>5, <4>1, <4>3, <5>1
      <4>4. QED
        BY <4>2, <4>3
    <3>7. QED
      BY <3>1, <3>4, <3>6
  <2>3. QED
    BY <1>2, <1>4, <2>1, <2>2
<1>9. QED
  BY <1>3, <1>4, <1>5, <1>6, <1>8, CountersAdvance

LEMMA SecondPassLeaves ==
    ASSUME WalkInv, pass = 1, Leaves
    PROVE  VisitsAreTraced' /\ CountersFollow'
<1> DEFINE d1 == Len(curr_scope_node)
<1>1. /\ Noted /\ at \in 1 .. Len(program) /\ program[at].kind = "close" /\ ~Opens(at)
      /\ curr_scope_node' = Parent(curr_scope_node)
      /\ scope_child_num' = NextChild(Pop(scope_child_num))
  <2>1. Noted /\ program[at].kind = "close" /\ curr_scope_node' = Parent(curr_scope_node)
    BY DEF Leaves
  <2>2. scope_child_num' = NextChild(Pop(scope_child_num))
    BY DEF Leaves
  <2>3. at \in 1 .. Len(program)
    BY <2>1 DEF Noted
  <2>4. QED
    BY <2>1, <2>2, <2>3 DEF Opens
<1>2. /\ at \in Nat \ {0} /\ Len(program) \in Nat /\ Seen = Len(program)
      /\ curr_scope_node = Scope(at)
      /\ curr_scope_node \in Node /\ curr_scope_node # tree /\ d1 \in Nat \ {0}
      /\ scope_child_num \in Node /\ Len(scope_child_num) = d1
      /\ CountedTo(curr_scope_node, scope_child_num, at)
  BY <1>1, AtTheLine DEF CountedTo
<1>3. ASSUME at < Len(program)
      PROVE  /\ curr_scope_node' = Scope(at + 1)
             /\ scope_child_num' \in Node
             /\ Len(scope_child_num') = Len(curr_scope_node')
             /\ \A d \in 1 .. Len(curr_scope_node') :
                   scope_child_num'[d] + (IF d < Len(curr_scope_node') THEN 1 ELSE 0)
                       = Cardinality(OpenedIn(SubSeq(curr_scope_node', 1, d), at + 1))
  <2>1. at \in 1 .. Seen - 1 /\ at + 1 \in 1 .. Seen
    BY <1>2, <1>3
  <2>2. curr_scope_node' = Scope(at + 1)
    BY <1>1, <1>2, <2>1 DEF WalkInv, LinesWalkTheTree
  <2>3. Scope(at + 1) \in DOMAIN children \ {tree}
    BY <2>1 DEF WalkInv, LinesWalkTheTree
  <2>4. /\ curr_scope_node' \in Node /\ Len(curr_scope_node') = d1 - 1
        /\ \A k \in 1 .. d1 - 1 : curr_scope_node'[k] = curr_scope_node[k]
    BY <1>1, <1>2, ParentIs
  <2>5. d1 - 1 \in Nat \ {0}
    BY <2>2, <2>3, <2>4, TreeNodes, SMTT(60) DEF WalkInv
  <2> DEFINE popped == Pop(scope_child_num)
             left == Pop(popped)
             ended == Top(popped) + 1
  <2>6. /\ popped \in Node /\ Len(popped) = d1 - 1
        /\ \A k \in 1 .. d1 - 1 : popped[k] = scope_child_num[k]
    <3>1. scope_child_num # tree
      BY <1>2 DEF tree
    <3>2. popped = Parent(scope_child_num)
      BY DEF Pop, Parent
    <3>3. QED
      BY <1>2, <3>1, <3>2, ParentIs
  <2>7. scope_child_num' = Append(left, ended)
    BY <1>1, <2>5, <2>6 DEF NextChild, Push
  <2>8. Top(popped) = scope_child_num[d1 - 1] /\ Top(popped) \in Nat
    BY <2>5, <2>6 DEF Top, Node
  <2>9. /\ left \in Node /\ Len(left) = d1 - 2
        /\ \A k \in 1 .. d1 - 2 : left[k] = scope_child_num[k]
    <3> HIDE DEF popped
    <3>1. popped # tree
      BY <2>5, <2>6 DEF tree
    <3>2. left = Parent(popped)
      BY DEF Pop, Parent
    <3>3. /\ left \in Node /\ Len(left) = Len(popped) - 1
          /\ \A k \in 1 .. Len(popped) - 1 : left[k] = popped[k]
      BY <2>6, <3>1, <3>2, ParentIs
    <3>4. QED
      BY <1>2, <2>5, <2>6, <3>3
  <2>10. ended \in Nat /\ ended = scope_child_num[d1 - 1] + 1
    BY <2>8
  <2> HIDE DEF popped, left, ended
  <2>11. /\ scope_child_num' \in Node /\ Len(scope_child_num') = d1 - 1
         /\ scope_child_num'[d1 - 1] = ended
         /\ \A k \in 1 .. d1 - 2 : scope_child_num'[k] = scope_child_num[k]
    <3>1. /\ scope_child_num' \in Node /\ Len(scope_child_num') = Len(left) + 1
          /\ scope_child_num'[Len(left) + 1] = ended
          /\ \A k \in 1 .. Len(left) : scope_child_num'[k] = left[k]
      BY <2>7, <2>9, <2>10, ChildIs
    <3>2. QED
      BY <2>5, <2>9, <3>1
  <2>12. \A n : Cardinality(OpenedIn(n, at + 1)) = Cardinality(OpenedIn(n, at))
    BY <1>1, <1>2, OpenedCounts
  <2>13. ASSUME NEW d \in 1 .. Len(curr_scope_node')
         PROVE  scope_child_num'[d] + (IF d < Len(curr_scope_node') THEN 1 ELSE 0)
                   = Cardinality(OpenedIn(SubSeq(curr_scope_node', 1, d), at + 1))
    <3>1. d \in 1 .. d1 - 1 /\ d \in 1 .. d1 /\ d < d1
      BY <1>2, <2>4, <2>5
    <3>2. SubSeq(curr_scope_node', 1, d) = SubSeq(curr_scope_node, 1, d)
      BY <1>2, <2>4, <3>1, NodesAbove
    <3>3. scope_child_num[d] + 1 = Cardinality(OpenedIn(SubSeq(curr_scope_node, 1, d), at))
      BY <1>2, <3>1 DEF CountedTo
    <3>4. scope_child_num'[d] + (IF d < Len(curr_scope_node') THEN 1 ELSE 0) = scope_child_num[d] + 1
      <4>1. scope_child_num[d] \in Nat
        BY <1>2, <3>1, SMTT(60) DEF Node
      <4>2. CASE d = d1 - 1
        BY <2>4, <2>10, <2>11, <4>1, <4>2
      <4>3. CASE d # d1 - 1
        BY <1>2, <2>4, <2>11, <3>1, <4>1, <4>3, SMTT(60)
      <4>4. QED
        BY <4>2, <4>3
    <3>5. QED
      BY <2>12, <3>2, <3>3, <3>4
  <2>14. QED
    BY <2>2, <2>4, <2>11, <2>13
<1>4. QED
  BY <1>1, <1>3, CountersAdvance

-----------------------------------------------------------------------------
(* The invariant *)

LEMMA SecondPass ==
    ASSUME WalkInv, pass = 1, Keeps \/ EntersAgain \/ Leaves
    PROVE  WalkInv'
<1>1. at \in 1 .. Len(program) /\ UNCHANGED <<program, children>>
  BY DEF Keeps, EntersAgain, Leaves, Noted
<1>2. Noted
  BY <1>1, NextBlockIs DEF Keeps, EntersAgain, Leaves
<1>3. /\ trace'[0] = trace[0] /\ Seen' = Seen /\ Seen = Len(program) /\ Seen \in Nat
      /\ \A i \in 1 .. Len(program) : Scope(i)' = Scope(i)
  BY <1>2, VisitsAre, NotedAgain DEF WalkInv
<1>4. TreeIsClosed' /\ LinesWalkTheTree' /\ ScopesAreFresh' /\ TextShowsTheTree'
  BY <1>1, <1>3, WalkStays
<1>5. VisitsAreTraced' /\ CountersFollow'
  BY SecondPassKeeps, SecondPassEnters, SecondPassLeaves
<1>6. QED
  BY <1>4, <1>5 DEF WalkInv

LEMMA PassesMeet ==
    ASSUME WalkInv, NextPass
    PROVE  WalkInv'
<1>1. /\ pass = 0 /\ at > Len(program) /\ pass' = 1 /\ at' = 1 /\ curr_scope_node' = FirstScope
      /\ UNCHANGED <<program, scope_child_num, trace, children>>
  BY DEF NextPass, scopeVars
<1>2. /\ Len(program) \in Nat /\ at = Len(program) + 1 /\ Len(trace[0]) = at - 1 /\ Len(trace[1]) = 0
      /\ Seen = at /\ DOMAIN trace[0] = 1 .. Len(trace[0])
  BY <1>1, VisitsAre DEF WalkInv
<1>3. VisitsAreTraced'
  BY <1>1, <1>2 DEF WalkInv, VisitsAreTraced
<1>4. Seen' = Len(program) /\ Seen' \in Nat /\ Seen' <= Seen
  BY <1>1, <1>2 DEF Seen
<1>5. \A i \in 1 .. Len(program) : Scope(i)' = Scope(i)
  BY <1>1, <1>2 DEF Scope
<1>6. TreeIsClosed' /\ LinesWalkTheTree' /\ ScopesAreFresh' /\ TextShowsTheTree'
  BY <1>1, <1>4, <1>5, WalkStays
<1>7. CountersFollow'
  <2>1. \A i \in 1 .. Len(trace'[1]) : trace'[1][i].node = Scope(i)'
    BY <1>1, <1>2
  <2>2. ASSUME at' <= Len(program')
        PROVE  /\ curr_scope_node' = Scope(at)'
               /\ scope_child_num' \in Seq(Nat)
               /\ Len(scope_child_num') = Len(curr_scope_node')
               /\ \A d \in 1 .. Len(curr_scope_node') :
                     scope_child_num'[d] + (IF d < Len(curr_scope_node') THEN 1 ELSE 0)
                         = Cardinality(OpenedIn(SubSeq(curr_scope_node, 1, d), at))'
    <3>1. 1 \in 1 .. Len(program) /\ Seen >= 1
      BY <1>1, <1>2, <2>2
    <3>2. Scope(1) = FirstScope
      BY <3>1 DEF WalkInv, LinesWalkTheTree
    <3>3. Scope(at)' = Scope(1)'
      BY <1>1 DEF Scope
    <3>4. curr_scope_node' = Scope(at)'
      BY <1>1, <1>5, <3>1, <3>2, <3>3
    <3>5. scope_child_num' = <<0>> /\ Len(curr_scope_node') = 1
      BY <1>1 DEF WalkInv, CountersFollow, FirstScope
    <3>6. \A n : OpenedIn(n, at)' = {}
      BY <1>1 DEF OpenedIn
    <3>7. Cardinality(OpenedIn(SubSeq(curr_scope_node, 1, 1), at))' = 0
      <4>1. OpenedIn(SubSeq(curr_scope_node, 1, 1), at)' = {}
        BY <1>1 DEF OpenedIn
      <4>2. QED
        BY <4>1, FS_EmptySet
    <3>8. ASSUME NEW d \in 1 .. Len(curr_scope_node')
          PROVE  scope_child_num'[d] + (IF d < Len(curr_scope_node') THEN 1 ELSE 0)
                    = Cardinality(OpenedIn(SubSeq(curr_scope_node, 1, d), at))'
      <4>1. d = 1
        BY <3>5
      <4>2. scope_child_num'[d] + (IF d < Len(curr_scope_node') THEN 1 ELSE 0) = 0
        BY <3>5, <4>1
      <4>3. QED
        BY <3>7, <4>1, <4>2
    <3>9. QED
      BY <3>4, <3>5, <3>8
  <2>3. QED
    BY <1>1, <2>1, <2>2 DEF CountersFollow
<1>8. QED
  BY <1>3, <1>6, <1>7 DEF WalkInv

LEMMA WalkRests ==
    ASSUME WalkInv, UNCHANGED <<program, pass, at, trace, children, curr_scope_node, scope_child_num>>
    PROVE  WalkInv'
<1>1. Seen' = Seen /\ Seen \in Nat /\ \A i : Scope(i)' = Scope(i)
  BY VisitsAre DEF WalkInv, Seen, Scope
<1>2. TreeIsClosed' /\ LinesWalkTheTree' /\ ScopesAreFresh' /\ TextShowsTheTree'
  BY <1>1, WalkStays
<1>3. VisitsAreTraced'
  BY DEF WalkInv, VisitsAreTraced
<1>4. CountersFollow'
  <2>1. Scope(at)' = Scope(at)
    BY DEF Scope
  <2>2. \A d : OpenedIn(SubSeq(curr_scope_node, 1, d), at)' = OpenedIn(SubSeq(curr_scope_node, 1, d), at)
    BY <1>1 DEF OpenedIn, Opens
  <2>3. QED
    BY <1>1, <2>1, <2>2 DEF WalkInv, CountersFollow
<1>5. QED
  BY <1>2, <1>3, <1>4 DEF WalkInv

LEMMA WalkInit ==
    ASSUME Init
    PROVE  WalkInv
<1>0. /\ tree \in Node /\ Len(tree) = 0
      /\ FirstScope \in Node /\ Len(FirstScope) = 1 /\ FirstScope[1] = 0 /\ FirstScope # tree
  BY DEF Node, tree, FirstScope
<1>1. /\ program \in Programs /\ Len(program) \in Nat
      /\ pass = 0 /\ at = 1 /\ curr_scope_node = FirstScope /\ scope_child_num = <<0>>
      /\ trace = [p \in 0 .. 1 |-> <<>>]
      /\ children = [n \in {tree, FirstScope} |-> IF n = tree THEN 1 ELSE 0]
  BY ProgramIs DEF Init, ScopesInit
<1>2. trace[0] = <<>> /\ trace[1] = <<>> /\ Len(trace[0]) = 0 /\ Len(trace[1]) = 0
  BY <1>1
<1>3. VisitsAreTraced
  BY <1>1, <1>2 DEF VisitsAreTraced
<1>4. Seen = 1 /\ Scope(1) = FirstScope
  BY <1>1, <1>2 DEF Seen, Scope
<1>5. TreeIsClosed
  <2>1. /\ DOMAIN children = {tree, FirstScope} /\ children \in [DOMAIN children -> Nat]
        /\ DOMAIN children \subseteq Seq(Nat) /\ children[tree] = 1 /\ children[FirstScope] = 0
    BY <1>0, <1>1 DEF Node
  <2>2. ASSUME NEW n \in DOMAIN children, NEW k \in 0 .. Len(n)
        PROVE  SubSeq(n, 1, k) \in DOMAIN children
    <3>1. n \in Node /\ Len(n) \in Nat
      BY <1>0, <2>1
    <3>2. CASE k = 0
      <4>1. SubSeq(n, 1, 0) \in Node /\ Len(SubSeq(n, 1, 0)) = 0
        BY <3>1 DEF Node
      <4>2. SubSeq(n, 1, 0) = tree
        BY <1>0, <4>1, NodesAreEqual
      <4>3. QED
        BY <2>1, <3>2, <4>2
    <3>3. CASE k # 0
      <4>1. Len(n) = 0 \/ Len(n) = 1
        BY <1>0, <2>1
      <4>2. k \in 1 .. Len(n) /\ k = Len(n)
        BY <3>3, <4>1
      <4>3. SubSeq(n, 1, k) = n
        BY <3>1, <4>2, NodeAbove
      <4>4. QED
        BY <4>3
    <3>4. QED
      BY <3>2, <3>3
  <2>3. Parent(FirstScope) = tree /\ FirstScope[Len(FirstScope)] = 0
    <3>1. Parent(FirstScope) \in Node /\ Len(Parent(FirstScope)) = 0
      BY <1>0, ParentIs
    <3>2. QED
      BY <1>0, <3>1, NodesAreEqual
  <2>4. \A n \in DOMAIN children \ {tree} : children[n] = Cardinality(OpenedIn(n, Len(trace[0]) + 1))
    <3>1. Cardinality(OpenedIn(FirstScope, 1)) = 0
      BY OpenedCounts
    <3>2. Len(trace[0]) + 1 = 1
      BY <1>2
    <3>3. QED
      BY <2>1, <3>1, <3>2
  <2>5. \A n \in DOMAIN children : n # tree => n[Len(n)] < children[Parent(n)]
    BY <2>1, <2>3
  <2>6. QED
    BY <2>1, <2>2, <2>4, <2>5 DEF TreeIsClosed
<1>6. LinesWalkTheTree
  BY <1>0, <1>1, <1>4 DEF LinesWalkTheTree
<1>7. ScopesAreFresh
  <2>1. DOMAIN children = {tree, FirstScope}
    BY <1>1
  <2>2. ASSUME NEW n \in DOMAIN children
        PROVE  ~(Len(n) > 1)
    <3>1. Len(n) \in {0, 1}
      BY <1>0, <2>1
    <3>2. \A l \in {0, 1} : ~(l > 1)
      OBVIOUS
    <3>3. QED
      BY <3>1, <3>2
  <2>3. QED
    BY <1>2, <2>2 DEF ScopesAreFresh
<1>8. TextShowsTheTree
  <2>1. 1 \in Nat \ {0} /\ 0 \in Nat /\ 1 <= 0 + 1 /\ 1 = 0 + 1
    OBVIOUS
  <2>2. Count("open", 1, 0) = 0 /\ Count("close", 1, 0) = 0
    BY <2>1, CountIs
  <2>3. Len(Scope(1)) = 1
    BY <1>0, <1>4
  <2>4. QED
    BY <1>4, <2>2, <2>3 DEF TextShowsTheTree
<1>9. CountersFollow
  BY <1>1 DEF CountersFollow
<1>10. QED
  BY <1>3, <1>5, <1>6, <1>7, <1>8, <1>9 DEF WalkInv

LEMMA WalkStep ==
    ASSUME WalkInv, Next
    PROVE  WalkInv'
<1>1. /\ at \in 1 .. Len(program) + 1 /\ Len(program) \in Nat /\ pass \in 0 .. 1
  BY VisitsAre DEF WalkInv
<1>2. Stays \/ Keeps \/ Enters \/ EntersAgain \/ Leaves \/ NextPass
  BY <1>1, StepIs
<1>3. CASE Stays
  BY <1>3, WalkRests DEF Stays, inScopes
<1>4. CASE NextPass
  BY <1>4, PassesMeet
<1>5. CASE pass = 0 /\ (Keeps \/ Enters \/ Leaves)
  BY <1>5, FirstPass
<1>6. CASE pass = 1 /\ (Keeps \/ EntersAgain \/ Leaves)
  BY <1>6, SecondPass
<1>7. Enters => pass = 0
  BY DEF Enters
<1>8. EntersAgain => pass # 0
  BY DEF EntersAgain
<1>9. QED
  BY <1>1, <1>2, <1>3, <1>4, <1>5, <1>6, <1>7, <1>8

LEMMA WalkStepOrNone ==
    ASSUME WalkInv, [Next]_asmVars
    PROVE  WalkInv'
<1>1. CASE UNCHANGED asmVars
  BY <1>1, WalkRests DEF asmVars, scopeVars
<1>2. QED
  BY <1>1, WalkStep

LEMMA ToolchainAssembles ==
    ASSUME [ToolchainNext]_toolVars
    PROVE  [Next]_asmVars
<1>1. CASE Assembling
  BY <1>1 DEF Assembling
<1>2. CASE Failing \/ Piping \/ Disassembling \/ Disassembled \/ Generating \/ Loading
  BY <1>2 DEF Failing, Piping, Disassembling, Disassembled, Generating, Loading
<1>3. CASE UNCHANGED toolVars
  BY <1>3 DEF toolVars
<1>4. QED
  BY <1>1, <1>2, <1>3 DEF ToolchainNext

-----------------------------------------------------------------------------
(* Scopes and blocks *)

\* Two lines never open the same scope.
LEMMA EnteredOnce ==
    ASSUME WalkInv, NEW o \in Nat, NEW i \in 1 .. Seen, o < i, o \in 1 .. Len(trace[0]), Opens(o),
           NEW c \in Nat, o < c, c \in 1 .. Len(trace[0]), Opens(c)
    PROVE  Entered(c) # Entered(o)
<1>1. Seen \in Nat /\ o \in 1 .. Seen - 1 /\ o + 1 \in 1 .. c
  BY VisitsAre DEF WalkInv
<1>2. Scope(o + 1) = Entered(o)
  <2>1. Scope(o + 1) = CASE Opens(o) -> Entered(o)
                         [] program[o].kind = "close" -> Parent(Scope(o))
                         [] OTHER -> Scope(o)
    BY <1>1 DEF WalkInv, LinesWalkTheTree
  <2>2. program[o].kind # "close"
    BY DEF Opens
  <2>3. QED
    BY <2>1, <2>2
<1>3. Entered(o) \in Node
  <2>1. o \in Nat \ {0} /\ o \in 1 .. Seen
    BY <1>1
  <2>2. Scope(o) \in Node
    BY <2>1, TreeNodes DEF WalkInv, LinesWalkTheTree
  <2>3. QED
    BY <2>1, <2>2, EnteredIs
<1>4. ~IsPrefix(Entered(c), Entered(o))
  BY <1>1, <1>2 DEF WalkInv, ScopesAreFresh
<1>5. IsPrefix(Entered(o), Entered(o))
  BY <1>3, PrefixOfItself
<1>6. QED
  BY <1>4, <1>5

\* The innermost block around a line is the one whose scope the line is in.
LEMMA BlockIs ==
    ASSUME WalkInv, NEW i \in 1 .. Seen
    PROVE  \/ Scope(i) = FirstScope /\ Block(i) = 0
           \/ /\ Block(i) \in 1 .. i - 1 /\ Block(i) \in 1 .. Len(trace[0])
              /\ Opens(Block(i)) /\ Entered(Block(i)) = Scope(i)
<1>1. /\ Seen \in Nat /\ Len(trace[0]) \in Nat /\ Seen <= Len(trace[0]) + 1 /\ i \in Nat
  BY VisitsAre DEF WalkInv
<1>2. /\ Scope(i) \in DOMAIN children \ {tree} /\ Scope(i) \in Node /\ Len(Scope(i)) \in Nat \ {0}
  BY TreeNodes DEF WalkInv, LinesWalkTheTree
<1>3. Enclosing(i) \subseteq Nat /\ 0 \in Enclosing(i)
  BY <1>1 DEF Enclosing
<1>4. ASSUME NEW o \in Enclosing(i), o # 0
      PROVE  /\ o \in 1 .. i - 1 /\ o \in 1 .. Seen /\ o \in 1 .. Len(trace[0]) /\ Opens(o)
             /\ IsPrefix(Entered(o), Scope(i))
             /\ Scope(o) \in Node /\ Entered(o) \in Node /\ Len(Scope(o)) \in Nat \ {0}
             /\ Len(Entered(o)) = Len(Scope(o)) + 1 /\ Parent(Entered(o)) = Scope(o)
  <2>1. o \in 1 .. i - 1 /\ Opens(o)
    BY <1>4 DEF Enclosing, Opens
  <2>2. o \in 1 .. Seen /\ o \in 1 .. Len(trace[0]) /\ o \in Nat \ {0}
    BY <1>1, <2>1
  <2>3. IsPrefix(Entered(o), Scope(i))
    BY <1>1, <2>1 DEF WalkInv, TextShowsTheTree
  <2>4. Scope(o) \in Node /\ Len(Scope(o)) \in Nat \ {0}
    BY <2>2, TreeNodes DEF WalkInv, LinesWalkTheTree
  <2>5. QED
    BY <2>1, <2>2, <2>3, <2>4, EnteredIs
<1>5. CASE Len(Scope(i)) = 1
  <2>1. Enclosing(i) = {0}
    <3>1. ASSUME NEW o \in Enclosing(i), o # 0
          PROVE  FALSE
      <4>1. Len(Entered(o)) <= Len(Scope(i))
        BY <1>2, <1>4, <3>1, PrefixIs
      <4>2. QED
        BY <1>4, <1>5, <3>1, <4>1
    <3>2. QED
      BY <1>3, <3>1
  <2>2. Block(i) = 0
    BY <2>1 DEF Block
  <2>3. Scope(i) = FirstScope
    <3>1. Scope(i)[1] < children[Parent(Scope(i))] /\ Scope(i)[1] \in Nat
      BY <1>2, <1>5, ParentIs DEF WalkInv, TreeIsClosed
    <3>2. Parent(Scope(i)) \in Node /\ Len(Parent(Scope(i))) = 0
      BY <1>2, <1>5, ParentIs
    <3>3. tree \in Node /\ Len(tree) = 0
      BY DEF tree, Node
    <3>4. Parent(Scope(i)) = tree
      BY <3>2, <3>3, NodesAreEqual
    <3>5. Scope(i)[1] = 0
      BY <3>1, <3>4 DEF WalkInv, TreeIsClosed
    <3>6. FirstScope \in Node /\ Len(FirstScope) = 1 /\ FirstScope[1] = 0
      BY DEF FirstScope, Node
    <3>7. QED
      BY <1>2, <1>5, <3>5, <3>6, NodesAreEqual
  <2>4. QED
    BY <2>2, <2>3
<1>6. CASE Len(Scope(i)) > 1
  <2>1. PICK o \in 1 .. Len(trace[0]) : Opens(o) /\ Entered(o) = Scope(i)
    BY <1>2, <1>6 DEF WalkInv, ScopesAreFresh
  <2>2. o < i
    <3>1. IsPrefix(Entered(o), Scope(i))
      BY <1>2, <2>1, PrefixOfItself
    <3>2. ~(i \in 1 .. o)
      BY <2>1, <3>1 DEF WalkInv, ScopesAreFresh
    <3>3. QED
      BY <1>1, <3>2
  <2>3. o \in Enclosing(i) /\ o # 0
    <3>1. IsPrefix(Entered(o), Scope(i))
      BY <1>2, <2>1, PrefixOfItself
    <3>2. o \in 1 .. i - 1
      BY <1>1, <2>2
    <3>3. QED
      BY <2>1, <3>1, <3>2 DEF WalkInv, TextShowsTheTree
  <2>4. ASSUME NEW c \in Enclosing(i)
        PROVE  c <= o
    <3>1. SUFFICES ASSUME c > o
                   PROVE  FALSE
      BY <1>1, <1>3
    <3>2. c # 0 /\ c \in Nat /\ o \in Nat
      BY <1>3, <3>1
    <3>3. /\ c \in 1 .. Len(trace[0]) /\ Opens(c) /\ IsPrefix(Entered(c), Entered(o))
          /\ Entered(c) \in Node
      BY <1>4, <2>1, <3>2
    <3>4. Entered(c) # Entered(o)
      BY <2>1, <2>2, <3>1, <3>2, <3>3, EnteredOnce
    <3>5. /\ Scope(o) \in Node /\ Entered(o) \in Node /\ Entered(o) # tree
          /\ Len(Entered(o)) = Len(Scope(o)) + 1 /\ Parent(Entered(o)) = Scope(o)
          /\ Len(Scope(o)) \in Nat
      BY <1>2, <1>4, <2>1, <2>3
    <3>6. Len(Entered(c)) # Len(Entered(o))
      <4>1. Len(Entered(c)) = Len(Entered(o)) => Entered(c) = Entered(o)
        BY <3>3, <3>5, PrefixIs, NodesAreEqual
      <4>2. QED
        BY <3>4, <4>1
    <3>7. Len(Entered(c)) <= Len(Entered(o)) /\ Len(Entered(c)) \in Nat /\ Len(Entered(o)) \in Nat
      <4>1. Len(Entered(c)) <= Len(Entered(o))
        BY <3>3, <3>5, PrefixIs
      <4>2. QED
        BY <3>3, <3>5, <4>1 DEF Node
    <3>8. IsPrefix(Entered(c), Scope(o))
      <4>1. Len(Entered(c)) < Len(Entered(o))
        BY <3>6, <3>7
      <4>2. QED
        BY <3>3, <3>5, <4>1, PrefixOfParent
    <3>9. o \in 1 .. c
      BY <2>1, <3>1, <3>2
    <3>10. QED
      BY <3>3, <3>8, <3>9 DEF WalkInv, ScopesAreFresh
  <2>5. Block(i) = o
    <3>1. Block(i) \in Enclosing(i) /\ \A c \in Enclosing(i) : c <= Block(i)
      BY <2>3, <2>4 DEF Block
    <3>2. o <= Block(i) /\ Block(i) <= o /\ Block(i) \in Nat /\ o \in Nat
      BY <1>3, <2>1, <2>3, <2>4, <3>1
    <3>3. QED
      BY <3>2
  <2>6. QED
    BY <1>4, <2>1, <2>3, <2>5
<1>7. Len(Scope(i)) = 1 \/ Len(Scope(i)) > 1
  <2>1. \A l \in Nat \ {0} : l = 1 \/ l > 1
    OBVIOUS
  <2>2. QED
    BY <1>2, <2>1
<1>8. QED
  BY <1>5, <1>6, <1>7

\* The second pass replays the first when it follows the walk.
LEMMA WalkIsReplayed ==
    ASSUME WalkInv
    PROVE  SecondPassReplaysScopes
<1>1. /\ Len(trace[0]) \in Nat /\ Len(trace[1]) \in Nat /\ Seen \in Nat
      /\ DOMAIN trace[0] = 1 .. Len(trace[0]) /\ DOMAIN trace[1] = 1 .. Len(trace[1])
      /\ Len(trace[0]) <= Seen
      /\ \A i \in 1 .. Len(trace[0]) : Scope(i) = trace[0][i].node
  BY VisitsAre DEF WalkInv
<1>2. ASSUME NEW i \in DOMAIN trace[1]
      PROVE  trace[1][i].node = trace[0][i].node
  <2>1. pass = 1 /\ i \in 1 .. Len(trace[0]) /\ i \in 1 .. Len(trace[1])
    <3>1. i \in 1 .. Len(trace[1])
      BY <1>1, <1>2
    <3>2. CASE pass = 0
      <4>1. Len(trace[1]) = 0
        BY <3>2, VisitsAre DEF WalkInv
      <4>2. QED
        BY <3>1, <4>1
    <3>3. CASE pass = 1
      <4>1. /\ Len(trace[0]) = Len(program) /\ Len(trace[1]) = at - 1
            /\ at \in 1 .. Len(program) + 1 /\ Len(program) \in Nat
        BY <3>3, VisitsAre DEF WalkInv
      <4>2. QED
        BY <3>1, <3>3, <4>1
    <3>4. QED
      BY <3>2, <3>3, VisitsAre DEF WalkInv
  <2>2. trace[1][i].node = Scope(i)
    BY <2>1 DEF WalkInv, CountersFollow
  <2>3. QED
    BY <1>1, <2>1, <2>2
<1>3. ASSUME NEW i \in DOMAIN trace[0], NEW j \in DOMAIN trace[0]
      PROVE  trace[0][i].node = trace[0][j].node <=> Block(i) = Block(j)
  <2>1. /\ i \in 1 .. Seen /\ j \in 1 .. Seen /\ i \in Nat /\ j \in Nat
        /\ trace[0][i].node = Scope(i) /\ trace[0][j].node = Scope(j)
    BY <1>1
  <2>2. ASSUME NEW k \in 1 .. Seen, Block(k) # 0
        PROVE  /\ Block(k) \in 1 .. k - 1 /\ Block(k) \in 1 .. Len(trace[0]) /\ Block(k) \in Nat
               /\ Opens(Block(k)) /\ Entered(Block(k)) = Scope(k)
               /\ Scope(k) # FirstScope
    <3>1. /\ Block(k) \in 1 .. k - 1 /\ Block(k) \in 1 .. Len(trace[0])
          /\ Opens(Block(k)) /\ Entered(Block(k)) = Scope(k)
      BY <2>2, BlockIs
    <3>2. Block(k) \in Nat \ {0} /\ Block(k) \in 1 .. Seen
      BY <1>1, <3>1
    <3>3. Scope(Block(k)) \in Node /\ Len(Scope(Block(k))) \in Nat \ {0}
      BY <3>2, TreeNodes DEF WalkInv, LinesWalkTheTree
    <3>4. Len(Entered(Block(k))) = Len(Scope(Block(k))) + 1
      BY <3>2, <3>3, EnteredIs
    <3>5. Len(FirstScope) = 1
      BY TreeNodes DEF WalkInv
    <3>6. Scope(k) # FirstScope
      <4>1. Len(Scope(k)) = Len(Scope(Block(k))) + 1
        BY <3>1, <3>4
      <4>2. Len(Scope(k)) # 1
        BY <3>3, <4>1
      <4>3. QED
        BY <3>5, <4>2
    <3>7. QED
      BY <3>1, <3>2, <3>6
  <2>3. ASSUME NEW k \in 1 .. Seen, Block(k) = 0
        PROVE  Scope(k) = FirstScope
    BY <2>3, BlockIs
  <2>4. ASSUME Block(i) # 0, Block(j) # 0, Scope(i) = Scope(j)
        PROVE  Block(i) = Block(j)
    <3>1. /\ Block(i) < i /\ Block(i) \in 1 .. Len(trace[0]) /\ Block(i) \in Nat /\ Opens(Block(i))
          /\ Entered(Block(i)) = Scope(i)
      BY <2>1, <2>2, <2>4
    <3>2. /\ Block(j) < j /\ Block(j) \in 1 .. Len(trace[0]) /\ Block(j) \in Nat /\ Opens(Block(j))
          /\ Entered(Block(j)) = Scope(j)
      BY <2>1, <2>2, <2>4
    <3>3. ~(Block(i) < Block(j))
      BY <2>1, <2>4, <3>1, <3>2, EnteredOnce
    <3>4. ~(Block(j) < Block(i))
      BY <2>1, <2>4, <3>1, <3>2, EnteredOnce
    <3>5. QED
      BY <3>1, <3>2, <3>3, <3>4
  <2>5. QED
    BY <2>1, <2>2, <2>3, <2>4
<1>4. QED
  BY <1>2, <1>3 DEF SecondPassReplaysScopes

-----------------------------------------------------------------------------
(* Theorems on the passes *)

\* The second pass of the assembler is where the first was, block by block.
THEOREM WalkInvariant == Spec => []WalkInv
<1>1. Init => WalkInv
  BY WalkInit
<1>2. WalkInv /\ [Next]_asmVars => WalkInv'
  BY WalkStepOrNone
<1>3. QED
  BY <1>1, <1>2, PTL DEF Spec

\* The second pass visits each line in the scope where the first visited it, and
\* two lines share a scope if and only if the text has them in the same block
\* (visitScopedLines): for every program whose braces match.
THEOREM SecondPassReplays == Spec => []SecondPassReplaysScopes
<1>1. WalkInv => SecondPassReplaysScopes
  BY WalkIsReplayed
<1>2. QED
  BY <1>1, WalkInvariant, PTL

\* So it does when the other tools run after it.
THEOREM ToolchainReplays == ToolchainSpec => [](WalkInv /\ SecondPassReplaysScopes)
<1>1. ToolchainInit => WalkInv
  BY WalkInit DEF ToolchainInit
<1>2. WalkInv /\ [ToolchainNext]_toolVars => WalkInv'
  BY ToolchainAssembles, WalkStepOrNone
<1>3. WalkInv => SecondPassReplaysScopes
  BY WalkIsReplayed
<1>4. QED
  BY <1>1, <1>2, <1>3, PTL DEF ToolchainSpec

LEMMA BraceIsMatched ==
    ASSUME WalkInv
    PROVE  /\ OpenScope => at' = at + 1 /\ status' = status
           /\ CloseScope => Parent(curr_scope_node) # tree
<1>1. ASSUME NEW kind, Visiting(kind)
      PROVE  at \in 1 .. Len(program) /\ program[at].kind = kind
  <2>1. at \in 1 .. Len(program) + 1 /\ Len(program) \in Nat
    BY VisitsAre DEF WalkInv
  <2>2. at <= Len(program) /\ program[at].kind = kind
    BY <1>1 DEF Visiting, Line
  <2>3. QED
    BY <2>1, <2>2
<1>2. ASSUME OpenScope
      PROVE  at' = at + 1 /\ status' = status
  <2>1. at \in 1 .. Len(program) /\ program[at].kind = "open"
    BY <1>1, <1>2 DEF OpenScope
  <2>2. CASE pass = 0
    <3>1. Ends(NothingGenerated, "none", <<>>)
      BY <1>2, <2>2 DEF OpenScope
    <3>2. QED
      BY <3>1 DEF Ends
  <2>3. CASE pass # 0
    <3>1. pass = 1
      BY <2>3, VisitsAre DEF WalkInv
    <3>2. HasChild(curr_scope_node, Top(scope_child_num))
      BY <2>1, <3>1, NextBlockIs
    <3>3. Ends(NothingGenerated, IF HasChild(curr_scope_node, Top(scope_child_num)) THEN "none"
                          ELSE "out_of_range", <<>>)
      BY <1>2, <2>3 DEF OpenScope
    <3>4. Ends(NothingGenerated, "none", <<>>)
      BY <3>2, <3>3
    <3>5. QED
      BY <3>4 DEF Ends
  <2>4. QED
    BY <2>2, <2>3
<1>3. ASSUME CloseScope
      PROVE  Parent(curr_scope_node) # tree
  <2>1. at \in 1 .. Len(program) /\ program[at].kind = "close" /\ pass \in 0 .. 1
    BY <1>1, <1>3, VisitsAre DEF CloseScope, WalkInv
  <2>2. Len(curr_scope_node) > 1 /\ curr_scope_node \in Node /\ curr_scope_node # tree
    <3>1. curr_scope_node \in Node /\ curr_scope_node # tree
      BY <2>1, AtTheCursor, AtTheLine
    <3>2. QED
      BY <2>1, <3>1, BlockIsOpen
  <2>3. Len(Parent(curr_scope_node)) = Len(curr_scope_node) - 1
    BY <2>2, ParentIs
  <2>4. Len(tree) = 0 /\ Len(curr_scope_node) \in Nat
    BY <2>2 DEF tree, Node
  <2>5. QED
    BY <2>2, <2>3, <2>4
<1>4. QED
  BY <1>2, <1>3

\* The second pass always finds the block that it enters (children.at does not
\* throw), and neither pass leaves the scope of the whole program (rmscope, and
\* visitScopedLines after the lines of a block).
THEOREM BracesAreMatched ==
    Spec => [][/\ OpenScope => at' = at + 1 /\ status' = status
               /\ CloseScope => Parent(curr_scope_node) # tree]_asmVars
<1>1. ASSUME WalkInv
      PROVE  [/\ OpenScope => at' = at + 1 /\ status' = status
              /\ CloseScope => Parent(curr_scope_node) # tree]_asmVars
  BY <1>1, BraceIsMatched
<1>2. QED
  BY <1>1, WalkInvariant, PTL DEF Spec

-----------------------------------------------------------------------------
(* Largest numbers *)

LEMMA LeastOf ==
    ASSUME NEW T \in SUBSET Nat, T # {}
    PROVE  \E x \in T : \A y \in T : x <= y
<1> DEFINE R == {p \in Nat \X Nat : p[1] < p[2]}
<1>1. OpToRel(<, Nat) = R
  BY DEF OpToRel
<1>2. IsWellFoundedOn(R, Nat)
  BY <1>1, NatLessThanWellFounded
<1>3. PICK x \in T : \A y \in T : ~(<<y, x>> \in R)
  BY <1>2, WFMin
<1>4. ASSUME NEW y \in T
      PROVE  x <= y
  <2>1. <<y, x>> \in R <=> y < x
    OBVIOUS
  <2>2. x \in Nat /\ y \in Nat
    OBVIOUS
  <2>3. QED
    BY <1>3, <2>1, <2>2
<1>5. QED
  BY <1>4

LEMMA GreatestOf ==
    ASSUME NEW L \in Nat, NEW S \in SUBSET (0 .. L), S # {}
    PROVE  \E x \in S : \A y \in S : y <= x
<1> DEFINE T == {L - y : y \in S}
<1>1. T \in SUBSET Nat /\ T # {}
  <2>1. \A y \in 0 .. L : L - y \in Nat
    OBVIOUS
  <2>2. \A y \in S : L - y \in Nat
    BY <2>1
  <2>3. T \subseteq Nat
    BY <2>2
  <2>4. T # {}
    BY Zenon
  <2>5. QED
    BY <2>3, <2>4, Zenon
<1>2. PICK t \in T : \A u \in T : t <= u
  <2> HIDE DEF T
  <2> QED
    BY <1>1, LeastOf
<1>3. PICK x \in S : t = L - x
  OBVIOUS
<1>4. ASSUME NEW y \in S
      PROVE  y <= x
  <2>1. L - x <= L - y
    BY <1>2, <1>3
  <2>2. x \in 0 .. L /\ y \in 0 .. L
    OBVIOUS
  <2>3. QED
    BY <2>1, <2>2
<1>5. QED
  BY <1>4

-----------------------------------------------------------------------------
(* Blocks and scopes around a line *)

\* A scope around another is the beginning of it.
LEMMA ScopeAround ==
    ASSUME NEW m \in Node, NEW n \in Node
    PROVE  IsPrefix(m, n) /\ m # tree <=> \E k \in 1 .. Len(n) : m = SubSeq(n, 1, k)
<1>0. Len(m) \in Nat /\ Len(n) \in Nat
  BY DEF Node
<1>1. ASSUME IsPrefix(m, n), m # tree
      PROVE  Len(m) \in 1 .. Len(n) /\ m = SubSeq(n, 1, Len(m))
  <2>1. Len(m) # 0 /\ Len(m) <= Len(n) /\ \A k \in 1 .. Len(m) : m[k] = n[k]
    <3>1. Len(m) <= Len(n) /\ \A k \in 1 .. Len(m) : m[k] = n[k]
      BY <1>1, PrefixIs
    <3>2. Len(m) # 0
      BY <1>1 DEF Node, tree
    <3>3. QED
      BY <3>1, <3>2
  <2>2. Len(m) \in 1 .. Len(n) /\ Len(m) \in 1 .. Len(m)
    BY <1>0, <2>1
  <2>3. SubSeq(m, 1, Len(m)) = SubSeq(n, 1, Len(m))
    BY <2>1, <2>2, NodesAbove
  <2>4. SubSeq(m, 1, Len(m)) = m
    BY <2>2, NodeAbove
  <2>5. QED
    BY <2>2, <2>3, <2>4
<1>2. ASSUME NEW k \in 1 .. Len(n), m = SubSeq(n, 1, k)
      PROVE  IsPrefix(m, n) /\ m # tree
  <2>1. Len(m) = k /\ \A j \in 1 .. k : m[j] = n[j]
    BY <1>2, NodeAbove
  <2>2. Len(m) <= Len(n) /\ Len(m) # 0
    BY <1>0, <2>1
  <2>3. m # tree
    BY <2>2 DEF tree
  <2>4. QED
    BY <2>1, <2>2, <2>3, PrefixIs
<1>3. QED
  BY <1>1, <1>2

\* The scopes around one line are around each other.
LEMMA ScopesAroundNest ==
    ASSUME NEW l \in Node, NEW m \in Node, NEW n \in Node,
           IsPrefix(l, n), IsPrefix(m, n), Len(l) <= Len(m)
    PROVE  IsPrefix(l, m)
<1>1. /\ Len(l) \in Nat /\ Len(m) \in Nat
      /\ \A k \in 1 .. Len(l) : l[k] = n[k]
      /\ \A k \in 1 .. Len(m) : m[k] = n[k]
  <2>1. Len(l) \in Nat /\ Len(m) \in Nat
    BY DEF Node
  <2>2. QED
    BY <2>1, PrefixIs
<1>2. \A k \in 1 .. Len(l) : k \in 1 .. Len(m)
  BY <1>1
<1>3. \A k \in 1 .. Len(l) : l[k] = m[k]
  BY <1>1, <1>2
<1>4. QED
  BY <1>3, PrefixIs

\* The scope of the whole program is the only one below the tree itself.
LEMMA OneFirstScope ==
    ASSUME TreeIsClosed, NEW n \in DOMAIN children, Len(n) = 1
    PROVE  n = FirstScope
<1>1. n \in Node /\ n # tree
  BY TreeNodes DEF tree
<1>2. n[1] < children[Parent(n)] /\ n[1] \in Nat /\ Parent(n) \in Node /\ Len(Parent(n)) = 0
  BY <1>1, ParentIs, SMTT(60) DEF TreeIsClosed
<1>3. tree \in Node /\ Len(tree) = 0
  BY DEF tree, Node
<1>4. Parent(n) = tree
  BY <1>2, <1>3, NodesAreEqual
<1>5. n[1] = 0
  BY <1>2, <1>4 DEF TreeIsClosed
<1>6. FirstScope \in Node /\ Len(FirstScope) = 1 /\ FirstScope[1] = 0
  BY DEF FirstScope, Node
<1>7. QED
  BY <1>1, <1>5, <1>6, NodesAreEqual

LEMMA LineIsInScope ==
    ASSUME WalkInv, NEW i \in 1 .. Seen
    PROVE  /\ Scope(i) \in Node /\ Scope(i) # tree /\ Len(Scope(i)) \in Nat \ {0}
           /\ IsPrefix(FirstScope, Scope(i))
<1>1. /\ Scope(i) \in DOMAIN children \ {tree} /\ Scope(i) \in Node /\ Len(Scope(i)) \in Nat \ {0}
  BY TreeNodes DEF WalkInv, LinesWalkTheTree
<1>2. 1 \in 1 .. Len(Scope(i)) /\ 1 \in 0 .. Len(Scope(i))
  BY <1>1
<1>3. SubSeq(Scope(i), 1, 1) \in DOMAIN children
  BY <1>1, <1>2 DEF WalkInv, TreeIsClosed
<1>4. SubSeq(Scope(i), 1, 1) \in Node /\ Len(SubSeq(Scope(i), 1, 1)) = 1
  BY <1>1, <1>2, NodeAbove
<1>5. SubSeq(Scope(i), 1, 1) = FirstScope
  BY <1>3, <1>4, OneFirstScope DEF WalkInv
<1>6. IsPrefix(SubSeq(Scope(i), 1, 1), Scope(i))
  BY <1>1, <1>2, <1>4, ScopeAround
<1>7. QED
  BY <1>1, <1>5, <1>6

\* A line is in the block of another one if its scope is in the other's scope.
LEMMA BlockEncloses ==
    ASSUME WalkInv, NEW d \in 1 .. Seen, NEW i \in 1 .. Seen
    PROVE  Block(d) \in Enclosing(i) <=> IsPrefix(Scope(d), Scope(i))
<1>1. Seen \in Nat /\ Len(trace[0]) \in Nat
  BY VisitsAre DEF WalkInv
<1>2. CASE Scope(d) = FirstScope /\ Block(d) = 0
  <2>1. 0 \in Enclosing(i)
    BY DEF Enclosing
  <2>2. QED
    BY <1>2, <2>1, LineIsInScope
<1>3. CASE /\ Block(d) \in 1 .. d - 1 /\ Block(d) \in 1 .. Len(trace[0])
           /\ Opens(Block(d)) /\ Entered(Block(d)) = Scope(d)
  <2>1. Block(d) \in Nat \ {0}
    BY <1>1, <1>3
  <2>2. CASE Block(d) < i
    <3>1. Block(d) \in 1 .. i - 1
      BY <1>1, <2>1, <2>2
    <3>2. QED
      BY <1>3, <3>1 DEF WalkInv, TextShowsTheTree
  <2>3. CASE ~(Block(d) < i)
    <3>1. i \in 1 .. Block(d)
      BY <1>1, <2>1, <2>3
    <3>2. ~IsPrefix(Scope(d), Scope(i))
      BY <1>3, <3>1 DEF WalkInv, ScopesAreFresh
    <3>3. Block(d) \notin Enclosing(i)
      BY <1>1, <2>1, <2>3 DEF Enclosing
    <3>4. QED
      BY <3>2, <3>3
  <2>4. QED
    BY <2>2, <2>3
<1>4. QED
  BY <1>2, <1>3, BlockIs

LEMMA BlockIsInnermost ==
    ASSUME NEW i \in Nat \ {0}
    PROVE  Block(i) \in Enclosing(i) /\ \A c \in Enclosing(i) : c <= Block(i)
<1>1. Enclosing(i) \in SUBSET (0 .. i) /\ Enclosing(i) # {}
  <2>1. \A o \in 1 .. i - 1 : o \in 0 .. i
    OBVIOUS
  <2>2. 0 \in 0 .. i
    OBVIOUS
  <2>3. Enclosing(i) \subseteq 0 .. i
    BY <2>1, <2>2 DEF Enclosing
  <2>4. QED
    BY <2>3 DEF Enclosing
<1>2. \E b \in Enclosing(i) : \A c \in Enclosing(i) : c <= b
  BY <1>1, GreatestOf
<1>3. QED
  BY <1>2 DEF Block

\* The deeper of two scopes around a line is that of the later block, and a block has
\* one scope.
LEMMA BlocksByScope ==
    ASSUME WalkInv, NEW d \in 1 .. Seen, NEW e \in 1 .. Seen, IsPrefix(Scope(e), Scope(d))
    PROVE  Block(e) <= Block(d) /\ (Block(e) = Block(d) => Scope(e) = Scope(d))
<1>1. Seen \in Nat /\ d \in Nat \ {0}
  BY VisitsAre DEF WalkInv
<1>2. Block(e) <= Block(d)
  BY <1>1, BlockEncloses, BlockIsInnermost
<1>3. ASSUME Block(e) = Block(d)
      PROVE  Scope(e) = Scope(d)
  <2>1. \A k \in 1 .. Seen : Block(k) = 0 => Scope(k) = FirstScope
    BY BlockIs
  <2>2. \A k \in 1 .. Seen : Block(k) # 0 => Entered(Block(k)) = Scope(k)
    BY BlockIs
  <2>3. QED
    BY <1>3, <2>1, <2>2
<1>4. QED
  BY <1>2, <1>3

-----------------------------------------------------------------------------
(* Values and faults of a line *)

LEMMA FirstFaultIs ==
    ASSUME NEW faults, DOMAIN faults \subseteq Nat
    PROVE  IF \A k \in DOMAIN faults : faults[k] = "none" THEN FirstFault(faults) = "none"
           ELSE FirstFault(faults) # "none" /\ \E k \in DOMAIN faults : FirstFault(faults) = faults[k]
<1> DEFINE bad == {k \in DOMAIN faults : faults[k] # "none"}
<1>1. FirstFault(faults) = IF bad = {} THEN "none" ELSE faults[Min(bad)]
  BY DEF FirstFault
<1>2. CASE bad = {}
  BY <1>1, <1>2
<1>3. CASE bad # {}
  <2>1. bad \in SUBSET Nat
    OBVIOUS
  <2>2. \E x \in bad : \A y \in bad : x <= y
    <3> HIDE DEF bad
    <3> QED
      BY <1>3, <2>1, LeastOf
  <2>3. Min(bad) \in bad
    <3> HIDE DEF bad
    <3> QED
      BY <2>2, Zenon DEF Min
  <2>4. QED
    BY <1>1, <1>3, <2>3
<1>4. QED
  BY <1>2, <1>3

LEMMA SequenceIs ==
    ASSUME NEW s, IsSeq(s)
    PROVE  Len(s) \in Nat /\ DOMAIN s = 1 .. Len(s) /\ (Len(s) = 0 => s = <<>>)
<1> DEFINE S == {s[k] : k \in DOMAIN s}
<1>1. s \in Seq(S)
  BY Zenon DEF IsSeq
<1> HIDE DEF S
<1>2. QED
  BY <1>1

\* What the grammar says of a line.
LEMMA OperandsAre ==
    ASSUME VisitsAreTraced, NEW i \in DOMAIN program
    PROVE  /\ DOMAIN program[i].regs \subseteq Nat /\ DOMAIN program[i].exprs \subseteq Nat
           /\ Len(program[i].exprs) \in Nat
           /\ DOMAIN program[i].exprs = 1 .. Len(program[i].exprs)
           /\ \A k \in DOMAIN program[i].exprs : DOMAIN program[i].exprs[k] \subseteq Nat
           /\ program[i].kind # "instruction" => program[i].regs = <<>>
           /\ program[i].kind \notin
                  {"equ", "org", "space", "db64", "db32", "db16", "db8", "instruction"}
              => program[i].exprs = <<>>
           /\ program[i].kind \in {"equ", "org", "space"} => Len(program[i].exprs) = 1
<1>1. program \in Programs
  BY DEF VisitsAreTraced
<1>2. /\ IsSeq(program[i].regs) /\ IsSeq(program[i].exprs)
      /\ \A k \in DOMAIN program[i].exprs : IsSeq(program[i].exprs[k])
      /\ program[i].regs # <<>> => program[i].kind = "instruction"
      /\ program[i].exprs # <<>> => program[i].kind \in
             {"equ", "org", "space", "db64", "db32", "db16", "db8", "instruction"}
      /\ program[i].kind \in {"equ", "org", "space"} => Len(program[i].exprs) = 1
  BY <1>1, OperandsAssumption, Zenon
<1>3. \A s : IsSeq(s) => Len(s) \in Nat /\ DOMAIN s = 1 .. Len(s)
  BY SequenceIs
<1>4. \A s : IsSeq(s) => DOMAIN s \subseteq Nat
  <2>1. \A n \in Nat : 1 .. n \subseteq Nat
    OBVIOUS
  <2>2. QED
    BY <1>3, <2>1, Zenon
<1>5. QED
  BY <1>2, <1>3, <1>4

\* A line that goes by has no fault in it; one that has, stops by the fault of an operand.
LEMMA LineFaultIs ==
    ASSUME VisitsAreTraced, at \in DOMAIN program
    PROVE  IF /\ \A k \in DOMAIN Line.regs : OperandFault(Line.regs[k]) = "none"
              /\ \A k \in DOMAIN Line.exprs : ExprFault(k) = "none"
           THEN LineFault = "none"
           ELSE /\ LineFault # "none"
                /\ \/ \E k \in DOMAIN Line.regs : LineFault = OperandFault(Line.regs[k])
                   \/ \E k \in DOMAIN Line.exprs : LineFault = ExprFault(k)
<1> DEFINE regs == [k \in DOMAIN Line.regs |-> OperandFault(Line.regs[k])]
           exprs == [k \in DOMAIN Line.exprs |-> ExprFault(k)]
<1>1. LineFault = IF FirstFault(regs) # "none" THEN FirstFault(regs) ELSE FirstFault(exprs)
  BY DEF LineFault
<1>2. /\ DOMAIN regs = DOMAIN Line.regs /\ \A k \in DOMAIN Line.regs : regs[k] = OperandFault(Line.regs[k])
      /\ DOMAIN exprs = DOMAIN Line.exprs /\ \A k \in DOMAIN Line.exprs : exprs[k] = ExprFault(k)
  OBVIOUS
<1>3. DOMAIN Line.regs \subseteq Nat /\ DOMAIN Line.exprs \subseteq Nat
  BY OperandsAre DEF Line
<1> HIDE DEF regs, exprs
<1>4. IF \A k \in DOMAIN regs : regs[k] = "none" THEN FirstFault(regs) = "none"
      ELSE FirstFault(regs) # "none" /\ \E k \in DOMAIN regs : FirstFault(regs) = regs[k]
  BY <1>2, <1>3, FirstFaultIs
<1>5. IF \A k \in DOMAIN exprs : exprs[k] = "none" THEN FirstFault(exprs) = "none"
      ELSE FirstFault(exprs) # "none" /\ \E k \in DOMAIN exprs : FirstFault(exprs) = exprs[k]
  BY <1>2, <1>3, FirstFaultIs
<1>6. QED
  BY <1>1, <1>2, <1>4, <1>5, Zenon

LEMMA ExprFaultIs ==
    ASSUME VisitsAreTraced, at \in DOMAIN program, NEW k \in DOMAIN Line.exprs,
           NEW nums, nums = Stacks(Line.exprs[k], Here(Line, pc.curr, k), Known)
    PROVE  IF \A t \in DOMAIN Line.exprs[k] : TokenFault(Line.exprs[k][t], nums[t - 1]) = "none"
           THEN ExprFault(k) = "none"
           ELSE /\ ExprFault(k) # "none"
                /\ \E t \in DOMAIN Line.exprs[k] :
                       ExprFault(k) = TokenFault(Line.exprs[k][t], nums[t - 1])
<1> DEFINE faults == [t \in DOMAIN Line.exprs[k] |-> TokenFault(Line.exprs[k][t], nums[t - 1])]
<1>1. ExprFault(k) = FirstFault(faults)
  BY DEF ExprFault
<1>2. /\ DOMAIN faults = DOMAIN Line.exprs[k]
      /\ \A t \in DOMAIN Line.exprs[k] : faults[t] = TokenFault(Line.exprs[k][t], nums[t - 1])
  OBVIOUS
<1>3. DOMAIN Line.exprs[k] \subseteq Nat
  BY OperandsAre DEF Line
<1> HIDE DEF faults
<1>4. IF \A t \in DOMAIN faults : faults[t] = "none" THEN FirstFault(faults) = "none"
      ELSE FirstFault(faults) # "none" /\ \E t \in DOMAIN faults : FirstFault(faults) = faults[t]
  BY <1>2, <1>3, FirstFaultIs
<1>5. QED
  BY <1>1, <1>2, <1>4, Zenon

-----------------------------------------------------------------------------
(* What a step does to symbols and addresses *)

LineIsDefinition == IsDefinition(at)

\* A line is left behind.
Passed ==
    /\ Noted /\ status = "running" /\ status' = status
    /\ LineFault = "none"
    /\ \E values :
          /\ trace' = [trace EXCEPT ![pass] = Append(trace[pass], Met(values))]
          /\ program[at].kind = "label" => values = <<pc.curr>>
          /\ program[at].kind \in {"equ", "org", "space"} => values = Values
          /\ pc'.curr = After(program[at], pc.curr, values)
          /\ LineIsDefinition =>
                ~Duplicate(program[at].name) /\ Define(program[at].name, values[1])
    /\ LineIsDefinition \/ UNCHANGED table
       \/ (pass = 1 /\ \E names : InsertMissing(curr_scope_node, names))
\* A line stops the program.
Stopped ==
    /\ UNCHANGED <<program, pass, at, trace>>
    /\ at \in 1 .. Len(program) /\ status = "running"
    /\ UNCHANGED table
       \/ (pass = 1 /\ ~LineIsDefinition /\ \E names : InsertMissing(curr_scope_node, names))
    /\ \/ status' = LineFault /\ LineFault # "none" /\ UNCHANGED curr_scope_node
       \/ /\ status' = "err" /\ UNCHANGED curr_scope_node
          /\ LineIsDefinition /\ Duplicate(program[at].name)
       \/ /\ status' = "out_of_range" /\ program[at].kind = "open" /\ pass # 0
          /\ ~HasChild(curr_scope_node, Top(scope_child_num))

LEMMA EndsAs ==
    ASSUME NEW g, NEW fault, NEW values, Ends(g, fault, values), at \in 1 .. Len(program)
    PROVE  /\ fault = "none" =>
                 /\ Noted /\ status' = status /\ pc'.curr = g.curr
                 /\ trace' = [trace EXCEPT ![pass] = Append(trace[pass], Met(values))]
           /\ fault # "none" => UNCHANGED <<program, pass, at, trace>> /\ status' = fault
  BY DEF Ends, Noted

\* A line that has no operands goes by, at an address that its kind tells.
LEMMA PlainLineIs ==
    ASSUME VisitsAreTraced, at \in DOMAIN program,
           program[at].kind \in {"blank", "open", "close", "label", "codealign", "dataalign"}
    PROVE  LineFault = "none" /\ Size(program[at]) = 0
<1>1. /\ program[at].regs = <<>> /\ program[at].exprs = <<>>
  BY OperandsAre, Zenon
<1>2. DOMAIN Line.regs = {} /\ DOMAIN Line.exprs = {}
  BY <1>1 DEF Line
<1>3. LineFault = "none"
  BY <1>2, LineFaultIs, Zenon
<1>4. Width(program[at]) = 0 /\ Len(program[at].exprs) = 0
  BY <1>1 DEF Width
<1>5. Size(program[at]) = 0
  BY <1>4 DEF Size
<1>6. QED
  BY <1>3, <1>5

LEMMA PlainStep ==
    ASSUME VisitsAreTraced, at \in 1 .. Len(program), at \in DOMAIN program, status = "running",
           program[at].kind \in {"blank", "open", "close", "label"},
           NEW values, Ends(NothingGenerated, "none", values),
           program[at].kind = "label" =>
               /\ values = <<pc.curr>>
               /\ ~Duplicate(program[at].name) /\ Define(program[at].name, pc.curr),
           program[at].kind # "label" => UNCHANGED table
    PROVE  Passed
<1>1. LineFault = "none" /\ Size(program[at]) = 0
  BY PlainLineIs, Zenon
<1>2. /\ Noted /\ status' = status /\ pc'.curr = NothingGenerated.curr
      /\ trace' = [trace EXCEPT ![pass] = Append(trace[pass], Met(values))]
  BY EndsAs
<1>3. NothingGenerated.curr = pc.curr + 0
  BY DEF NothingGenerated, Generated
<1>4. After(program[at], pc.curr, values) = pc.curr + 0
  BY <1>1 DEF After
<1>5. program[at].kind = "label" => values[1] = pc.curr
  OBVIOUS
<1>6. LineIsDefinition <=> program[at].kind = "label"
  BY DEF LineIsDefinition, IsDefinition
<1>7. QED
  BY <1>1, <1>2, <1>3, <1>4, <1>5, <1>6 DEF Passed

\* A line with numbers, that sets no symbol.
LEMMA NumbersStep ==
    ASSUME VisitsAreTraced, at \in 1 .. Len(program), status = "running", program[at].kind # "label",
           ~LineIsDefinition,
           NEW g, Ends(g, LineFault, Values),
           LineFault = "none" => g.curr = After(program[at], pc.curr, Values),
           NEW names,
           UNCHANGED table \/ (pass = 1 /\ InsertMissing(curr_scope_node, names)),
           UNCHANGED curr_scope_node
    PROVE  Passed \/ Stopped
<1>1. CASE LineFault = "none"
  <2>1. /\ Noted /\ status' = status /\ pc'.curr = g.curr
        /\ trace' = [trace EXCEPT ![pass] = Append(trace[pass], Met(Values))]
    BY <1>1, EndsAs
  <2>2. QED
    BY <1>1, <2>1, Zenon DEF Passed
<1>2. CASE LineFault # "none"
  <2>1. UNCHANGED <<program, pass, at, trace>> /\ status' = LineFault
    BY <1>2, EndsAs
  <2>2. QED
    BY <1>2, <2>1, Zenon DEF Stopped
<1>3. QED
  BY <1>1, <1>2

LEMMA JumpIs ==
    ASSUME VisitsAreTraced, at \in 1 .. Len(program), status = "running",
           program[at].kind \in {"org", "space", "codealign", "dataalign"},
           NEW addr, JumpsTo(addr),
           program[at].kind = "org" => addr = Values[1],
           program[at].kind = "space" => addr = pc.curr + Values[1],
           program[at].kind = "codealign" => addr = get_aligned_to_next(pc.curr, 2),
           program[at].kind = "dataalign" => addr = get_aligned_to_next(pc.curr, 5)
    PROVE  Passed \/ Stopped
<1> DEFINE g == IF LineFault = "none" THEN [NothingGenerated EXCEPT !.curr = addr] ELSE NothingGenerated
<1>1. Ends(g, LineFault, Values) /\ UNCHANGED <<curr_scope_node, table>>
  BY Zenon DEF JumpsTo, inScopes, scopeVars
<1>2. After(program[at], pc.curr, Values) = addr
  BY DEF After
<1>3. LineFault = "none" => g.curr = addr
  BY DEF NothingGenerated, Generated
<1>4. ~LineIsDefinition /\ program[at].kind # "label"
  BY DEF LineIsDefinition, IsDefinition
<1> HIDE DEF g
<1>5. QED
  BY <1>1, <1>2, <1>3, <1>4, NumbersStep

LEMMA OneByOneIs ==
    ASSUME VisitsAreTraced, at \in 1 .. Len(program), at \in DOMAIN program, status = "running",
           program[at].kind \in {"db64", "db32"}, OneByOne
    PROVE  Passed \/ Stopped
<1> DEFINE bad == {k \in DOMAIN Line.exprs : ExprFault(k) # "none"}
           generated == IF bad = {} THEN Len(Line.exprs) ELSE Min(bad) - 1
           lines == FlattenSeq([k \in 1 .. generated |-> gen_number(Line.kind, Values[k])])
           g == Generated(lines, Width(Line) * generated)
<1>1. Ends(g, LineFault, Values) /\ UNCHANGED <<curr_scope_node, table>>
  BY Zenon DEF OneByOne, inScopes, scopeVars
<1>2. LineFault = "none" => bad = {}
  BY LineFaultIs, Zenon
<1>3. g.curr = pc.curr + Width(Line) * generated
  BY DEF Generated
<1>4. LineFault = "none" => generated = Len(Line.exprs)
  BY <1>2
<1> HIDE DEF g, generated
<1>5. After(program[at], pc.curr, Values) = pc.curr + Size(program[at])
  BY DEF After
<1>6. Size(program[at]) = Width(Line) * Len(Line.exprs)
  BY DEF Size, Line
<1>7. ~LineIsDefinition /\ program[at].kind # "label"
  BY DEF LineIsDefinition, IsDefinition
<1>8. LineFault = "none" => g.curr = After(program[at], pc.curr, Values)
  BY <1>3, <1>4, <1>5, <1>6
<1>9. QED
  BY <1>1, <1>7, <1>8, NumbersStep

LEMMA PackedIs ==
    ASSUME VisitsAreTraced, at \in 1 .. Len(program), at \in DOMAIN program, status = "running",
           program[at].kind \in {"db16", "db8"}, NEW n, Packed(n)
    PROVE  Passed \/ Stopped
<1>1. PICK lines : /\ Ends(IF LineFault = "none" THEN Generated(lines, Width(Line) * Len(Line.exprs))
                          ELSE NothingGenerated, LineFault, Values)
                  /\ UNCHANGED <<inScopes, scopeVars, warnings>>
  BY Zenon DEF Packed
<1> DEFINE g == IF LineFault = "none" THEN Generated(lines, Width(Line) * Len(Line.exprs))
                ELSE NothingGenerated
<1>2. Ends(g, LineFault, Values) /\ UNCHANGED <<curr_scope_node, table>>
  BY <1>1 DEF inScopes, scopeVars
<1>3. LineFault = "none" => g.curr = pc.curr + Width(Line) * Len(Line.exprs)
  BY DEF Generated
<1> HIDE DEF g
<1>4. After(program[at], pc.curr, Values) = pc.curr + Size(program[at])
  BY DEF After
<1>5. Size(program[at]) = Width(Line) * Len(Line.exprs)
  BY DEF Size, Line
<1>6. ~LineIsDefinition /\ program[at].kind # "label"
  BY DEF LineIsDefinition, IsDefinition
<1>7. QED
  BY <1>2, <1>3, <1>4, <1>5, <1>6, NumbersStep

LEMMA InstructionIs ==
    ASSUME VisitsAreTraced, at \in 1 .. Len(program), at \in DOMAIN program, status = "running",
           program[at].kind = "instruction", visitInstruction
    PROVE  Passed \/ Stopped
<1> DEFINE before == IF IsCall(Line) THEN 4 ELSE 0
<1>1. PICK call, lines :
         Ends(IF LineFault = "none" THEN Generated(lines, before + 4) ELSE Generated(call, before),
              LineFault, Values)
  BY Zenon DEF visitInstruction
<1>2. /\ UNCHANGED curr_scope_node
      /\ UNCHANGED table \/ (pass = 1 /\ InsertMissing(curr_scope_node, RegNames))
  BY DEF visitInstruction, inScopes
<1> DEFINE g == IF LineFault = "none" THEN Generated(lines, before + 4) ELSE Generated(call, before)
<1>3. LineFault = "none" => g.curr = pc.curr + (before + 4)
  BY DEF Generated
<1>4. Ends(g, LineFault, Values)
  BY <1>1
<1> HIDE DEF g
<1>5. After(program[at], pc.curr, Values) = pc.curr + Size(program[at])
  BY DEF After
<1>6. Size(program[at]) = before + 4
  BY DEF Size, Line, IsCall
<1>7. ~LineIsDefinition /\ program[at].kind # "label"
  BY DEF LineIsDefinition, IsDefinition
<1>8. QED
  BY <1>2, <1>3, <1>4, <1>5, <1>6, <1>7, NumbersStep

LEMMA EquIs ==
    ASSUME VisitsAreTraced, at \in 1 .. Len(program), at \in DOMAIN program, status = "running",
           program[at].kind = "equ", visitDotEquDirective
    PROVE  Passed \/ Stopped
<1> DEFINE fault == IF LineFault = "none" /\ Duplicate(Line.name) THEN "err" ELSE LineFault
<1>1. /\ Ends(NothingGenerated, fault, Values)
      /\ IF fault = "none" THEN Define(Line.name, Values[1]) ELSE UNCHANGED table
      /\ UNCHANGED <<inScopes, children, warnings>>
  BY Zenon DEF visitDotEquDirective
<1>2. /\ fault = "none" => LineFault = "none" /\ ~Duplicate(Line.name)
      /\ fault # "none" => fault = LineFault \/ (fault = "err" /\ Duplicate(Line.name))
  OBVIOUS
<1> HIDE DEF fault
<1>3. LineIsDefinition /\ program[at].kind # "label"
  BY DEF LineIsDefinition, IsDefinition
<1>4. CASE fault = "none"
  <2>1. /\ Noted /\ status' = status /\ pc'.curr = NothingGenerated.curr
        /\ trace' = [trace EXCEPT ![pass] = Append(trace[pass], Met(Values))]
    BY <1>1, <1>4, EndsAs
  <2>2. NothingGenerated.curr = pc.curr + 0
    BY DEF NothingGenerated, Generated
  <2>3. After(program[at], pc.curr, Values) = pc.curr + 0
    <3>1. Len(program[at].exprs) = 1
      BY OperandsAre
    <3>2. Size(program[at]) = 0
      BY <3>1 DEF Size, Width
    <3>3. QED
      BY <3>2 DEF After
  <2>4. Define(program[at].name, Values[1]) /\ ~Duplicate(program[at].name) /\ LineFault = "none"
    BY <1>1, <1>2, <1>4 DEF Line
  <2>5. QED
    BY <1>3, <2>1, <2>2, <2>3, <2>4, Zenon DEF Passed
<1>5. CASE fault # "none"
  <2>1. UNCHANGED <<program, pass, at, trace>> /\ status' = fault
    BY <1>1, <1>5, EndsAs
  <2>2. UNCHANGED <<table, curr_scope_node>>
    BY <1>1, <1>5 DEF inScopes
  <2>3. QED
    BY <1>2, <1>3, <1>5, <2>1, <2>2 DEF Stopped, Line
<1>6. QED
  BY <1>4, <1>5

LEMMA LineStepIs ==
    ASSUME VisitsAreTraced, Next
    PROVE  Passed \/ Stopped \/ Finish \/ NextPass
<1>1. DOMAIN program = 1 .. Len(program)
  BY VisitsAre
<1>2. at \in 1 .. Len(program) + 1 /\ Len(program) \in Nat
  BY VisitsAre
<1>3. ASSUME NEW kind, Visiting(kind)
      PROVE  /\ at \in 1 .. Len(program) /\ at \in DOMAIN program /\ program[at].kind = kind
             /\ status = "running"
  BY <1>1, <1>2, <1>3 DEF Visiting, Line
<1>4. CASE BlankLine
  BY <1>3, <1>4, PlainStep DEF BlankLine, scopeVars
<1>5. CASE OpenScope
  <2>1. /\ at \in 1 .. Len(program) /\ at \in DOMAIN program /\ program[at].kind = "open"
        /\ status = "running" /\ UNCHANGED table
    BY <1>3, <1>5 DEF OpenScope
  <2>2. CASE pass = 0 \/ HasChild(curr_scope_node, Top(scope_child_num))
    <3>1. Ends(NothingGenerated, "none", <<>>)
      BY <1>5, <2>2 DEF OpenScope
    <3>2. QED
      BY <2>1, <3>1, PlainStep
  <2>3. CASE pass # 0 /\ ~HasChild(curr_scope_node, Top(scope_child_num))
    <3>1. Ends(NothingGenerated, "out_of_range", <<>>)
      BY <1>5, <2>3 DEF OpenScope
    <3>2. UNCHANGED <<program, pass, at, trace>> /\ status' = "out_of_range"
      BY <2>1, <3>1, EndsAs
    <3>3. QED
      BY <2>1, <2>3, <3>2 DEF Stopped
  <2>4. QED
    BY <2>2, <2>3
<1>6. CASE CloseScope
  BY <1>3, <1>6, PlainStep DEF CloseScope, scopeVars
<1>7. CASE visitLabel
  <2>1. /\ at \in 1 .. Len(program) /\ at \in DOMAIN program /\ program[at].kind = "label"
        /\ status = "running"
    BY <1>3, <1>7 DEF visitLabel
  <2>2. CASE Duplicate(program[at].name)
    <3>1. Ends(NothingGenerated, "err", <<>>) /\ UNCHANGED <<table, curr_scope_node>>
      BY <1>7, <2>2 DEF visitLabel, Line, inScopes
    <3>2. UNCHANGED <<program, pass, at, trace>> /\ status' = "err"
      BY <2>1, <3>1, EndsAs
    <3>3. QED
      BY <2>1, <2>2, <3>1, <3>2 DEF Stopped, LineIsDefinition, IsDefinition
  <2>3. CASE ~Duplicate(program[at].name)
    <3>1. Ends(NothingGenerated, "none", <<pc.curr>>) /\ Define(program[at].name, pc.curr)
      BY <1>7, <2>3 DEF visitLabel, Line
    <3>2. QED
      BY <2>1, <2>3, <3>1, PlainStep
  <2>4. QED
    BY <2>2, <2>3
<1>8. CASE visitDotEquDirective
  BY <1>3, <1>8, EquIs DEF visitDotEquDirective
<1>9. CASE visitDotOrgDirective
  BY <1>3, <1>9, JumpIs DEF visitDotOrgDirective
<1>10. CASE visitDotSpaceDirective
  BY <1>3, <1>10, JumpIs DEF visitDotSpaceDirective
<1>11. CASE visitDotCodeAlignDirective
  BY <1>3, <1>11, JumpIs DEF visitDotCodeAlignDirective
<1>12. CASE visitDotDataAlignDirective
  BY <1>3, <1>12, JumpIs DEF visitDotDataAlignDirective
<1>13. CASE visitDotDb64Directive \/ visitDotDb32Directive
  BY <1>3, <1>13, OneByOneIs DEF visitDotDb64Directive, visitDotDb32Directive
<1>14. CASE visitDotDb16Directive \/ visitDotDb8Directive
  BY <1>3, <1>14, PackedIs DEF visitDotDb16Directive, visitDotDb8Directive
<1>15. CASE visitInstruction
  BY <1>3, <1>15, InstructionIs DEF visitInstruction
<1>16. CASE Finish
  BY <1>16
<1>17. QED
  BY <1>4, <1>5, <1>6, <1>7, <1>8, <1>9, <1>10, <1>11, <1>12, <1>13, <1>14, <1>15, <1>16 DEF Next

-----------------------------------------------------------------------------
(* Symbols and the scopes that they are in *)

\* The rules of the text do not change.
LEMMA TextStays ==
    ASSUME program' = program
    PROVE  /\ \A i : Block(i)' = Block(i) /\ Enclosing(i)' = Enclosing(i)
           /\ \A d : IsDefinition(d)' <=> IsDefinition(d)
           /\ \A d : Captured(d)' <=> Captured(d)
<1>1. \A kind, i, k : Count(kind, i, k)' = Count(kind, i, k)
  BY DEF Count
<1>2. \A i : Enclosing(i)' = Enclosing(i)
  BY <1>1 DEF Enclosing
<1>3. \A i : Block(i)' = Block(i)
  BY <1>2 DEF Block
<1>4. \A d : IsDefinition(d)' <=> IsDefinition(d)
  BY DEF IsDefinition
<1>5. \A name : Definitions(name)' = Definitions(name)
  BY <1>4 DEF Definitions
<1>6. \A d : Captured(d)' <=> Captured(d)
  BY <1>2, <1>3, <1>5 DEF Captured
<1>7. QED
  BY <1>2, <1>3, <1>4, <1>6

LEMMA CursorIs ==
    ASSUME WalkInv, at \in 1 .. Len(program)
    PROVE  /\ curr_scope_node = Scope(at) /\ at \in 1 .. Seen /\ curr_scope_node \in Node
           /\ at \in Nat \ {0} /\ Len(program) \in Nat
<1>1. /\ Len(program) \in Nat /\ at \in Nat \ {0} /\ pass \in 0 .. 1
  BY VisitsAre DEF WalkInv
<1>2. at \in 1 .. Seen /\ curr_scope_node = Scope(at)
  <2>1. CASE pass = 0
    BY <1>1, <2>1, VisitsAre DEF WalkInv
  <2>2. CASE pass = 1
    BY <1>1, <2>2, VisitsAre, AtTheLine DEF WalkInv
  <2>3. QED
    BY <1>1, <2>1, <2>2
<1>3. QED
  BY <1>1, <1>2, LineIsInScope

LEMMA PrefixOfPrefix ==
    ASSUME NEW l \in Node, NEW m \in Node, NEW n \in Node, IsPrefix(l, m), IsPrefix(m, n)
    PROVE  IsPrefix(l, n)
<1>1. /\ Len(l) \in Nat /\ Len(m) \in Nat /\ Len(n) \in Nat
      /\ Len(l) <= Len(m) /\ Len(m) <= Len(n)
      /\ \A k \in 1 .. Len(l) : l[k] = m[k]
      /\ \A k \in 1 .. Len(m) : m[k] = n[k]
  <2>1. Len(l) \in Nat /\ Len(m) \in Nat /\ Len(n) \in Nat
    BY DEF Node
  <2>2. QED
    BY <2>1, PrefixIs
<1>2. \A k \in 1 .. Len(l) : k \in 1 .. Len(m)
  BY <1>1
<1>3. \A k \in 1 .. Len(l) : l[k] = n[k]
  BY <1>1, <1>2
<1>4. Len(l) <= Len(n)
  BY <1>1
<1>5. QED
  BY <1>3, <1>4, PrefixIs

\* A definition that the first pass has met.
LEMMA DefinedIs ==
    ASSUME WalkInv, NEW d \in DefinedSoFar
    PROVE  /\ d \in 1 .. Len(trace[0]) /\ d \in DOMAIN program /\ IsDefinition(d) /\ d \in Nat
           /\ d \in 1 .. Seen /\ Scope(d) \in Node /\ Scope(d) # tree
           /\ Len(trace[0]) \in Nat /\ Len(trace[0]) <= Len(program)
           /\ d \in Definitions(program[d].name)
           /\ SymbolOf(d) = <<Scope(d), program[d].name>>
           /\ \A e \in Definitions(program[d].name) : e < d => e \in DefinedSoFar
<1>1. /\ d \in 1 .. Len(trace[0]) /\ Len(trace[0]) \in Nat /\ Len(program) \in Nat
      /\ DOMAIN program = 1 .. Len(program) /\ Seen \in Nat
      /\ DOMAIN trace[0] = 1 .. Len(trace[0]) /\ IsDefinition(d)
  BY VisitsAre DEF WalkInv, DefinedSoFar
<1>2. Len(trace[0]) <= Len(program) /\ Len(trace[0]) <= Seen
  <2>1. /\ at \in 1 .. Len(program) + 1 /\ pass \in 0 .. 1
        /\ pass = 0 => Len(trace[0]) = at - 1 /\ Seen = at
        /\ pass = 1 => Len(trace[0]) = Len(program) /\ Seen = Len(program)
    BY VisitsAre DEF WalkInv
  <2>2. CASE pass = 0
    BY <1>1, <2>1, <2>2
  <2>3. CASE pass = 1
    BY <1>1, <2>1, <2>3
  <2>4. QED
    BY <2>1, <2>2, <2>3
<1>3. d \in 1 .. Seen /\ d \in DOMAIN program /\ d \in Nat
  BY <1>1, <1>2
<1>4. Scope(d) \in Node /\ Scope(d) # tree
  BY <1>3, LineIsInScope
<1>5. ASSUME NEW e \in Definitions(program[d].name), e < d
      PROVE  e \in DefinedSoFar
  <2>1. e \in DOMAIN program /\ IsDefinition(e)
    BY DEF Definitions
  <2>2. e \in 1 .. Len(trace[0])
    BY <1>1, <1>5, <2>1
  <2>3. QED
    BY <1>1, <2>1, <2>2 DEF DefinedSoFar
<1>6. d \in Definitions(program[d].name)
  BY <1>1, <1>3 DEF Definitions
<1>7. QED
  BY <1>1, <1>2, <1>3, <1>4, <1>5, <1>6 DEF SymbolOf

\* The definitions met so far, and their symbols, as the passes go on.
LEMMA DefinitionsGrow ==
    ASSUME WalkInv, Noted
    PROVE  /\ \A d \in DefinedSoFar \cup {at} : SymbolOf(d)' = SymbolOf(d)
           /\ DefinedSoFar' = DefinedSoFar \cup (IF LineIsDefinition THEN {at} ELSE {})
           /\ pass = 1 /\ LineIsDefinition => at \in DefinedSoFar
           /\ SymbolOf(at) = <<curr_scope_node, program[at].name>>
           /\ pass' = pass
           /\ at \in 1 .. Seen
<1>1. /\ program' = program /\ at \in 1 .. Len(program) /\ Len(program) \in Nat /\ at \in Nat \ {0}
      /\ pass \in 0 .. 1 /\ DOMAIN trace[0] = 1 .. Len(trace[0])
  BY VisitsAre DEF WalkInv, Noted
<1>2. CASE pass = 0
  <2>1. /\ VisitsAreTraced' /\ Len(trace[0])' = at /\ Len(trace[0]) = at - 1
        /\ \A i \in 1 .. at : Scope(i)' = Scope(i)
        /\ Scope(at) = curr_scope_node /\ Seen = at /\ pass' = 0
    BY <1>2, VisitsAre, NotedFirst DEF WalkInv
  <2>2. DOMAIN trace'[0] = 1 .. at
    BY <2>1 DEF VisitsAreTraced
  <2>3. DefinedSoFar' = DefinedSoFar \cup (IF LineIsDefinition THEN {at} ELSE {})
    <3>1. \A d : d \in 1 .. at <=> d \in 1 .. at - 1 \/ d = at
      BY <1>1
    <3>2. QED
      BY <1>1, <2>1, <2>2, <3>1 DEF DefinedSoFar, LineIsDefinition, IsDefinition
  <2>4. \A d \in 1 .. at : SymbolOf(d)' = SymbolOf(d)
    BY <1>1, <2>1 DEF SymbolOf
  <2>5. \A d \in DefinedSoFar \cup {at} : SymbolOf(d)' = SymbolOf(d)
    <3>1. \A d \in 1 .. at - 1 : d \in 1 .. at
      BY <1>1
    <3>2. \A d \in DefinedSoFar : d \in 1 .. at - 1
      BY <1>1, <2>1 DEF DefinedSoFar, IsDefinition
    <3>3. at \in 1 .. at
      BY <1>1
    <3>4. QED
      BY <2>4, <3>1, <3>2, <3>3
  <2>6. SymbolOf(at) = <<curr_scope_node, program[at].name>>
    BY <2>1 DEF SymbolOf
  <2>7. at \in 1 .. Seen
    BY <1>1, <2>1
  <2>8. pass' = pass /\ pass # 1
    BY <1>2, <2>1
  <2>9. QED
    BY <2>3, <2>5, <2>6, <2>7, <2>8, Zenon
<1>3. CASE pass = 1
  <2>1. /\ trace'[0] = trace[0] /\ Len(trace[0]) = Len(program) /\ Seen = Len(program) /\ pass' = 1
        /\ \A i \in 1 .. Len(program) : Scope(i)' = Scope(i)
    BY <1>3, VisitsAre, NotedAgain DEF WalkInv
  <2>2. Scope(at) = curr_scope_node
    BY <1>1, <1>3, AtTheLine
  <2>3. LineIsDefinition => at \in DefinedSoFar
    BY <1>1, <2>1 DEF DefinedSoFar, LineIsDefinition, IsDefinition
  <2>4. DefinedSoFar' = DefinedSoFar
    BY <1>1, <2>1 DEF DefinedSoFar, IsDefinition
  <2>5. \A d \in 1 .. Len(program) : SymbolOf(d)' = SymbolOf(d)
    BY <1>1, <2>1 DEF SymbolOf
  <2>6. \A d \in DefinedSoFar \cup {at} : SymbolOf(d)' = SymbolOf(d)
    <3>1. \A d \in DefinedSoFar : d \in 1 .. Len(program)
      BY <1>1, <2>1 DEF DefinedSoFar, IsDefinition
    <3>2. QED
      BY <1>1, <2>5, <3>1
  <2>7. SymbolOf(at) = <<curr_scope_node, program[at].name>>
    BY <2>2 DEF SymbolOf
  <2>8. DefinedSoFar' = DefinedSoFar \cup (IF LineIsDefinition THEN {at} ELSE {})
    BY <2>3, <2>4
  <2>9. at \in 1 .. Seen /\ pass' = pass
    BY <1>1, <1>3, <2>1
  <2>10. QED
    BY <2>3, <2>6, <2>7, <2>8, <2>9, Zenon
<1>4. QED
  BY <1>1, <1>2, <1>3

\* The names that find looks at: those of the node and of its parents.
LEMMA FindIs ==
    ASSUME NEW n \in Node, NEW name
    PROVE  \/ /\ find(n, name) = NotFound
              /\ \A k \in 1 .. Len(n) : <<SubSeq(n, 1, k), name>> \notin DOMAIN table
           \/ \E k \in 1 .. Len(n) :
                 /\ find(n, name) = <<SubSeq(n, 1, k), name>>
                 /\ <<SubSeq(n, 1, k), name>> \in DOMAIN table
                 /\ \A j \in 1 .. Len(n) : <<SubSeq(n, 1, j), name>> \in DOMAIN table => j <= k
<1> DEFINE having == {k \in 1 .. Len(n) : <<SubSeq(n, 1, k), name>> \in DOMAIN table}
           deepest == CHOOSE k \in having : \A j \in having : j <= k
<1>1. find(n, name) = IF having = {} THEN NotFound ELSE <<SubSeq(n, 1, deepest), name>>
  BY Zenon DEF find
<1>2. CASE having = {}
  BY <1>1, <1>2
<1>3. CASE having # {}
  <2>1. Len(n) \in Nat
    BY DEF Node
  <2>2. having \in SUBSET (0 .. Len(n))
    <3>1. \A k \in 1 .. Len(n) : k \in 0 .. Len(n)
      BY <2>1
    <3>2. QED
      BY <3>1
  <2>3. \E k \in having : \A j \in having : j <= k
    <3> HIDE DEF having
    <3> QED
      BY <1>3, <2>1, <2>2, GreatestOf
  <2>4. deepest \in having /\ \A j \in having : j <= deepest
    <3> HIDE DEF having
    <3> QED
      BY <2>3, Zenon
  <2>5. find(n, name) = <<SubSeq(n, 1, deepest), name>>
    BY <1>1, <1>3
  <2> HIDE DEF deepest
  <2>6. QED
    BY <2>4, <2>5
<1>4. QED
  BY <1>2, <1>3

\* Names that only get looked up do not count as labels.
LEMMA NamesAreInserted ==
    ASSUME NEW n \in Node, NEW names, InsertMissing(n, names)
    PROVE  /\ Labels' = Labels
           /\ \A k \in DOMAIN table' \ DOMAIN table :
                 \E name \in names : k = <<n, name>> /\ find(n, name) = NotFound
<1>1. table' = [k \in DOMAIN table \cup {FoundOrInserted(n, name) : name \in names} |->
                   IF k \in DOMAIN table THEN table[k] ELSE NewSymbol]
  BY DEF InsertMissing
<1>2. DOMAIN table' = DOMAIN table \cup {FoundOrInserted(n, name) : name \in names}
  BY <1>1
<1>3. \A k \in DOMAIN table' : table'[k] = IF k \in DOMAIN table THEN table[k] ELSE NewSymbol
  BY <1>1
<1>4. ~NewSymbol.found_as_label
  BY DEF NewSymbol
<1>5. \A k : k \in Labels' <=> k \in Labels
  BY <1>2, <1>3, <1>4 DEF Labels
<1>6. ASSUME NEW name \in names, FoundOrInserted(n, name) \notin DOMAIN table
      PROVE  FoundOrInserted(n, name) = <<n, name>> /\ find(n, name) = NotFound
  <2>1. find(n, name) = NotFound \/ find(n, name) \in DOMAIN table
    BY FindIs
  <2>2. QED
    BY <1>6, <2>1 DEF FoundOrInserted
<1>7. QED
  BY <1>2, <1>5, <1>6

\* A label that is found was put there by a definition that is not captured.
LEMMA LabelIsOf ==
    ASSUME TableHasDefinitions, NEW k \in Labels
    PROVE  \E c \in DefinedSoFar : ~Captured(c) /\ SymbolOf(c) = k
  BY DEF TableHasDefinitions

\* Where a definition is visible its name leads to a label, and to one that was there
\* as soon as the definition.
LEMMA VisibleIsFound ==
    ASSUME WalkInv, TableHasDefinitions, NEW i \in 1 .. Seen, NEW d \in DefinedSoFar,
           NEW name, program[d].name = name, IsPrefix(Scope(d), Scope(i))
    PROVE  /\ find(Scope(i), name) \in Labels
           /\ \E c \in DefinedSoFar :
                 /\ c <= d /\ ~Captured(c) /\ program[c].name = name
                 /\ SymbolOf(c) = find(Scope(i), name) /\ IsPrefix(Scope(c), Scope(i))
<1> DEFINE node == Scope(i)
           sym == find(node, name)
           T == {e \in DefinedSoFar : e <= d /\ program[e].name = name /\ IsPrefix(Scope(e), node)}
<1>1. node \in Node /\ Len(node) \in Nat
  BY LineIsInScope
<1>2. PICK e \in T : \A f \in T : e <= f
  <2>1. T \in SUBSET Nat
    BY DefinedIs
  <2>2. d \in T
    BY DefinedIs
  <2> HIDE DEF T
  <2>3. QED
    BY <2>1, <2>2, LeastOf
<1>3. /\ e \in DefinedSoFar /\ e <= d /\ program[e].name = name /\ IsPrefix(Scope(e), node)
      /\ e \in Nat /\ d \in Nat /\ Scope(e) \in Node /\ Scope(e) # tree /\ e \in 1 .. Seen
      /\ SymbolOf(e) = <<Scope(e), name>>
  BY <1>2, DefinedIs
\* The first of the visible definitions is not captured.
<1>4. ~Captured(e)
  <2>1. SUFFICES ASSUME NEW f \in Definitions(program[e].name), f < e,
                        Block(f) \in Enclosing(e)
                 PROVE  FALSE
    BY DEF Captured
  <2>2. f \in DefinedSoFar
    BY <1>3, <2>1, DefinedIs
  <2>3. /\ f \in 1 .. Seen /\ Scope(f) \in Node /\ f \in Nat /\ program[f].name = name
    BY <1>3, <2>1, <2>2, DefinedIs DEF Definitions
  <2>4. IsPrefix(Scope(f), Scope(e))
    BY <1>3, <2>1, <2>3, BlockEncloses
  <2>5. IsPrefix(Scope(f), node)
    BY <1>1, <1>3, <2>3, <2>4, PrefixOfPrefix
  <2>6. f \in T
    BY <1>3, <2>1, <2>2, <2>3, <2>5
  <2>7. QED
    BY <1>2, <1>3, <2>1, <2>3, <2>6
<1> HIDE DEF T
<1>5. SymbolOf(e) \in Labels
  BY <1>3, <1>4 DEF TableHasDefinitions
<1>6. PICK a \in 1 .. Len(node) : Scope(e) = SubSeq(node, 1, a)
  BY <1>1, <1>3, ScopeAround
<1>7. <<SubSeq(node, 1, a), name>> \in DOMAIN table /\ <<SubSeq(node, 1, a), name>> \in Labels
  BY <1>3, <1>5, <1>6 DEF Labels
<1>8. PICK k \in 1 .. Len(node) :
         /\ sym = <<SubSeq(node, 1, k), name>>
         /\ <<SubSeq(node, 1, k), name>> \in DOMAIN table
         /\ \A j \in 1 .. Len(node) : <<SubSeq(node, 1, j), name>> \in DOMAIN table => j <= k
  BY <1>1, <1>7, FindIs, Zenon
<1>9. a <= k
  BY <1>7, <1>8, Zenon
<1>10. /\ SubSeq(node, 1, k) \in Node /\ Len(SubSeq(node, 1, k)) = k
       /\ IsPrefix(SubSeq(node, 1, k), node) /\ Len(Scope(e)) = a
  BY <1>1, <1>6, <1>8, NodeAbove, ScopeAround, ZenonT(60)
<1>11. IsPrefix(Scope(e), SubSeq(node, 1, k))
  BY <1>1, <1>3, <1>9, <1>10, ScopesAroundNest
\* The symbol found is a label, or else it would hide the definition.
<1>12. sym \in Labels
  <2>1. PICK j \in 1 .. Len(SubSeq(node, 1, k)) : Scope(e) = SubSeq(SubSeq(node, 1, k), 1, j)
    BY <1>3, <1>10, <1>11, ScopeAround
  <2>2. <<SubSeq(SubSeq(node, 1, k), 1, j), name>> \in Labels
    BY <1>6, <1>7, <2>1
  <2>3. sym[1] = SubSeq(node, 1, k) /\ sym[2] = name /\ sym \in DOMAIN table
    BY <1>8
  <2>4. QED
    BY <2>1, <2>2, <2>3 DEF TableHasDefinitions
<1>13. PICK c \in DefinedSoFar : ~Captured(c) /\ SymbolOf(c) = sym
  BY <1>12, LabelIsOf
<1>14. /\ Scope(c) = SubSeq(node, 1, k) /\ program[c].name = name /\ c \in 1 .. Seen /\ c \in Nat
  <2>1. SymbolOf(c) = <<Scope(c), program[c].name>> /\ c \in 1 .. Seen /\ c \in Nat
    BY <1>13, DefinedIs
  <2>2. QED
    BY <1>8, <1>13, <2>1
<1>15. CASE c <= d
  BY <1>10, <1>12, <1>13, <1>14, <1>15
<1>16. CASE ~(c <= d)
  <2>1. e < c
    BY <1>3, <1>14, <1>16
  <2>2. Block(e) \in Enclosing(c)
    BY <1>3, <1>11, <1>14, BlockEncloses
  <2>3. e \in Definitions(program[c].name)
    BY <1>3, <1>14, DefinedIs
  <2>4. Block(e) = Block(c)
    BY <1>13, <2>1, <2>2, <2>3 DEF Captured
  <2>5. Scope(e) = Scope(c)
    BY <1>3, <1>11, <1>14, <2>4, BlocksByScope
  <2>6. SymbolOf(e) = sym
    BY <1>3, <1>8, <1>14, <2>5
  <2>7. QED
    BY <1>3, <1>4, <1>12, <2>6
<1>17. QED
  BY <1>15, <1>16

\* A definition sets a symbol of its own name.
LEMMA TargetHasName ==
    ASSUME WalkInv, TableHasDefinitions, NEW d \in DefinedSoFar
    PROVE  \E c \in DefinedSoFar : program[c].name = program[d].name /\ SymbolOf(c) = Target(d)
<1>1. d \in 1 .. Seen /\ Scope(d) \in Node /\ SymbolOf(d) = <<Scope(d), program[d].name>>
  BY DefinedIs
<1>2. IsPrefix(Scope(d), Scope(d))
  BY <1>1, PrefixOfItself
<1>3. QED
  BY <1>1, <1>2, VisibleIsFound DEF Target

\* A definition that is not captured sets the symbol of its own scope.
LEMMA TargetIsOwn ==
    ASSUME WalkInv, TableHasDefinitions, NEW d \in DefinedSoFar
    PROVE  /\ Target(d) \in Labels
           /\ ~Captured(d) => Target(d) = SymbolOf(d)
<1>1. /\ d \in 1 .. Seen /\ Scope(d) \in Node /\ d \in Nat
      /\ SymbolOf(d) = <<Scope(d), program[d].name>>
  BY DefinedIs
<1>2. IsPrefix(Scope(d), Scope(d))
  BY <1>1, PrefixOfItself
<1>3. /\ Target(d) \in Labels
      /\ \E c \in DefinedSoFar :
            /\ c <= d /\ program[c].name = program[d].name
            /\ SymbolOf(c) = Target(d) /\ IsPrefix(Scope(c), Scope(d))
  BY <1>1, <1>2, VisibleIsFound DEF Target
<1>4. PICK c \in DefinedSoFar :
         /\ c <= d /\ program[c].name = program[d].name
         /\ SymbolOf(c) = Target(d) /\ IsPrefix(Scope(c), Scope(d))
  BY <1>3
<1>5. /\ c \in 1 .. Seen /\ c \in Nat /\ c \in Definitions(program[d].name)
      /\ SymbolOf(c) = <<Scope(c), program[d].name>>
  BY <1>4, DefinedIs
<1>6. ASSUME ~Captured(d)
      PROVE  Scope(c) = Scope(d)
  <2>1. CASE c = d
    BY <2>1
  <2>2. CASE c # d
    <3>1. c < d
      BY <1>1, <1>4, <1>5, <2>2
    <3>2. Block(c) \in Enclosing(d)
      BY <1>1, <1>4, <1>5, BlockEncloses
    <3>3. Block(c) = Block(d)
      BY <1>5, <1>6, <3>1, <3>2 DEF Captured
    <3>4. QED
      BY <1>1, <1>4, <1>5, <3>3, BlocksByScope
  <2>3. QED
    BY <2>1, <2>2
<1>7. QED
  BY <1>1, <1>3, <1>4, <1>5, <1>6

-----------------------------------------------------------------------------
(* What a step does to the symbol table *)

\* Setting a label keeps the labels and adds one.
LEMMA LabelIsSet ==
    ASSUME NEW n, NEW name, NEW addr, NEW key, FoundOrInserted(n, name) = key,
           SetSymbol(n, name, [addr |-> addr, found_as_label |-> TRUE])
    PROVE  /\ Labels' = Labels \cup {key} /\ DOMAIN table' = DOMAIN table \cup {key}
           /\ table'[key].addr = addr
           /\ \A k \in DOMAIN table \ {key} : table'[k] = table[k]
<1>1. table' = [k \in DOMAIN table \cup {key} |->
                   IF k = key THEN [addr |-> addr, found_as_label |-> TRUE] ELSE table[k]]
  BY DEF SetSymbol
<1>2. DOMAIN table' = DOMAIN table \cup {key}
  BY <1>1
<1>3. \A k \in DOMAIN table' : table'[k].found_as_label <=> k = key \/ table[k].found_as_label
  BY <1>1
<1>4. \A k : k \in Labels' <=> k \in Labels \cup {key}
  BY <1>2, <1>3 DEF Labels
<1>5. table'[key].addr = addr /\ \A k \in DOMAIN table \ {key} : table'[k] = table[k]
  BY <1>1
<1>6. QED
  BY <1>2, <1>4, <1>5

\* Symbols are only added, and none where a symbol of its name would be found.
TableGrows ==
    /\ program' = program
    /\ DOMAIN table \subseteq DOMAIN table'
    /\ Labels \subseteq Labels'
    /\ \A k \in DOMAIN table' \ DOMAIN table :
          \E n \in Node : \E name : k = <<n, name>> /\ find(n, name) = NotFound

LEMMA NoPairIsNotFound ==
    ASSUME NEW n, NEW name
    PROVE  <<n, name>> # NotFound
  BY DEF NotFound

\* And the same after a step.
LEMMA FindIsThen ==
    ASSUME NEW n \in Node, NEW name
    PROVE  \/ /\ find(n, name)' = NotFound
              /\ \A k \in 1 .. Len(n) : <<SubSeq(n, 1, k), name>> \notin DOMAIN table'
           \/ \E k \in 1 .. Len(n) :
                 /\ find(n, name)' = <<SubSeq(n, 1, k), name>>
                 /\ <<SubSeq(n, 1, k), name>> \in DOMAIN table'
                 /\ \A j \in 1 .. Len(n) : <<SubSeq(n, 1, j), name>> \in DOMAIN table' => j <= k
<1> DEFINE having == {k \in 1 .. Len(n) : <<SubSeq(n, 1, k), name>> \in DOMAIN table'}
           deepest == CHOOSE k \in having : \A j \in having : j <= k
<1>2. find(n, name)' = IF having = {} THEN NotFound ELSE <<SubSeq(n, 1, deepest), name>>
  BY Zenon DEF find, NotFound
<1>3. CASE having = {}
  BY <1>2, <1>3
<1>4. CASE having # {}
  <2>1. Len(n) \in Nat
    BY DEF Node
  <2>2. having \in SUBSET (0 .. Len(n))
    <3>1. \A k \in 1 .. Len(n) : k \in 0 .. Len(n)
      BY <2>1
    <3>2. QED
      BY <3>1
  <2>3. \E k \in having : \A j \in having : j <= k
    <3> HIDE DEF having
    <3> QED
      BY <1>4, <2>1, <2>2, GreatestOf
  <2>4. deepest \in having /\ \A j \in having : j <= deepest
    <3> HIDE DEF having
    <3> QED
      BY <2>3, Zenon
  <2>5. find(n, name)' = <<SubSeq(n, 1, deepest), name>>
    BY <1>2, <1>4
  <2> HIDE DEF deepest
  <2>6. QED
    BY <2>4, <2>5
<1>5. QED
  BY <1>3, <1>4

\* What a name leads to stays what it is.
LEMMA FindStays ==
    ASSUME TableGrows, NEW n \in Node, NEW name
    PROVE  /\ find(n, name) # NotFound => find(n, name)' = find(n, name)
           /\ find(n, name)' \in DOMAIN table => find(n, name)' = find(n, name)
<1> DEFINE key(k) == <<SubSeq(n, 1, k), name>>
<1>1. \/ /\ find(n, name) = NotFound
         /\ \A k \in 1 .. Len(n) : key(k) \notin DOMAIN table
      \/ \E k \in 1 .. Len(n) :
            /\ find(n, name) = key(k) /\ key(k) \in DOMAIN table
            /\ \A j \in 1 .. Len(n) : key(j) \in DOMAIN table => j <= k
  BY FindIs
<1>2. \/ /\ find(n, name)' = NotFound
         /\ \A k \in 1 .. Len(n) : key(k) \notin DOMAIN table'
      \/ \E k \in 1 .. Len(n) :
            /\ find(n, name)' = key(k) /\ key(k) \in DOMAIN table'
            /\ \A j \in 1 .. Len(n) : key(j) \in DOMAIN table' => j <= k
  BY FindIsThen
<1>3. \A k \in 1 .. Len(n) : key(k) # NotFound
  BY NoPairIsNotFound
<1>4. DOMAIN table \subseteq DOMAIN table'
  BY DEF TableGrows
<1>5. Len(n) \in Nat /\ \A k \in 1 .. Len(n) : k \in Nat
  BY DEF Node
<1>6. ASSUME NEW k \in 1 .. Len(n), find(n, name)' = key(k), key(k) \in DOMAIN table,
             \A j \in 1 .. Len(n) : key(j) \in DOMAIN table' => j <= k
      PROVE  find(n, name)' = find(n, name)
  <2>1. PICK m \in 1 .. Len(n) : /\ find(n, name) = key(m) /\ key(m) \in DOMAIN table
                                 /\ \A j \in 1 .. Len(n) : key(j) \in DOMAIN table => j <= m
    BY <1>1, <1>6, Zenon
  <2>2. k <= m /\ m <= k
    BY <1>4, <1>6, <2>1, Zenon
  <2>3. k \in Nat /\ m \in Nat
    BY <1>5, <2>1
  <2>4. k = m
    BY <2>2, <2>3
  <2>5. QED
    BY <1>6, <2>1, <2>4
<1>7. ASSUME find(n, name)' \in DOMAIN table, find(n, name)' # NotFound
      PROVE  find(n, name)' = find(n, name)
  <2>1. PICK k \in 1 .. Len(n) : /\ find(n, name)' = key(k)
                                 /\ \A j \in 1 .. Len(n) : key(j) \in DOMAIN table' => j <= k
    BY <1>2, <1>7, Zenon
  <2>2. QED
    BY <1>6, <1>7, <2>1
<1>8. ASSUME find(n, name) # NotFound
      PROVE  find(n, name)' \in DOMAIN table /\ find(n, name)' # NotFound
  <2>1. PICK k \in 1 .. Len(n) : find(n, name) = key(k) /\ key(k) \in DOMAIN table
    BY <1>1, <1>8, Zenon
  <2>2. PICK m \in 1 .. Len(n) : /\ find(n, name)' = key(m) /\ key(m) \in DOMAIN table'
                                 /\ \A j \in 1 .. Len(n) : key(j) \in DOMAIN table' => j <= m
    BY <1>2, <1>4, <2>1, Zenon
  <2>3. CASE key(m) \in DOMAIN table
    BY <1>3, <2>2, <2>3
  <2>4. CASE key(m) \notin DOMAIN table
    <3>1. PICK node \in Node : \E nm : key(m) = <<node, nm>> /\ find(node, nm) = NotFound
      BY <2>2, <2>4 DEF TableGrows
    <3>2. node = SubSeq(n, 1, m) /\ find(node, name) = NotFound
      BY <3>1
    <3>3. k <= m
      BY <1>4, <2>1, <2>2, Zenon
    <3>4. Len(node) = m /\ k \in 1 .. m /\ m \in Nat /\ k \in Nat
      <4>1. Len(node) = m /\ m \in Nat /\ k \in Nat
        BY <2>1, <2>2, <3>2, NodeAbove
      <4>2. QED
        BY <2>1, <3>3, <4>1
    <3>5. SubSeq(node, 1, k) = SubSeq(n, 1, k)
      <4>1. /\ SubSeq(node, 1, k) \in Node /\ SubSeq(n, 1, k) \in Node
            /\ Len(SubSeq(node, 1, k)) = k /\ Len(SubSeq(n, 1, k)) = k
            /\ \A j \in 1 .. k : SubSeq(node, 1, k)[j] = node[j] /\ SubSeq(n, 1, k)[j] = n[j]
            /\ \A j \in 1 .. m : node[j] = n[j]
        BY <2>1, <2>2, <3>1, <3>2, <3>4, NodeAbove
      <4>2. \A j \in 1 .. k : j \in 1 .. m
        BY <3>4
      <4>3. QED
        BY <4>1, <4>2, NodesAreEqual
    <3>6. <<SubSeq(node, 1, k), name>> \notin DOMAIN table
      <4>1. k \in 1 .. Len(node)
        BY <3>4
      <4>2. \A j : <<SubSeq(node, 1, j), name>> # NotFound
        BY NoPairIsNotFound
      <4>3. QED
        BY <3>1, <3>2, <4>1, <4>2, FindIs, Zenon
    <3>7. QED
      BY <2>1, <3>5, <3>6
  <2>5. QED
    BY <2>3, <2>4
<1>9. NotFound \in DOMAIN table => find(n, name)' # NotFound \/ find(n, name) = NotFound
  BY <1>8
<1>10. QED
  BY <1>7, <1>8, <1>9

\* A scope's own symbol is found from it first.
LEMMA OwnIsFoundThen ==
    ASSUME NEW n \in Node, n # tree, NEW name, <<n, name>> \in DOMAIN table'
    PROVE  find(n, name)' = <<n, name>>
<1>1. Len(n) \in Nat \ {0} /\ SubSeq(n, 1, Len(n)) = n
  <2>1. Len(n) \in Nat
    BY DEF Node
  <2>2. Len(n) # 0
    BY <2>1 DEF Node, tree
  <2>3. Len(n) \in 1 .. Len(n)
    BY <2>1, <2>2
  <2>4. QED
    BY <2>1, <2>2, <2>3, NodeAbove
<1>2. Len(n) \in 1 .. Len(n) /\ <<SubSeq(n, 1, Len(n)), name>> \in DOMAIN table'
  BY <1>1
<1>3. PICK k \in 1 .. Len(n) :
         /\ find(n, name)' = <<SubSeq(n, 1, k), name>>
         /\ \A j \in 1 .. Len(n) : <<SubSeq(n, 1, j), name>> \in DOMAIN table' => j <= k
  BY <1>2, FindIsThen, Zenon
<1>4. Len(n) <= k /\ k \in 1 .. Len(n)
  BY <1>2, <1>3, Zenon
<1>5. k = Len(n)
  <2>1. \A l \in Nat : \A j \in 1 .. l : l <= j => j = l
    OBVIOUS
  <2>2. QED
    BY <1>1, <1>4, <2>1, Zenon
<1>6. QED
  BY <1>1, <1>3, <1>5

\* A definition sets the symbol that an outer one, or itself in the first pass, has put
\* into the table; or else a new one, in its own scope.
LEMMA DefinitionSets ==
    ASSUME WalkInv, TableHasDefinitions, Noted, LineIsDefinition, ~Duplicate(program[at].name),
           NEW key, key = FoundOrInserted(curr_scope_node, program[at].name)
    PROVE  \/ /\ key = find(curr_scope_node, program[at].name) /\ key \in Labels
              /\ at \in DefinedSoFar \/ Captured(at)
           \/ /\ pass = 0 /\ ~Captured(at) /\ key = SymbolOf(at)
              /\ find(curr_scope_node, program[at].name) = NotFound
              /\ SymbolOf(at) \notin DOMAIN table
<1> DEFINE name == program[at].name
           node == curr_scope_node
           sym == find(node, name)
<1>1. /\ at \in 1 .. Len(program) /\ at \in 1 .. Seen /\ at \in Nat /\ DOMAIN program = 1 .. Len(program)
      /\ Scope(at) = node /\ node \in Node /\ node # tree /\ Len(node) \in Nat \ {0}
      /\ SymbolOf(at) = <<node, name>> /\ pass \in 0 .. 1
  <2>1. at \in 1 .. Len(program)
    BY DEF Noted
  <2>2. at \in 1 .. Seen /\ Scope(at) = node /\ node \in Node /\ at \in Nat
    BY <2>1, CursorIs
  <2>3. node # tree /\ Len(node) \in Nat \ {0}
    BY <2>2, LineIsInScope
  <2>4. DOMAIN program = 1 .. Len(program) /\ pass \in 0 .. 1
    BY VisitsAre DEF WalkInv
  <2>5. QED
    BY <2>1, <2>2, <2>3, <2>4 DEF SymbolOf
<1>2. IsPrefix(Scope(at), node) /\ at \in Definitions(name)
  BY <1>1, PrefixOfItself DEF Definitions, LineIsDefinition
<1>3. ASSUME sym \in Labels
      PROVE  key = sym
  <2>1. sym # NotFound
    <3>1. PICK c \in DefinedSoFar : SymbolOf(c) = sym
      BY <1>3, LabelIsOf
    <3>2. QED
      BY <3>1, NoPairIsNotFound DEF SymbolOf
  <2>2. QED
    BY <2>1 DEF FoundOrInserted
<1>4. CASE pass = 1
  <2>1. at \in DefinedSoFar
    BY <1>4, DefinitionsGrow
  <2>2. sym \in Labels
    BY <1>1, <1>2, <2>1, VisibleIsFound
  <2>3. QED
    BY <1>3, <2>1, <2>2
<1>5. CASE pass = 0 /\ \E d \in DefinedSoFar : program[d].name = name /\ IsPrefix(Scope(d), node)
  <2>1. PICK d \in DefinedSoFar : program[d].name = name /\ IsPrefix(Scope(d), node)
    BY <1>5
  <2>2. PICK c \in DefinedSoFar :
           /\ ~Captured(c) /\ program[c].name = name /\ SymbolOf(c) = sym /\ IsPrefix(Scope(c), node)
    BY <1>1, <2>1, VisibleIsFound
  <2>3. sym \in Labels
    BY <1>1, <2>1, VisibleIsFound
  <2>4. /\ c \in 1 .. Seen /\ c < at /\ c \in Definitions(name) /\ SymbolOf(c) = <<Scope(c), name>>
        /\ Scope(c) \in Node
    <3>1. /\ c \in 1 .. Seen /\ c \in 1 .. Len(trace[0]) /\ c \in Definitions(name)
          /\ SymbolOf(c) = <<Scope(c), name>> /\ Scope(c) \in Node
      BY <2>2, DefinedIs
    <3>2. Len(trace[0]) = at - 1
      BY <1>5, VisitsAre DEF WalkInv
    <3>3. QED
      BY <1>1, <3>1, <3>2
  <2>5. Captured(at)
    <3>1. SUFFICES ASSUME ~Captured(at)
                   PROVE  FALSE
      OBVIOUS
    <3>2. Block(c) \in Enclosing(at)
      BY <1>1, <2>2, <2>4, BlockEncloses
    <3>3. Block(c) = Block(at)
      BY <2>4, <3>1, <3>2 DEF Captured
    <3>4. Scope(c) = node
      BY <1>1, <2>2, <2>4, <3>3, BlocksByScope
    <3>5. <<node, name>> \in DOMAIN table /\ table[<<node, name>>].found_as_label
      BY <2>2, <2>3, <2>4, <3>4 DEF Labels
    <3>6. Duplicate(name)
      BY <1>5, <3>5, NoPairIsNotFound DEF Duplicate, find_in_this_blklev
    <3>7. QED
      BY <3>6
  <2>6. QED
    BY <1>3, <2>3, <2>5
<1>6. CASE pass = 0 /\ \A d \in DefinedSoFar : program[d].name = name => ~IsPrefix(Scope(d), node)
  <2>1. \A k \in DOMAIN table : k \in Labels
    BY <1>6 DEF TableHasDefinitions
  <2>2. ASSUME NEW k \in 1 .. Len(node), <<SubSeq(node, 1, k), name>> \in DOMAIN table
        PROVE  FALSE
    <3>1. PICK c \in DefinedSoFar : SymbolOf(c) = <<SubSeq(node, 1, k), name>>
      BY <2>1, <2>2, LabelIsOf
    <3>2. /\ Scope(c) = SubSeq(node, 1, k) /\ program[c].name = name
          /\ Scope(c) \in Node
      <4>1. SymbolOf(c) = <<Scope(c), program[c].name>> /\ Scope(c) \in Node
        BY <3>1, DefinedIs
      <4>2. QED
        BY <3>1, <4>1
    <3>3. IsPrefix(Scope(c), node)
      BY <1>1, <3>2, ScopeAround
    <3>4. QED
      BY <1>6, <3>1, <3>2, <3>3
  <2>3. sym = NotFound
    BY <1>1, <2>2, FindIs
  <2>4. <<node, name>> \notin DOMAIN table
    <3>1. Len(node) \in 1 .. Len(node) /\ SubSeq(node, 1, Len(node)) = node
      <4>1. Len(node) \in 1 .. Len(node)
        BY <1>1
      <4>2. QED
        BY <1>1, <4>1, NodeAbove
    <3>2. QED
      BY <2>2, <3>1
  <2>5. ~Captured(at)
    <3>1. SUFFICES ASSUME NEW e \in Definitions(name), e < at, Block(e) \in Enclosing(at)
                   PROVE  FALSE
      BY DEF Captured
    <3>2. e \in DefinedSoFar
      <4>1. e \in 1 .. Len(program) /\ IsDefinition(e)
        BY <1>1 DEF Definitions
      <4>2. DOMAIN trace[0] = 1 .. at - 1
        BY <1>6, VisitsAre DEF WalkInv
      <4>3. QED
        BY <1>1, <3>1, <4>1, <4>2 DEF DefinedSoFar
    <3>3. e \in 1 .. Seen /\ program[e].name = name
      BY <3>1, <3>2, DefinedIs DEF Definitions
    <3>4. IsPrefix(Scope(e), node)
      BY <1>1, <3>1, <3>3, BlockEncloses
    <3>5. QED
      BY <1>6, <3>2, <3>3, <3>4
  <2>6. key = <<node, name>>
    BY <2>3 DEF FoundOrInserted
  <2>7. QED
    BY <1>1, <1>6, <2>3, <2>4, <2>5, <2>6
<1>7. QED
  BY <1>1, <1>4, <1>5, <1>6

LEMMA StepGrows ==
    ASSUME WalkInv, Next
    PROVE  TableGrows
<1>1. Passed \/ Stopped \/ Finish \/ NextPass
  BY LineStepIs DEF WalkInv
<1>2. program' = program
  BY <1>1 DEF Passed, Noted, Stopped, Finish, NextPass
<1>3. ASSUME UNCHANGED table
      PROVE  TableGrows
  BY <1>2, <1>3 DEF TableGrows, Labels
<1>4. ASSUME at \in 1 .. Len(program), NEW names, InsertMissing(curr_scope_node, names)
      PROVE  TableGrows
  <2>1. curr_scope_node \in Node
    BY <1>4, CursorIs
  <2>2. Labels' = Labels
    BY <1>4, <2>1, NamesAreInserted
  <2>3. \A k \in DOMAIN table' \ DOMAIN table :
           \E name \in names : k = <<curr_scope_node, name>> /\ find(curr_scope_node, name) = NotFound
    BY <1>4, <2>1, NamesAreInserted
  <2>4. DOMAIN table \subseteq DOMAIN table'
    BY <1>4 DEF InsertMissing
  <2>5. QED
    BY <1>2, <2>1, <2>2, <2>3, <2>4, Zenon DEF TableGrows
<1>5. CASE Passed /\ LineIsDefinition
  <2>1. PICK addr : Define(program[at].name, addr)
    BY <1>5 DEF Passed
  <2>2. at \in 1 .. Len(program) /\ curr_scope_node \in Node
    <3>1. at \in 1 .. Len(program)
      BY <1>5 DEF Passed, Noted
    <3>2. QED
      BY <3>1, CursorIs
  <2> DEFINE key == FoundOrInserted(curr_scope_node, program[at].name)
  <2>3. Labels' = Labels \cup {key} /\ DOMAIN table' = DOMAIN table \cup {key}
    BY <2>1, LabelIsSet DEF Define
  <2>4. \A k \in DOMAIN table' \ DOMAIN table :
           k = <<curr_scope_node, program[at].name>> /\ find(curr_scope_node, program[at].name) = NotFound
    <3>1. find(curr_scope_node, program[at].name) = NotFound
          \/ find(curr_scope_node, program[at].name) \in DOMAIN table
      BY <2>2, FindIs
    <3>2. QED
      BY <2>3, <3>1 DEF FoundOrInserted
  <2>5. QED
    BY <1>2, <2>2, <2>3, <2>4 DEF TableGrows
<1>6. CASE Passed /\ ~LineIsDefinition
  BY <1>3, <1>4, <1>6 DEF Passed, Noted
<1>7. CASE Stopped
  BY <1>3, <1>4, <1>7 DEF Stopped
<1>8. CASE Finish \/ NextPass
  BY <1>3, <1>8 DEF Finish, NextPass, scopeVars
<1>9. QED
  BY <1>1, <1>5, <1>6, <1>7, <1>8

\* What the first pass has noted stays, and with it the symbols that definitions set.
LEMMA DefinitionsStay ==
    ASSUME WalkInv, Next
    PROVE  /\ program' = program
           /\ \A d \in DefinedSoFar : SymbolOf(d)' = SymbolOf(d) /\ Scope(d)' = Scope(d)
           /\ IF Passed /\ LineIsDefinition THEN DefinedSoFar' = DefinedSoFar \cup {at}
              ELSE DefinedSoFar' = DefinedSoFar
           /\ pass = 1 => pass' = 1 /\ trace'[0] = trace[0]
           /\ \A d \in DOMAIN trace[0] : d \in DOMAIN trace'[0] /\ Scope(d)' = Scope(d)
<1>1. Passed \/ Stopped \/ Finish \/ NextPass
  BY LineStepIs DEF WalkInv
<1>2. program' = program
  BY <1>1 DEF Passed, Noted, Stopped, Finish, NextPass
<1>3. CASE trace' = trace /\ (pass = 1 => pass' = 1)
  <2>1. DefinedSoFar' = DefinedSoFar
    BY <1>2, <1>3 DEF DefinedSoFar, IsDefinition
  <2>2. \A d \in DOMAIN trace[0] : Scope(d)' = Scope(d)
    BY <1>3 DEF Scope
  <2>3. \A d \in DefinedSoFar : SymbolOf(d)' = SymbolOf(d) /\ Scope(d)' = Scope(d)
    BY <1>2, <2>2 DEF SymbolOf, DefinedSoFar
  <2>4. ~Passed
    <3>1. SUFFICES ASSUME Passed
                   PROVE  FALSE
      OBVIOUS
    <3>2. VisitsAreTraced /\ Noted /\ VisitsAreTraced'
      <4>1. WalkInv'
        BY WalkStepOrNone
      <4>2. QED
        BY <3>1, <4>1 DEF WalkInv, Passed
    <3>3. at' = at + 1 /\ pass' = pass /\ at \in Nat /\ pass \in 0 .. 1
      BY <3>2, VisitsAre DEF Noted
    <3>4. at = Len(trace[pass]) + 1 /\ at' = Len(trace'[pass']) + 1
      BY <3>2, <1>3 DEF VisitsAreTraced
    <3>5. at' = at
      BY <1>3, <3>3, <3>4
    <3>6. QED
      BY <3>3, <3>5
  <2>5. QED
    BY <1>2, <1>3, <2>1, <2>2, <2>3, <2>4
<1>4. CASE Passed
  <2>1. Noted
    BY <1>4 DEF Passed
  <2>2. /\ \A d \in DefinedSoFar : SymbolOf(d)' = SymbolOf(d)
        /\ DefinedSoFar' = DefinedSoFar \cup (IF LineIsDefinition THEN {at} ELSE {})
        /\ pass' = pass
    BY <2>1, DefinitionsGrow
  <2>3. /\ \A d \in DOMAIN trace[0] : d \in DOMAIN trace'[0] /\ Scope(d)' = Scope(d)
        /\ pass = 1 => trace'[0] = trace[0]
    <3>1. CASE pass = 0
      <4>1. /\ VisitsAreTraced' /\ Len(trace[0])' = at /\ Len(trace[0]) = at - 1
            /\ \A i \in 1 .. at : Scope(i)' = Scope(i)
            /\ DOMAIN trace[0] = 1 .. at - 1 /\ at \in 1 .. Len(program) + 1 /\ Len(program) \in Nat
        BY <2>1, <3>1, VisitsAre, NotedFirst DEF WalkInv
      <4>2. DOMAIN trace'[0] = 1 .. at
        BY <4>1 DEF VisitsAreTraced
      <4>3. \A d \in 1 .. at - 1 : d \in 1 .. at
        BY <4>1
      <4>4. QED
        BY <3>1, <4>1, <4>2, <4>3
    <3>2. CASE pass = 1
      <4>1. /\ trace'[0] = trace[0] /\ \A i \in 1 .. Len(program) : Scope(i)' = Scope(i)
            /\ DOMAIN trace[0] = 1 .. Len(program)
        BY <2>1, <3>2, VisitsAre, NotedAgain DEF WalkInv
      <4>2. QED
        BY <4>1
    <3>3. QED
      BY <3>1, <3>2, VisitsAre DEF WalkInv
  <2>4. \A d \in DefinedSoFar : Scope(d)' = Scope(d)
    BY <2>3 DEF DefinedSoFar
  <2>5. QED
    BY <1>2, <1>4, <2>2, <2>3, <2>4
<1>5. QED
  BY <1>1, <1>3, <1>4 DEF Stopped, Finish, NextPass

LEMMA TargetThen ==
    ASSUME program' = program, NEW d, NEW n, Scope(d)' = n
    PROVE  \A name : program[d].name = name => Target(d)' = find(n, name)'
  BY DEF Target, find

LEMMA TargetsStay ==
    ASSUME WalkInv, TableHasDefinitions, Next
    PROVE  \A d \in DefinedSoFar :
               Target(d)' = Target(d) /\ Target(d) \in Labels /\ Target(d) \in DOMAIN table
<1>1. SUFFICES ASSUME NEW d \in DefinedSoFar
               PROVE  Target(d)' = Target(d) /\ Target(d) \in Labels /\ Target(d) \in DOMAIN table
  OBVIOUS
<1>2. program' = program /\ Scope(d)' = Scope(d) /\ TableGrows
  BY DefinitionsStay, StepGrows
<1>3. PICK n \in Node : Scope(d) = n
  BY DefinedIs
<1>4. PICK name : program[d].name = name
  OBVIOUS
<1>5. Target(d)' = find(n, name)'
  BY <1>2, <1>3, <1>4, TargetThen
<1>6. Target(d) = find(n, name)
  BY <1>3, <1>4 DEF Target
<1>7. Target(d) \in Labels
  BY TargetIsOwn
<1>8. Target(d) # NotFound
  <2>1. PICK c \in DefinedSoFar : SymbolOf(c) = Target(d)
    BY <1>7, LabelIsOf
  <2>2. QED
    BY <2>1, NoPairIsNotFound DEF SymbolOf
<1>9. QED
  BY <1>2, <1>5, <1>6, <1>7, <1>8, FindStays DEF Labels

LEMMA TableKeepsDefinitions ==
    ASSUME WalkInv, TableHasDefinitions, DefinitionsAreUnique, Next
    PROVE  TableHasDefinitions' /\ DefinitionsAreUnique'
<1>1. Passed \/ Stopped \/ Finish \/ NextPass
  BY LineStepIs DEF WalkInv
<1>2. /\ program' = program
      /\ \A d \in DefinedSoFar : SymbolOf(d)' = SymbolOf(d)
      /\ IF Passed /\ LineIsDefinition THEN DefinedSoFar' = DefinedSoFar \cup {at}
         ELSE DefinedSoFar' = DefinedSoFar
      /\ pass = 1 => pass' = 1
  BY DefinitionsStay
<1>3. \A d : Captured(d)' <=> Captured(d)
  BY <1>2, TextStays
<1>4. /\ Labels = {SymbolOf(d) : d \in {e \in DefinedSoFar : ~Captured(e)}}
      /\ \A k \in DOMAIN table \ Labels :
            /\ pass = 1
            /\ \A n \in 1 .. Len(k[1]) : <<SubSeq(k[1], 1, n), k[2]>> \notin Labels
  BY DEF TableHasDefinitions
\* Neither a new label nor a new definition that is not captured.
<1>5. ASSUME Labels' = Labels, Passed /\ LineIsDefinition => at \in DefinedSoFar \/ Captured(at)
      PROVE  /\ Labels' = {SymbolOf(d)' : d \in {e \in DefinedSoFar' : ~Captured(e)'}}
             /\ DefinitionsAreUnique'
  <2>1. \A d : d \in DefinedSoFar' /\ ~Captured(d) <=> d \in DefinedSoFar /\ ~Captured(d)
    BY <1>2, <1>5
  <2>2. {e \in DefinedSoFar' : ~Captured(e)'} = {e \in DefinedSoFar : ~Captured(e)}
    BY <1>3, <2>1
  <2>3. {SymbolOf(d)' : d \in {e \in DefinedSoFar : ~Captured(e)}}
            = {SymbolOf(d) : d \in {e \in DefinedSoFar : ~Captured(e)}}
    BY <1>2
  <2>4. DefinitionsAreUnique'
    BY <1>2, <1>3, <2>1 DEF DefinitionsAreUnique
  <2>5. QED
    BY <1>4, <1>5, <2>2, <2>3, <2>4
<1>6. CASE Passed /\ LineIsDefinition
  <2>1. PICK addr : /\ Noted /\ ~Duplicate(program[at].name) /\ Define(program[at].name, addr)
    BY <1>6 DEF Passed
  <2> DEFINE name == program[at].name
             key == FoundOrInserted(curr_scope_node, name)
  <2>2. Labels' = Labels \cup {key} /\ DOMAIN table' = DOMAIN table \cup {key}
    BY <2>1, LabelIsSet DEF Define
  <2>3. \/ key \in Labels /\ (at \in DefinedSoFar \/ Captured(at))
        \/ /\ pass = 0 /\ ~Captured(at) /\ key = SymbolOf(at) /\ SymbolOf(at) \notin DOMAIN table
    BY <1>6, <2>1, DefinitionSets
  <2> HIDE DEF key
  <2>4. CASE key \in Labels /\ (at \in DefinedSoFar \/ Captured(at))
    <3>1. Labels' = Labels /\ DOMAIN table' = DOMAIN table
      BY <2>2, <2>4 DEF Labels
    <3>2. \A k \in DOMAIN table' \ Labels' :
            /\ pass' = 1
            /\ \A n \in 1 .. Len(k[1]) : <<SubSeq(k[1], 1, n), k[2]>> \notin Labels'
      BY <1>2, <1>4, <3>1
    <3>3. QED
      BY <1>5, <2>4, <3>1, <3>2 DEF TableHasDefinitions
  <2>5. CASE pass = 0 /\ ~Captured(at) /\ key = SymbolOf(at) /\ SymbolOf(at) \notin DOMAIN table
    <3>1. DefinedSoFar' = DefinedSoFar \cup {at} /\ \A d \in {at} : SymbolOf(d)' = SymbolOf(d)
      BY <1>2, <1>6, <2>1, DefinitionsGrow
    <3>2. \A d : d \in DefinedSoFar' /\ ~Captured(d) <=> (d \in DefinedSoFar /\ ~Captured(d)) \/ d = at
      BY <2>5, <3>1
    <3>3. \A d \in DefinedSoFar' : SymbolOf(d)' = SymbolOf(d)
      BY <1>2, <3>1
    <3>4. Labels' = {SymbolOf(d)' : d \in {e \in DefinedSoFar' : ~Captured(e)'}}
      <4>1. {e \in DefinedSoFar' : ~Captured(e)'} = {e \in DefinedSoFar : ~Captured(e)} \cup {at}
        BY <1>3, <3>2
      <4>2. {SymbolOf(d)' : d \in {e \in DefinedSoFar : ~Captured(e)} \cup {at}}
                = {SymbolOf(d) : d \in {e \in DefinedSoFar : ~Captured(e)}} \cup {SymbolOf(at)}
        BY <3>1, <3>3
      <4>3. QED
        BY <1>4, <2>2, <2>5, <4>1, <4>2
    <3>5. \A k \in DOMAIN table' : k \in Labels'
      <4>1. \A k \in DOMAIN table : k \in Labels
        BY <1>4, <2>5
      <4>2. QED
        BY <2>2, <4>1
    <3>6. ASSUME NEW d \in DefinedSoFar, ~Captured(d), SymbolOf(d) = SymbolOf(at)
          PROVE  FALSE
      BY <1>4, <2>5, <3>6 DEF Labels
    <3>7. DefinitionsAreUnique'
      BY <1>3, <3>2, <3>3, <3>6 DEF DefinitionsAreUnique
    <3>8. QED
      BY <3>4, <3>5, <3>7 DEF TableHasDefinitions
  <2>6. QED
    BY <2>3, <2>4, <2>5
<1>7. ASSUME UNCHANGED table, ~(Passed /\ LineIsDefinition)
      PROVE  TableHasDefinitions' /\ DefinitionsAreUnique'
  <2>1. Labels' = Labels
    BY <1>7 DEF Labels
  <2>2. \A k \in DOMAIN table' \ Labels' :
            /\ pass' = 1
            /\ \A n \in 1 .. Len(k[1]) : <<SubSeq(k[1], 1, n), k[2]>> \notin Labels'
    BY <1>2, <1>4, <1>7, <2>1
  <2>3. QED
    BY <1>5, <1>7, <2>1, <2>2 DEF TableHasDefinitions
<1>8. ASSUME at \in 1 .. Len(program), pass = 1, ~(Passed /\ LineIsDefinition),
             NEW names, InsertMissing(curr_scope_node, names)
      PROVE  TableHasDefinitions' /\ DefinitionsAreUnique'
  <2>1. curr_scope_node \in Node
    BY <1>8, CursorIs
  <2>2. Labels' = Labels
    BY <1>8, <2>1, NamesAreInserted
  <2>3. ASSUME NEW k \in DOMAIN table' \ Labels'
        PROVE  \A n \in 1 .. Len(k[1]) : <<SubSeq(k[1], 1, n), k[2]>> \notin Labels'
    <3>1. CASE k \in DOMAIN table
      BY <1>4, <2>2, <2>3, <3>1
    <3>2. CASE k \notin DOMAIN table
      <4>1. PICK name \in names : k = <<curr_scope_node, name>> /\ find(curr_scope_node, name) = NotFound
        BY <1>8, <2>1, <2>3, <3>2, NamesAreInserted
      <4>2. \A n \in 1 .. Len(curr_scope_node) :
               <<SubSeq(curr_scope_node, 1, n), name>> \notin DOMAIN table
        <5>1. \A n : <<SubSeq(curr_scope_node, 1, n), name>> # NotFound
          BY NoPairIsNotFound
        <5>2. QED
          BY <2>1, <4>1, <5>1, FindIs, Zenon
      <4>3. QED
        BY <2>2, <4>1, <4>2 DEF Labels
    <3>3. QED
      BY <3>1, <3>2
  <2>4. QED
    BY <1>2, <1>5, <1>8, <2>2, <2>3 DEF TableHasDefinitions
<1>9. CASE Passed /\ ~LineIsDefinition
  BY <1>7, <1>8, <1>9 DEF Passed, Noted
<1>10. CASE Stopped
  <2>1. ~(Passed /\ LineIsDefinition)
    BY <1>10, VisitsAre DEF Stopped, Passed, Noted, WalkInv
  <2>2. QED
    BY <1>7, <1>8, <1>10, <2>1 DEF Stopped
<1>11. CASE Finish \/ NextPass
  <2>1. ~(Passed /\ LineIsDefinition)
    <3>1. at > Len(program) /\ at \in 1 .. Len(program) + 1 /\ Len(program) \in Nat
      BY <1>11, VisitsAre DEF Finish, NextPass, WalkInv
    <3>2. at \notin 1 .. Len(program)
      BY <3>1
    <3>3. QED
      BY <3>2 DEF Passed, Noted
  <2>2. QED
    BY <1>7, <1>11, <2>1 DEF Finish, NextPass, scopeVars
<1>12. QED
  BY <1>1, <1>6, <1>9, <1>10, <1>11

-----------------------------------------------------------------------------
(* What symbols are worth *)

\* What a line that has gone by leaves in the history.
LEMMA TraceThen ==
    ASSUME VisitsAreTraced, at \in 1 .. Len(program), NEW values,
           trace' = [trace EXCEPT ![pass] = Append(trace[pass], Met(values))]
    PROVE  /\ \A p \in 0 .. 1 : p # pass => trace'[p] = trace[p]
           /\ Len(trace'[pass]) = at
           /\ DOMAIN trace'[pass] = 1 .. at /\ DOMAIN trace[pass] = 1 .. at - 1
           /\ trace'[pass][at] = Met(values)
           /\ \A i \in 1 .. at - 1 : trace'[pass][i] = trace[pass][i]
           /\ at \in Nat \ {0} /\ pass \in 0 .. 1
<1>1. /\ pass \in 0 .. 1 /\ at \in Nat \ {0} /\ Len(trace[pass]) \in Nat /\ at = Len(trace[pass]) + 1
      /\ trace[pass] = [i \in 1 .. Len(trace[pass]) |-> trace[pass][i]]
      /\ DOMAIN trace = 0 .. 1
  <2>1. /\ pass \in 0 .. 1 /\ Len(program) \in Nat /\ Len(trace[0]) \in Nat /\ Len(trace[1]) \in Nat
        /\ DOMAIN trace = 0 .. 1
    BY VisitsAre
  <2>2. at \in Nat \ {0}
    BY <2>1
  <2>3. /\ at = Len(trace[pass]) + 1
        /\ trace[pass] = [i \in 1 .. Len(trace[pass]) |-> trace[pass][i]]
    BY <2>1 DEF VisitsAreTraced
  <2>4. Len(trace[pass]) \in Nat
    BY <2>1
  <2>5. QED
    BY <2>1, <2>2, <2>3, <2>4
<1>2. trace'[pass] = Append(trace[pass], Met(values)) /\ \A p \in 0 .. 1 : p # pass => trace'[p] = trace[p]
  BY <1>1
<1>3. /\ Len(trace'[pass]) = Len(trace[pass]) + 1
      /\ trace'[pass] = [i \in 1 .. Len(trace[pass]) + 1 |-> trace'[pass][i]]
      /\ \A i \in 1 .. Len(trace[pass]) : trace'[pass][i] = trace[pass][i]
      /\ trace'[pass][Len(trace[pass]) + 1] = Met(values)
  BY <1>1, <1>2, TraceGrows
<1>4. Len(trace[pass]) = at - 1 /\ Len(trace[pass]) + 1 = at
  BY <1>1
<1>5. DOMAIN trace'[pass] = 1 .. at /\ DOMAIN trace[pass] = 1 .. at - 1
  BY <1>1, <1>3, <1>4
<1>6. QED
  BY <1>1, <1>2, <1>3, <1>4, <1>5

\* Nothing else is noted.
LEMMA TraceStep ==
    ASSUME WalkInv, Next
    PROVE  /\ \A p \in 0 .. 1 : \A i \in DOMAIN trace[p] :
                  i \in DOMAIN trace'[p] /\ trace'[p][i] = trace[p][i]
           /\ \A p \in 0 .. 1 : \A i \in DOMAIN trace'[p] :
                  i \in DOMAIN trace[p] \/ (Passed /\ p = pass /\ i = at)
<1>1. Passed \/ Stopped \/ Finish \/ NextPass
  BY LineStepIs DEF WalkInv
<1>2. CASE Passed
  <2>1. PICK values : trace' = [trace EXCEPT ![pass] = Append(trace[pass], Met(values))]
    BY <1>2 DEF Passed
  <2>2. VisitsAreTraced /\ at \in 1 .. Len(program)
    BY <1>2 DEF Passed, Noted, WalkInv
  <2>3. /\ \A p \in 0 .. 1 : p # pass => trace'[p] = trace[p]
        /\ DOMAIN trace'[pass] = 1 .. at /\ DOMAIN trace[pass] = 1 .. at - 1
        /\ \A i \in 1 .. at - 1 : trace'[pass][i] = trace[pass][i]
        /\ at \in Nat \ {0}
    BY <2>1, <2>2, TraceThen
  <2>4. \A i : i \in 1 .. at <=> i \in 1 .. at - 1 \/ i = at
    BY <2>3
  <2>5. QED
    BY <1>2, <2>3, <2>4
<1>3. CASE Stopped \/ Finish \/ NextPass
  BY <1>3 DEF Stopped, Finish, NextPass
<1>4. QED
  BY <1>1, <1>2, <1>3

\* How far the history reaches.
LEMMA TracedIs ==
    ASSUME WalkInv
    PROVE  /\ at \in Nat \ {0} /\ Len(program) \in Nat /\ DOMAIN program = 1 .. Len(program)
           /\ Len(trace[0]) \in Nat
           /\ DOMAIN trace[0] = 1 .. Len(trace[0]) /\ Len(trace[0]) <= Len(program)
           /\ at <= Len(trace[0]) + 1 /\ pass \in 0 .. 1
           /\ pass = 0 => Len(trace[0]) = at - 1
           /\ pass = 1 => Len(trace[0]) = Len(program)
           /\ DOMAIN trace[pass] = 1 .. at - 1
           /\ \A p \in 0 .. 1 : \A i \in DOMAIN trace[p] :
                  i \in DOMAIN trace[0] /\ i \in DOMAIN program /\ i \in Nat \ {0}
<1>1. /\ Len(program) \in Nat /\ DOMAIN program = 1 .. Len(program)
      /\ at \in 1 .. Len(program) + 1 /\ pass \in 0 .. 1
      /\ Len(trace[0]) \in Nat /\ Len(trace[1]) \in Nat
      /\ DOMAIN trace[0] = 1 .. Len(trace[0]) /\ DOMAIN trace[1] = 1 .. Len(trace[1])
      /\ pass = 0 => Len(trace[0]) = at - 1 /\ Len(trace[1]) = 0
      /\ pass = 1 => Len(trace[0]) = Len(program) /\ Len(trace[1]) = at - 1
  BY VisitsAre DEF WalkInv
<1>2. at \in Nat \ {0}
  BY <1>1
<1>3. CASE pass = 0
  <2>1. Len(trace[0]) <= Len(program) /\ at <= Len(trace[0]) + 1
    BY <1>1, <1>3
  <2>2. \A i : i \notin DOMAIN trace[1]
    BY <1>1, <1>3
  <2>3. \A i \in 1 .. Len(trace[0]) : i \in 1 .. Len(program) /\ i \in Nat \ {0}
    BY <1>1, <2>1
  <2>4. \A p \in 0 .. 1 : p = 0 \/ p = 1
    OBVIOUS
  <2>5. \A p \in 0 .. 1 : \A i \in DOMAIN trace[p] :
            i \in DOMAIN trace[0] /\ i \in DOMAIN program /\ i \in Nat \ {0}
    BY <1>1, <2>2, <2>3, <2>4
  <2>6. QED
    BY <1>1, <1>2, <1>3, <2>1, <2>5
<1>4. CASE pass = 1
  <2>1. Len(trace[0]) <= Len(program) /\ at <= Len(trace[0]) + 1
    BY <1>1, <1>4
  <2>2. \A i \in 1 .. at - 1 : i \in 1 .. Len(program)
    BY <1>1
  <2>3. \A i \in 1 .. Len(program) : i \in Nat \ {0}
    BY <1>1
  <2>4. \A p \in 0 .. 1 : p = 0 \/ p = 1
    OBVIOUS
  <2>5. \A p \in 0 .. 1 : \A i \in DOMAIN trace[p] :
            i \in DOMAIN trace[0] /\ i \in DOMAIN program /\ i \in Nat \ {0}
    BY <1>1, <1>4, <2>2, <2>3, <2>4
  <2>6. QED
    BY <1>1, <1>2, <1>4, <2>1, <2>5
<1>5. QED
  BY <1>1, <1>3, <1>4

\* A line that has been met, with what it is in the program.
LEMMA BelowIsDefined ==
    ASSUME WalkInv, NEW i \in 1 .. Len(trace[0]) + 1, NEW d \in 1 .. i - 1, IsDefinition(d)
    PROVE  d \in DefinedSoFar /\ d \in Nat
<1>1. Len(trace[0]) \in Nat /\ DOMAIN trace[0] = 1 .. Len(trace[0])
  BY TracedIs
<1>2. d \in 1 .. Len(trace[0]) /\ d \in Nat
  BY <1>1
<1>3. QED
  BY <1>1, <1>2 DEF DefinedSoFar

\* Which definition sets a symbol last, among those met, does not change.
LEMMA SetLastStays ==
    ASSUME WalkInv, TableHasDefinitions, Next, NEW i \in 1 .. Len(trace[0]) + 1, NEW d
    PROVE  SetLast(d, i)' <=> SetLast(d, i)
<1>1. \A e : IsDefinition(e)' <=> IsDefinition(e)
  BY DefinitionsStay, TextStays
<1>2. \A e \in 1 .. i - 1 : IsDefinition(e) => Target(e)' = Target(e)
  BY BelowIsDefined, TargetsStay
<1>3. ASSUME d \in 1 .. i - 1
      PROVE  \A e \in d + 1 .. i - 1 : e \in 1 .. i - 1
  <2>1. Len(trace[0]) \in Nat
    BY TracedIs
  <2>2. i \in Nat
    BY <2>1
  <2>3. QED
    BY <1>3, <2>2
<1>4. SetLast(d, i)' <=> /\ d \in 1 .. i - 1 /\ IsDefinition(d)'
                         /\ \A e \in d + 1 .. i - 1 : IsDefinition(e)' => Target(e)' # Target(d)'
  BY DEF SetLast
<1>5. QED
  BY <1>1, <1>2, <1>3, <1>4 DEF SetLast

LEMMA SetsFromBelowStays ==
    ASSUME WalkInv, TableHasDefinitions, Next, pass = 1, NEW i \in 1 .. Len(program) + 1, NEW d
    PROVE  SetsFromBelow(d, i)' <=> SetsFromBelow(d, i)
<1>1. \A e : IsDefinition(e)' <=> IsDefinition(e)
  BY DefinitionsStay, TextStays
<1>2. Len(trace[0]) = Len(program) /\ Len(program) \in Nat /\ program' = program
  BY TracedIs, DefinitionsStay
<1>3. Len(program) + 1 \in 1 .. Len(trace[0]) + 1
  BY <1>2
<1>4. \A e \in 1 .. i - 1 : IsDefinition(e) => Target(e)' = Target(e)
  BY <1>2, BelowIsDefined, TargetsStay
<1>5. PICK n : n = Len(program) + 1
  OBVIOUS
<1>6. SetLast(d, n)' <=> SetLast(d, n)
  BY <1>3, <1>5, SetLastStays
<1>7. SetsFromBelow(d, i)' <=> /\ SetLast(d, n)'
                               /\ \A e \in 1 .. i - 1 : IsDefinition(e)' => Target(e)' # Target(d)'
  BY <1>2, <1>5 DEF SetsFromBelow, SetLast
<1>8. ASSUME SetLast(d, n)
      PROVE  Target(d)' = Target(d)
  <2>1. d \in 1 .. n - 1 /\ IsDefinition(d)
    BY <1>8 DEF SetLast
  <2>2. d \in DefinedSoFar
    BY <1>3, <1>5, <2>1, BelowIsDefined
  <2>3. QED
    BY <2>2, TargetsStay
<1>9. SetsFromBelow(d, i) <=> /\ SetLast(d, n)
                              /\ \A e \in 1 .. i - 1 : IsDefinition(e) => Target(e) # Target(d)
  BY <1>5 DEF SetsFromBelow
<1>10. QED
  BY <1>1, <1>4, <1>6, <1>7, <1>8, <1>9

\* A definition that goes by gives its value to its symbol, and no other is touched.
LEMMA DefinitionGives ==
    ASSUME WalkInv, TableHasDefinitions, Next, Passed, LineIsDefinition, NEW values,
           Define(program[at].name, values[1])
    PROVE  \E key :
              /\ \A d \in {at} : Target(d)' = key
              /\ pass = 1 => Target(at) = key
              /\ table'[key].addr = values[1]
              /\ \A k \in DOMAIN table \ {key} : table'[k] = table[k]
<1> DEFINE name == program[at].name
           key == FoundOrInserted(curr_scope_node, name)
<1>1. /\ table'[key].addr = values[1]
      /\ \A k \in DOMAIN table \ {key} : table'[k] = table[k]
      /\ DOMAIN table' = DOMAIN table \cup {key}
  BY LabelIsSet DEF Define
<1>2. Noted /\ ~Duplicate(name) /\ program' = program /\ TableGrows
  BY StepGrows DEF Passed, Noted
<1>3. /\ at \in 1 .. Len(program) /\ curr_scope_node = Scope(at) /\ curr_scope_node # tree
      /\ curr_scope_node \in Node
  <2>1. at \in 1 .. Len(program)
    BY <1>2 DEF Noted
  <2>2. QED
    BY <2>1, CursorIs, LineIsInScope
<1>4. \A d \in {at} : Scope(d)' = curr_scope_node
  <2>1. \A d \in {at} : SymbolOf(d)' = SymbolOf(d)
    BY <1>2, DefinitionsGrow
  <2>2. \A d : SymbolOf(d)' = <<Scope(d)', program[d].name>>
    BY <1>2 DEF SymbolOf
  <2>3. SymbolOf(at) = <<curr_scope_node, program[at].name>>
    BY <1>2, DefinitionsGrow
  <2>4. QED
    BY <2>1, <2>2, <2>3
<1>5. PICK n \in Node : n = curr_scope_node
  BY <1>3
<1>6. PICK nm : nm = name
  OBVIOUS
<1>7. \A d \in {at} : Target(d)' = find(n, nm)'
  BY <1>2, <1>4, <1>5, <1>6, TargetThen
<1>8. \/ key = find(n, nm) /\ key \in Labels
      \/ key = <<n, nm>> /\ pass = 0
  <2>1. \/ key = find(curr_scope_node, name) /\ key \in Labels
        \/ key = SymbolOf(at) /\ pass = 0
    BY <1>2, DefinitionSets
  <2>2. SymbolOf(at) = <<n, nm>>
    BY <1>3, <1>5, <1>6 DEF SymbolOf
  <2>3. QED
    BY <1>5, <1>6, <2>1, <2>2
<1> HIDE DEF key
<1>9. CASE key = find(n, nm) /\ key \in Labels
  <2>1. key # NotFound
    <3>1. PICK c \in DefinedSoFar : SymbolOf(c) = key
      BY <1>9, LabelIsOf
    <3>2. QED
      BY <3>1, NoPairIsNotFound DEF SymbolOf
  <2>2. find(n, nm)' = key
    BY <1>2, <1>9, <2>1, FindStays
  <2>3. Target(at) = key
    BY <1>3, <1>5, <1>6, <1>9 DEF Target
  <2>4. QED
    BY <1>1, <1>7, <2>2, <2>3
<1>10. CASE key = <<n, nm>> /\ pass = 0
  <2>1. find(n, nm)' = key
    BY <1>1, <1>3, <1>5, <1>10, OwnIsFoundThen
  <2>2. QED
    BY <1>1, <1>7, <1>10, <2>1
<1>11. QED
  BY <1>8, <1>9, <1>10

LEMMA ValuesStay ==
    ASSUME WalkInv, Next, ~(Passed /\ LineIsDefinition)
    PROVE  \A k \in DOMAIN table : table'[k] = table[k]
<1>1. Passed \/ Stopped \/ Finish \/ NextPass
  BY LineStepIs DEF WalkInv
<1>2. UNCHANGED table \/ \E names : InsertMissing(curr_scope_node, names)
  BY <1>1 DEF Passed, Stopped, Finish, NextPass, scopeVars
<1>3. QED
  BY <1>2 DEF InsertMissing

\* The pass and the line after a step.
LEMMA NextLineIs ==
    ASSUME WalkInv, Next
    PROVE  \/ Passed /\ pass' = pass /\ at' = at + 1 /\ at \in 1 .. Len(program)
           \/ ~Passed /\ NextPass /\ pass = 0 /\ pass' = 1 /\ at' = 1 /\ at = Len(program) + 1
           \/ ~Passed /\ pass' = pass /\ at' = at
<1>1. Passed \/ Stopped \/ Finish \/ NextPass
  BY LineStepIs DEF WalkInv
<1>2. /\ at \in 1 .. Len(program) + 1 /\ Len(program) \in Nat
  BY VisitsAre DEF WalkInv
<1>3. Passed => pass' = pass /\ at' = at + 1 /\ at \in 1 .. Len(program)
  BY DEF Passed, Noted
<1>4. NextPass => pass = 0 /\ pass' = 1 /\ at' = 1 /\ at = Len(program) + 1
  BY <1>2 DEF NextPass
<1>5. Stopped \/ Finish => pass' = pass /\ at' = at
  BY DEF Stopped, Finish
<1>6. Passed => ~Stopped /\ ~Finish /\ ~NextPass
  BY <1>2, <1>3, <1>4, <1>5
<1>7. QED
  BY <1>1, <1>3, <1>4, <1>5, <1>6

\* The next line, when it is a given one.
LEMMA AtTheNextLine ==
    ASSUME NEW i, at' = i, NEW d
    PROVE  /\ SetLast(d, at)' <=> SetLast(d, i)'
           /\ SetsFromBelow(d, at)' <=> SetsFromBelow(d, i)'
<1>1. SetLast(d, at)' <=> SetLast(d, i)'
  BY DEF SetLast
<1>2. SetsFromBelow(d, at)' <=> SetsFromBelow(d, i)'
  BY DEF SetsFromBelow
<1>3. QED
  BY <1>1, <1>2

LEMMA SymbolsKeepLastValues ==
    ASSUME WalkInv, TableHasDefinitions, SymbolsHaveLastValues, Next
    PROVE  SymbolsHaveLastValues'
<1>1. /\ at \in Nat \ {0} /\ Len(program) \in Nat /\ DOMAIN program = 1 .. Len(program)
      /\ at <= Len(trace[0]) + 1 /\ pass \in 0 .. 1 /\ Len(trace[0]) \in Nat
      /\ pass = 1 => Len(trace[0]) = Len(program)
      /\ pass = 0 => Len(trace[0]) = at - 1
      /\ DOMAIN trace[pass] = 1 .. at - 1
      /\ DOMAIN trace[0] = 1 .. Len(trace[0])
  BY TracedIs
<1>2. program' = program
  BY DefinitionsStay
<1>3. at \in 1 .. Len(trace[0]) + 1
  BY <1>1
<1>0. PICK i \in Nat \ {0} : i = at
  BY <1>1
<1>4. \A d \in DefinedSoFar : Target(d)' = Target(d) /\ Target(d) \in DOMAIN table
  BY TargetsStay
<1>5. /\ \A d \in 1 .. at - 1 : SetLast(d, at) => table[Target(d)].addr = trace[pass][d].values[1]
      /\ pass = 1 =>
            \A d \in DOMAIN program :
                SetsFromBelow(d, at) => table[Target(d)].addr = trace[0][d].values[1]
  BY DEF SymbolsHaveLastValues
<1>6. \A p \in 0 .. 1 : \A k \in DOMAIN trace[p] : trace'[p][k] = trace[p][k]
  BY TraceStep
\* What has been set last above the next line, other than by this one, was so before.
<1>7. ASSUME Passed, at' = at + 1, pass' = pass, NEW d \in 1 .. at - 1, SetLast(d, i + 1)'
      PROVE  /\ SetLast(d, at) /\ d \in DefinedSoFar
             /\ LineIsDefinition => \A e \in {at} : Target(e)' # Target(d)
  <2>1. i \in Nat \ {0} /\ i = at
    BY <1>0
  <2>2. /\ IsDefinition(d)'
        /\ \A e \in d + 1 .. i : IsDefinition(e)' => Target(e)' # Target(d)'
    <3>1. \A e \in d + 1 .. (i + 1) - 1 : IsDefinition(e)' => Target(e)' # Target(d)'
      BY <1>7 DEF SetLast
    <3>2. (i + 1) - 1 = i
      BY <2>1
    <3>3. IsDefinition(d)'
      BY <1>7 DEF SetLast
    <3>4. QED
      BY <3>1, <3>2, <3>3
  <2>3. SetLast(d, i)'
    <3>1. \A e \in d + 1 .. i - 1 : e \in d + 1 .. i
      BY <1>7, <2>1
    <3>2. d \in 1 .. i - 1
      BY <1>7, <2>1
    <3>3. QED
      BY <2>2, <3>1, <3>2 DEF SetLast
  <2>4. SetLast(d, i)
    BY <1>3, <2>1, <2>3, SetLastStays
  <2>5. d \in DefinedSoFar
    BY <1>3, <1>7, <2>1, <2>4, BelowIsDefined DEF SetLast
  <2>6. ASSUME LineIsDefinition, NEW e \in {at}
        PROVE  Target(e)' # Target(d)
    <3>1. e = i /\ e \in d + 1 .. i
      BY <1>7, <2>1
    <3>2. IsDefinition(e)'
      <4>1. IsDefinition(e)
        BY <2>6 DEF LineIsDefinition
      <4>2. QED
        BY <1>2, <4>1, TextStays
    <3>3. QED
      BY <1>4, <2>2, <2>5, <3>1, <3>2
  <2>7. QED
    BY <2>1, <2>4, <2>5, <2>6
<1>8. ASSUME Passed, at' = at + 1, pass' = pass, pass = 1, at \in 1 .. Len(program),
             NEW d \in DOMAIN program, SetsFromBelow(d, i + 1)'
      PROVE  /\ SetsFromBelow(d, at) /\ d \in DefinedSoFar
             /\ LineIsDefinition => Target(at) # Target(d)
  <2>1. i \in Nat \ {0} /\ i = at
    BY <1>0
  <2>2. SetsFromBelow(d, i + 1)
    <3>1. i + 1 \in 1 .. Len(program) + 1
      BY <1>1, <1>8, <2>1
    <3>2. QED
      BY <1>8, <3>1, SetsFromBelowStays
  <2>3. /\ SetLast(d, Len(program) + 1)
        /\ \A e \in 1 .. i : IsDefinition(e) => Target(e) # Target(d)
    <3>1. (i + 1) - 1 = i
      BY <2>1
    <3>2. QED
      BY <2>2, <3>1 DEF SetsFromBelow
  <2>4. SetsFromBelow(d, i)
    <3>1. \A e \in 1 .. i - 1 : e \in 1 .. i
      BY <2>1
    <3>2. QED
      BY <2>3, <3>1 DEF SetsFromBelow
  <2>5. d \in DefinedSoFar
    BY <1>1, <1>8, <2>3 DEF SetLast, DefinedSoFar
  <2>6. LineIsDefinition => Target(at) # Target(d)
    <3>1. i \in 1 .. i
      BY <2>1
    <3>2. QED
      BY <2>1, <2>3, <3>1 DEF LineIsDefinition
  <2>7. QED
    BY <2>1, <2>4, <2>5, <2>6
<1>9. CASE Passed /\ pass' = pass /\ at' = at + 1 /\ at \in 1 .. Len(program)
  <2>1. PICK values :
           /\ trace' = [trace EXCEPT ![pass] = Append(trace[pass], Met(values))]
           /\ LineIsDefinition => Define(program[at].name, values[1])
    BY <1>9 DEF Passed
  <2>2. /\ trace'[pass][at] = Met(values)
        /\ pass = 1 => trace'[0] = trace[0]
    <3>1. /\ trace'[pass][at] = Met(values)
          /\ \A p \in 0 .. 1 : p # pass => trace'[p] = trace[p]
      BY <1>9, <2>1, TraceThen DEF WalkInv
    <3>2. QED
      BY <3>1
  <2>3. Met(values).values = values
    BY DEF Met
  <2>4. CASE LineIsDefinition
    <3>1. PICK key :
             /\ \A d \in {at} : Target(d)' = key
             /\ pass = 1 => Target(at) = key
             /\ table'[key].addr = values[1]
             /\ \A k \in DOMAIN table \ {key} : table'[k] = table[k]
      BY <1>9, <2>1, <2>4, DefinitionGives
    <3>2. ASSUME NEW d \in 1 .. at, SetLast(d, i + 1)'
          PROVE  table'[Target(d)'].addr = trace'[pass][d].values[1]
      <4>1. CASE d = at
        BY <2>2, <2>3, <3>1, <4>1
      <4>2. CASE d # at
        <5>1. d \in 1 .. at - 1
          BY <1>1, <4>2
        <5>2. /\ SetLast(d, at) /\ d \in DefinedSoFar
              /\ \A e \in {at} : Target(e)' # Target(d)
          BY <1>7, <1>9, <2>4, <3>2, <5>1
        <5>3. table[Target(d)].addr = trace[pass][d].values[1] /\ trace'[pass][d] = trace[pass][d]
          BY <1>1, <1>5, <1>6, <5>1, <5>2
        <5>4. Target(d) \in DOMAIN table \ {key} /\ Target(d)' = Target(d)
          BY <1>4, <3>1, <5>2
        <5>5. QED
          BY <3>1, <5>3, <5>4
      <4>3. QED
        BY <4>1, <4>2
    <3>3. ASSUME pass = 1, NEW d \in DOMAIN program, SetsFromBelow(d, i + 1)'
          PROVE  table'[Target(d)'].addr = trace'[0][d].values[1]
      <4>1. SetsFromBelow(d, at) /\ d \in DefinedSoFar /\ Target(at) # Target(d)
        BY <1>8, <1>9, <2>4, <3>3
      <4>2. table[Target(d)].addr = trace[0][d].values[1]
        BY <1>5, <3>3, <4>1
      <4>3. Target(d) \in DOMAIN table \ {key} /\ Target(d)' = Target(d)
        BY <1>4, <3>1, <3>3, <4>1
      <4>4. QED
        BY <2>2, <3>1, <3>3, <4>2, <4>3
    <3>4. at' - 1 = at /\ at' = i + 1
      BY <1>0, <1>1, <1>9
    <3>5. \A d : /\ SetLast(d, at)' <=> SetLast(d, i + 1)'
                 /\ SetsFromBelow(d, at)' <=> SetsFromBelow(d, i + 1)'
      BY <3>4, AtTheNextLine
    <3>6. QED
      BY <1>2, <1>9, <3>2, <3>3, <3>4, <3>5 DEF SymbolsHaveLastValues
  <2>5. CASE ~LineIsDefinition
    <3>1. \A k \in DOMAIN table : table'[k] = table[k]
      BY <2>5, ValuesStay
    <3>2. ASSUME NEW d \in 1 .. at, SetLast(d, i + 1)'
          PROVE  table'[Target(d)'].addr = trace'[pass][d].values[1]
      <4>1. d # at
        <5>1. PICK e : e = d
          OBVIOUS
        <5>2. IsDefinition(e)'
          BY <3>2, <5>1 DEF SetLast
        <5>3. IsDefinition(e)
          BY <1>2, <5>2, TextStays
        <5>4. QED
          BY <2>5, <5>1, <5>3 DEF LineIsDefinition
      <4>2. d \in 1 .. at - 1
        BY <1>1, <4>1
      <4>3. SetLast(d, at) /\ d \in DefinedSoFar
        BY <1>7, <1>9, <3>2, <4>2
      <4>4. table[Target(d)].addr = trace[pass][d].values[1] /\ trace'[pass][d] = trace[pass][d]
        BY <1>1, <1>5, <1>6, <4>2, <4>3
      <4>5. QED
        BY <1>4, <3>1, <4>3, <4>4
    <3>3. ASSUME pass = 1, NEW d \in DOMAIN program, SetsFromBelow(d, i + 1)'
          PROVE  table'[Target(d)'].addr = trace'[0][d].values[1]
      <4>1. SetsFromBelow(d, at) /\ d \in DefinedSoFar
        BY <1>8, <1>9, <3>3
      <4>2. table[Target(d)].addr = trace[0][d].values[1]
        BY <1>5, <3>3, <4>1
      <4>3. QED
        BY <1>4, <2>2, <3>1, <3>3, <4>1, <4>2
    <3>4. at' - 1 = at /\ at' = i + 1
      BY <1>0, <1>1, <1>9
    <3>5. \A d : /\ SetLast(d, at)' <=> SetLast(d, i + 1)'
                 /\ SetsFromBelow(d, at)' <=> SetsFromBelow(d, i + 1)'
      BY <3>4, AtTheNextLine
    <3>6. QED
      BY <1>2, <1>9, <3>2, <3>3, <3>4, <3>5 DEF SymbolsHaveLastValues
  <2>6. QED
    BY <2>4, <2>5
<1>10. CASE ~Passed /\ NextPass /\ pass = 0 /\ pass' = 1 /\ at' = 1 /\ at = Len(program) + 1
  <2>1. table' = table /\ trace' = trace
    BY <1>10 DEF NextPass, scopeVars
  <2>2. ASSUME NEW d \in DOMAIN program, SetsFromBelow(d, 1)'
        PROVE  table'[Target(d)'].addr = trace'[0][d].values[1]
    <3>1. PICK n : n = Len(program) + 1
      OBVIOUS
    <3>2. SetLast(d, n)'
      <4>1. SetLast(d, Len(program) + 1)'
        BY <2>2 DEF SetsFromBelow
      <4>2. QED
        BY <1>2, <3>1, <4>1 DEF SetLast
    <3>3. SetLast(d, n) /\ n = at
      BY <1>3, <1>10, <3>1, <3>2, SetLastStays
    <3>4. d \in 1 .. at - 1 /\ IsDefinition(d) /\ SetLast(d, at)
      BY <3>3 DEF SetLast
    <3>5. d \in DefinedSoFar
      BY <1>3, <3>4, BelowIsDefined
    <3>6. table[Target(d)].addr = trace[0][d].values[1]
      BY <1>5, <1>10, <3>4
    <3>7. QED
      BY <1>4, <2>1, <3>5, <3>6
  <2>3. \A d : d \notin 1 .. at' - 1
    BY <1>10
  <2>4. \A d : SetsFromBelow(d, at)' <=> SetsFromBelow(d, 1)'
    BY <1>10, AtTheNextLine
  <2>5. QED
    BY <1>2, <1>10, <2>2, <2>3, <2>4 DEF SymbolsHaveLastValues
<1>11. CASE ~Passed /\ pass' = pass /\ at' = at
  <2>1. \A k \in DOMAIN table : table'[k] = table[k]
    BY <1>11, ValuesStay
  <2>2. ASSUME NEW d \in 1 .. at - 1, SetLast(d, i)'
        PROVE  table'[Target(d)'].addr = trace'[pass][d].values[1]
    <3>3. SetLast(d, at)
      BY <1>0, <1>3, <2>2, SetLastStays
    <3>4. d \in DefinedSoFar
      BY <1>3, <3>3, BelowIsDefined DEF SetLast
    <3>5. QED
      BY <1>1, <1>4, <1>5, <1>6, <2>1, <2>2, <3>3, <3>4, SMTT(60)
  <2>3. ASSUME pass = 1, NEW d \in DOMAIN program, SetsFromBelow(d, i)'
        PROVE  table'[Target(d)'].addr = trace'[0][d].values[1]
    <3>3. SetsFromBelow(d, at)
      BY <1>0, <1>1, <1>3, <2>3, SetsFromBelowStays
    <3>4. d \in DefinedSoFar
      BY <1>1, <2>3, <3>3 DEF SetsFromBelow, SetLast, DefinedSoFar
    <3>5. trace'[0] = trace[0]
      BY <2>3, DefinitionsStay
    <3>6. QED
      BY <1>4, <1>5, <2>1, <2>3, <3>3, <3>4, <3>5
  <2>4. \A d : /\ SetLast(d, at)' <=> SetLast(d, i)'
               /\ SetsFromBelow(d, at)' <=> SetsFromBelow(d, i)'
    BY <1>0, <1>11, AtTheNextLine
  <2>5. QED
    BY <1>2, <1>11, <2>2, <2>3, <2>4 DEF SymbolsHaveLastValues
<1>12. QED
  BY <1>9, <1>10, <1>11, NextLineIs

\* A line that has been met, or the one that is just passed, stays in its scope.
LEMMA ScopeThen ==
    ASSUME WalkInv, Next, NEW i, i \in DOMAIN trace[0] \/ (i = at /\ Passed)
    PROVE  Scope(i)' = Scope(i) /\ Scope(i) \in Node
<1>1. CASE i \in DOMAIN trace[0]
  <2>1. i \in 1 .. Seen
    <3>1. i \in 1 .. Len(trace[0]) /\ Len(trace[0]) <= Seen
      <4>1. /\ DOMAIN trace[0] = 1 .. Len(trace[0]) /\ Len(trace[0]) \in Nat
            /\ at \in 1 .. Len(program) + 1 /\ Len(program) \in Nat /\ pass \in 0 .. 1
            /\ pass = 0 => Len(trace[0]) = at - 1 /\ Seen = at
            /\ pass = 1 => Len(trace[0]) = Len(program) /\ Seen = Len(program)
        BY VisitsAre DEF WalkInv
      <4>2. CASE pass = 0
        BY <1>1, <4>1, <4>2
      <4>3. CASE pass = 1
        BY <1>1, <4>1, <4>3
      <4>4. QED
        BY <4>1, <4>2, <4>3
    <3>2. Seen \in Nat
      BY VisitsAre DEF WalkInv
    <3>3. Len(trace[0]) \in Nat
      BY TracedIs
    <3>4. QED
      BY <3>1, <3>2, <3>3
  <2>2. QED
    BY <1>1, <2>1, DefinitionsStay, LineIsInScope
<1>2. CASE i = at /\ Passed
  <2>1. /\ Noted /\ at \in 1 .. Len(program)
    BY <1>2 DEF Passed, Noted
  <2>2. curr_scope_node = Scope(at) /\ curr_scope_node \in Node
    BY <2>1, CursorIs
  <2>3. \A e \in {at} : SymbolOf(e)' = SymbolOf(e)
    BY <2>1, DefinitionsGrow
  <2>4. \A e : SymbolOf(e)' = <<Scope(e)', program[e].name>> /\ SymbolOf(e) = <<Scope(e), program[e].name>>
    BY DefinitionsStay DEF SymbolOf
  <2>5. QED
    BY <1>2, <2>2, <2>3, <2>4
<1>3. QED
  BY <1>1, <1>2

\* What a name leads to at a line that has been met, or at the next one.
LEMMA LeadsToSet ==
    ASSUME WalkInv, TableHasDefinitions, Next, NEW i \in 1 .. Len(trace[0]) + 1,
           i \in DOMAIN trace[0] \/ (i = at /\ Passed), NEW d \in DefinedSoFar, NEW name
    PROVE  (Target(d) = find(Scope(i), name))' => Target(d) = find(Scope(i), name)
<1>1. Scope(i)' = Scope(i) /\ Scope(i) \in Node
  BY ScopeThen
<1>2. PICK n \in Node : n = Scope(i)
  BY <1>1
<1>3. (Target(d) = find(Scope(i), name))' => Target(d)' = find(n, name)'
  <2>1. find(Scope(i), name)' = find(n, name)'
    <3>1. Scope(i)' = n
      BY <1>1, <1>2
    <3>2. QED
      BY <3>1 DEF find
  <2>2. QED
    BY <2>1
<1>4. Target(d)' = Target(d) /\ Target(d) \in DOMAIN table
  BY TargetsStay
<1>5. find(n, name)' \in DOMAIN table => find(n, name)' = find(n, name)
  BY StepGrows, FindStays
<1>6. QED
  BY <1>2, <1>3, <1>4, <1>5

LEMMA LinesStillRead ==
    ASSUME WalkInv, TableHasDefinitions, SymbolsHaveLastValues, LinesReadLastValues, Next
    PROVE  LinesReadLastValues'
<1>1. /\ at \in Nat \ {0} /\ Len(program) \in Nat /\ DOMAIN program = 1 .. Len(program)
      /\ Len(trace[0]) \in Nat /\ pass \in 0 .. 1
      /\ DOMAIN trace[0] = 1 .. Len(trace[0])
      /\ at <= Len(trace[0]) + 1
      /\ pass = 1 => Len(trace[0]) = Len(program)
      /\ DOMAIN trace[pass] = 1 .. at - 1
      /\ \A p \in 0 .. 1 : \A i \in DOMAIN trace[p] : i \in DOMAIN trace[0] /\ i \in Nat
  BY TracedIs
<1>2. program' = program
  BY DefinitionsStay
<1>3. /\ \A p \in 0 .. 1 : \A i \in DOMAIN trace[p] :
             i \in DOMAIN trace'[p] /\ trace'[p][i] = trace[p][i]
      /\ \A p \in 0 .. 1 : \A i \in DOMAIN trace'[p] :
             i \in DOMAIN trace[p] \/ (Passed /\ p = pass /\ i = at)
  BY TraceStep
<1>4. /\ \A d \in 1 .. at - 1 : SetLast(d, at) => table[Target(d)].addr = trace[pass][d].values[1]
      /\ pass = 1 =>
            \A d \in DOMAIN program :
                SetsFromBelow(d, at) => table[Target(d)].addr = trace[0][d].values[1]
  BY DEF SymbolsHaveLastValues
<1>5. ASSUME Passed
      PROVE  /\ \A n \in Mentions(program[at]) : \A d \in DefinedSoFar :
                    Target(d) = find(Scope(at), n) =>
                        trace'[pass][at].syms[n] = table[Target(d)].addr
             /\ pass = 1 => trace'[0] = trace[0]
  <2>1. PICK values : trace' = [trace EXCEPT ![pass] = Append(trace[pass], Met(values))]
    BY <1>5 DEF Passed
  <2>2. at \in 1 .. Len(program)
    BY <1>5 DEF Passed, Noted
  <2>3. trace'[pass][at] = Met(values) /\ \A p \in 0 .. 1 : p # pass => trace'[p] = trace[p]
    BY <2>1, <2>2, TraceThen DEF WalkInv
  <2>4. Met(values).syms = Known
    BY DEF Met
  <2>5. curr_scope_node = Scope(at)
    BY <2>2, CursorIs
  <2>6. ASSUME NEW n \in Mentions(program[at]), NEW d \in DefinedSoFar, Target(d) = find(Scope(at), n)
        PROVE  Known[n] = table[Target(d)].addr
    <3>1. Known[n] = get_sym_address(n).val
      BY DEF Known
    <3>2. get_sym_address(n).val = SymbolIn(curr_scope_node, n).addr
      BY DEF get_sym_address
    <3>3. find(curr_scope_node, n) # NotFound
      <4>1. Target(d) \in Labels
        BY TargetIsOwn
      <4>2. PICK c \in DefinedSoFar : SymbolOf(c) = Target(d)
        BY <4>1, LabelIsOf
      <4>3. QED
        BY <2>5, <2>6, <4>2, NoPairIsNotFound DEF SymbolOf
    <3>4. SymbolIn(curr_scope_node, n) = table[Target(d)]
      BY <2>5, <2>6, <3>3 DEF SymbolIn
    <3>5. QED
      BY <3>1, <3>2, <3>4
  <2>7. pass = 1 => trace'[0] = trace[0]
    BY <2>3
  <2>8. QED
    BY <2>3, <2>4, <2>6, <2>7
<1>6. ASSUME NEW p \in 0 .. 1, NEW i \in DOMAIN trace'[p], NEW n \in Mentions(program[i]),
             NEW d \in 1 .. i - 1, SetLast(d, i)', (Target(d) = find(Scope(i), n))'
      PROVE  trace'[p][i].syms[n] = trace'[p][d].values[1]
  <2>1. /\ i \in DOMAIN trace[0] \/ (i = at /\ Passed)
        /\ i \in 1 .. Len(trace[0]) + 1
    <3>1. i \in DOMAIN trace[0] \/ (i = at /\ Passed)
      BY <1>1, <1>3
    <3>2. \A k \in 1 .. Len(trace[0]) : k \in 1 .. Len(trace[0]) + 1
      BY <1>1
    <3>3. at \in 1 .. Len(trace[0]) + 1
      BY <1>1
    <3>4. QED
      BY <1>1, <3>1, <3>2, <3>3
  <2>2. SetLast(d, i)
    BY <1>6, <2>1, SetLastStays
  <2>3. d \in DefinedSoFar
    BY <2>1, <2>2, BelowIsDefined DEF SetLast
  <2>4. Target(d) = find(Scope(i), n)
    BY <1>6, <2>1, <2>3, LeadsToSet
  <2>5. CASE i \in DOMAIN trace[p]
    <3>1. trace[p][i].syms[n] = trace[p][d].values[1]
      BY <2>2, <2>4, <2>5 DEF LinesReadLastValues
    <3>2. d \in DOMAIN trace[p]
      <4>1. DOMAIN trace[p] = 1 .. Len(trace[p]) /\ Len(trace[p]) \in Nat
        BY VisitsAre DEF WalkInv
      <4>2. QED
        BY <2>5, <4>1
    <3>3. QED
      BY <1>3, <2>5, <3>1, <3>2
  <2>6. CASE Passed /\ p = pass /\ i = at
    <3>1. trace'[pass][at].syms[n] = table[Target(d)].addr
      BY <1>5, <2>3, <2>4, <2>6
    <3>2. table[Target(d)].addr = trace[pass][d].values[1]
      BY <1>4, <2>2, <2>6
    <3>3. trace'[pass][d] = trace[pass][d]
      BY <1>1, <1>3, <2>6
    <3>4. QED
      BY <2>6, <3>1, <3>2, <3>3
  <2>7. QED
    BY <1>3, <2>5, <2>6
<1>7. ASSUME NEW i \in DOMAIN trace'[1], NEW n \in Mentions(program[i]),
             NEW d \in DOMAIN program, SetsFromBelow(d, i)', (Target(d) = find(Scope(i), n))'
      PROVE  trace'[1][i].syms[n] = trace'[0][d].values[1]
  <2>1. i \in DOMAIN trace[1] \/ (Passed /\ pass = 1 /\ i = at)
    BY <1>3
  <2>2. pass = 1 /\ i \in DOMAIN program /\ i \in Nat
    <3>1. CASE i \in DOMAIN trace[1]
      BY <3>1, VisitsAre, TracedIs DEF WalkInv
    <3>2. CASE Passed /\ pass = 1 /\ i = at
      BY <1>1, <3>2 DEF Passed, Noted
    <3>3. QED
      BY <2>1, <3>1, <3>2
  <2>3. trace'[0] = trace[0] /\ DOMAIN trace[0] = DOMAIN program
    BY <1>1, <2>2, DefinitionsStay
  <2>4. i \in 1 .. Len(trace[0]) + 1 /\ i \in DOMAIN trace[0] /\ i \in 1 .. Len(program) + 1
    BY <1>1, <2>2, <2>3
  <2>5. SetsFromBelow(d, i)
    BY <1>7, <2>2, <2>4, SetsFromBelowStays
  <2>6. d \in DefinedSoFar
    BY <2>3, <2>5 DEF SetsFromBelow, SetLast, DefinedSoFar
  <2>7. Target(d) = find(Scope(i), n)
    BY <1>7, <2>4, <2>6, LeadsToSet
  <2>8. CASE i \in DOMAIN trace[1]
    <3>1. trace[1][i].syms[n] = trace[0][d].values[1]
      BY <2>5, <2>7, <2>8 DEF LinesReadLastValues
    <3>2. QED
      BY <1>3, <2>3, <2>8, <3>1
  <2>9. CASE Passed /\ i = at
    <3>1. trace'[pass][at].syms[n] = table[Target(d)].addr
      BY <1>5, <2>6, <2>7, <2>9
    <3>2. table[Target(d)].addr = trace[0][d].values[1]
      BY <1>4, <2>2, <2>5, <2>9
    <3>3. QED
      BY <2>2, <2>3, <2>9, <3>1, <3>2
  <2>10. QED
    BY <2>1, <2>8, <2>9
<1>8. \A i : Mentions(program[i])' = Mentions(program[i])
  BY <1>2
<1>9. QED
  BY <1>2, <1>6, <1>7 DEF LinesReadLastValues

-----------------------------------------------------------------------------
(* What faults tell *)

\* What makes a line stop the program, or not.
NotKnown(n) == pass = 1 /\ ~SymbolIn(curr_scope_node, n).found_as_label
NumbersOf(k) == Stacks(program[at].exprs[k], Here(program[at], pc.curr, k), Known)
ZeroAt(op, k, t) ==
    /\ program[at].exprs[k][t][1] = "op" /\ program[at].exprs[k][t][2] = op
    /\ NumbersOf(k)[t - 1][Len(NumbersOf(k)[t - 1])] = 0

LEMMA ZeroIs ==
    ASSUME NEW op
    PROVE  DividesByZero(op, program[at], pc.curr, Known)
             <=> \E k \in DOMAIN program[at].exprs : \E t \in DOMAIN program[at].exprs[k] : ZeroAt(op, k, t)
  BY DEF DividesByZero, ZeroAt, NumbersOf

LEMMA TokenFaultIs ==
    ASSUME NEW k, NEW t, NEW token, token = program[at].exprs[k][t], NEW fault,
           fault = TokenFault(token, NumbersOf(k)[t - 1]), pass \in 0 .. 1
    PROVE  \/ fault = "none" /\ token[1] # "binary literal" /\ ~ZeroAt("%", k, t)
              /\ (token[1] = "sym" => ~NotKnown(token[2])) /\ (pass = 1 => ~ZeroAt("/", k, t))
           \/ fault = "err" /\ token[1] = "binary literal"
           \/ fault = "err" /\ token[1] = "sym" /\ NotKnown(token[2])
           \/ fault = "err" /\ pass = 1 /\ ZeroAt("/", k, t)
           \/ fault = "crashed" /\ ZeroAt("%", k, t)
<1> DEFINE right == NumbersOf(k)[t - 1][Len(NumbersOf(k)[t - 1])]
<1>1. CASE token[1] = "binary literal"
  BY <1>1 DEF TokenFault
<1>2. CASE token[1] = "sym"
  <2>1. fault = get_sym_address(token[2]).fault
    BY <1>2 DEF TokenFault
  <2>2. fault = IF NotKnown(token[2]) THEN "err" ELSE "none"
    BY <2>1 DEF get_sym_address, NotKnown
  <2>3. ~ZeroAt("%", k, t) /\ ~ZeroAt("/", k, t)
    BY <1>2 DEF ZeroAt
  <2>4. token[1] # "binary literal"
    BY <1>2
  <2>5. QED
    BY <1>2, <2>2, <2>3, <2>4
<1>3. CASE token[1] = "op"
  <2>1. fault = OperatorFault(token[2], right)
    BY <1>3 DEF TokenFault
  <2>2. token[1] # "binary literal" /\ token[1] # "sym"
    BY <1>3
  <2>3. \A op : ZeroAt(op, k, t) <=> token[2] = op /\ right = 0
    BY <1>3 DEF ZeroAt
  <2>4. CASE token[2] = "/"
    BY <2>1, <2>2, <2>3, <2>4 DEF OperatorFault
  <2>5. CASE token[2] = "%"
    BY <2>1, <2>2, <2>3, <2>5 DEF OperatorFault
  <2>6. CASE token[2] # "/" /\ token[2] # "%"
    BY <2>1, <2>2, <2>3, <2>6 DEF OperatorFault
  <2>7. QED
    BY <2>4, <2>5, <2>6
<1>4. CASE token[1] \notin {"binary literal", "sym", "op"}
  <2>1. fault = "none"
    BY <1>4 DEF TokenFault
  <2>2. ~ZeroAt("%", k, t) /\ ~ZeroAt("/", k, t)
    BY <1>4 DEF ZeroAt
  <2>3. QED
    BY <1>4, <2>1, <2>2
<1>5. QED
  BY <1>1, <1>2, <1>3, <1>4

LEMMA MentionsAre ==
    ASSUME NEW line
    PROVE  /\ \A k \in DOMAIN line.exprs : \A t \in DOMAIN line.exprs[k] :
                  line.exprs[k][t][1] = "sym" => line.exprs[k][t][2] \in Mentions(line)
           /\ \A k \in DOMAIN line.regs :
                  line.regs[k][1] = "ident" => line.regs[k][2] \in Mentions(line)
           /\ \A n \in Mentions(line) :
                 \/ \E k \in DOMAIN line.exprs : \E t \in DOMAIN line.exprs[k] :
                        line.exprs[k][t][1] = "sym" /\ line.exprs[k][t][2] = n
                 \/ \E k \in DOMAIN line.regs : line.regs[k][1] = "ident" /\ line.regs[k][2] = n
<1>1. \A s : ToSet(s) = {s[k] : k \in DOMAIN s}
  BY DEF ToSet
<1>2. \A s : Symbols(s) = {token[2] : token \in {t \in {s[k] : k \in DOMAIN s} : t[1] = "sym"}}
  BY <1>1 DEF Symbols
<1>3. Mentions(line) = (UNION {Symbols(line.exprs[k]) : k \in DOMAIN line.exprs})
          \cup {operand[2] : operand \in
                  {o \in {line.regs[k] : k \in DOMAIN line.regs} : o[1] = "ident"}}
  BY <1>1 DEF Mentions
<1>4. \A n : n \in Mentions(line) <=>
          \/ \E k \in DOMAIN line.exprs : n \in Symbols(line.exprs[k])
          \/ \E k \in DOMAIN line.regs : line.regs[k][1] = "ident" /\ line.regs[k][2] = n
  <2> DEFINE fromExprs == UNION {Symbols(line.exprs[k]) : k \in DOMAIN line.exprs}
             fromRegs == {operand[2] : operand \in
                            {o \in {line.regs[k] : k \in DOMAIN line.regs} : o[1] = "ident"}}
  <2>1. \A n : n \in fromExprs <=> \E k \in DOMAIN line.exprs : n \in Symbols(line.exprs[k])
    BY Zenon
  <2>2. \A n : n \in fromRegs <=>
                 \E k \in DOMAIN line.regs : line.regs[k][1] = "ident" /\ line.regs[k][2] = n
    OBVIOUS
  <2>3. Mentions(line) = fromExprs \cup fromRegs
    BY <1>3
  <2> HIDE DEF fromExprs, fromRegs
  <2>4. QED
    BY <2>1, <2>2, <2>3
<1>5. \A s, n : n \in Symbols(s) <=> \E t \in DOMAIN s : s[t][1] = "sym" /\ s[t][2] = n
  BY <1>2
<1>6. QED
  BY <1>4, <1>5

LEMMA FaultTells ==
    ASSUME VisitsAreTraced, at \in DOMAIN program
    PROVE  \/ /\ LineFault = "none"
              /\ \A k \in DOMAIN program[at].exprs : \A t \in DOMAIN program[at].exprs[k] :
                     program[at].exprs[k][t][1] # "binary literal"
              /\ ~DividesByZero("%", program[at], pc.curr, Known)
              /\ pass = 1 => ~DividesByZero("/", program[at], pc.curr, Known)
              /\ \A n \in Mentions(program[at]) : ~NotKnown(n)
           \/ LineFault = "err" /\ \E n \in Mentions(program[at]) : NotKnown(n)
           \/ LineFault = "err" /\ HasBinaryLiteral
           \/ LineFault = "err" /\ pass = 1 /\ DividesByZero("/", program[at], pc.curr, Known)
           \/ LineFault = "crashed" /\ DividesByZero("%", program[at], pc.curr, Known)
<1>1. /\ Line = program[at] /\ pass \in 0 .. 1
      /\ \A k : NumbersOf(k) = Stacks(Line.exprs[k], Here(Line, pc.curr, k), Known)
  BY DEF Line, NumbersOf, VisitsAreTraced
<1>2. ASSUME NEW k \in DOMAIN program[at].regs
      PROVE  \/ OperandFault(program[at].regs[k]) = "none"
                /\ (program[at].regs[k][1] = "ident" => ~NotKnown(program[at].regs[k][2]))
             \/ OperandFault(program[at].regs[k]) = "err"
                /\ \E n \in Mentions(program[at]) : NotKnown(n)
  <2>1. program[at].regs[k][1] \in {"reg", "ident"}
    <3>1. program \in Programs
      BY DEF VisitsAreTraced
    <3>2. QED
      BY <3>1, OperandsAssumption, Zenon
  <2>2. CASE program[at].regs[k][1] = "reg"
    BY <2>2 DEF OperandFault
  <2>3. CASE program[at].regs[k][1] = "ident"
    <3>1. OperandFault(program[at].regs[k]) = get_sym_address(program[at].regs[k][2]).fault
      BY <2>3 DEF OperandFault
    <3>2. get_sym_address(program[at].regs[k][2]).fault
              = IF NotKnown(program[at].regs[k][2]) THEN "err" ELSE "none"
      BY DEF get_sym_address, NotKnown
    <3>3. program[at].regs[k][2] \in Mentions(program[at])
      BY <2>3, MentionsAre
    <3>4. QED
      BY <3>1, <3>2, <3>3
  <2>4. QED
    BY <2>1, <2>2, <2>3
<1>3. ASSUME NEW k \in DOMAIN program[at].exprs
      PROVE  \/ ExprFault(k) = "none"
                /\ \A t \in DOMAIN program[at].exprs[k] :
                      /\ program[at].exprs[k][t][1] # "binary literal"
                      /\ ~ZeroAt("%", k, t) /\ (pass = 1 => ~ZeroAt("/", k, t))
                      /\ program[at].exprs[k][t][1] = "sym" => ~NotKnown(program[at].exprs[k][t][2])
             \/ ExprFault(k) = "err" /\ HasBinaryLiteral
             \/ ExprFault(k) = "err" /\ \E n \in Mentions(program[at]) : NotKnown(n)
             \/ ExprFault(k) = "err" /\ pass = 1 /\ DividesByZero("/", program[at], pc.curr, Known)
             \/ ExprFault(k) = "crashed" /\ DividesByZero("%", program[at], pc.curr, Known)
  <2> DEFINE expr == program[at].exprs[k]
             faults(t) == TokenFault(expr[t], NumbersOf(k)[t - 1])
  <2>1. IF \A t \in DOMAIN expr : faults(t) = "none" THEN ExprFault(k) = "none"
        ELSE ExprFault(k) # "none" /\ \E t \in DOMAIN expr : ExprFault(k) = faults(t)
    BY <1>1, ExprFaultIs
  <2>2. \A t \in DOMAIN expr :
           \/ faults(t) = "none" /\ expr[t][1] # "binary literal" /\ ~ZeroAt("%", k, t)
              /\ (expr[t][1] = "sym" => ~NotKnown(expr[t][2])) /\ (pass = 1 => ~ZeroAt("/", k, t))
           \/ faults(t) = "err" /\ expr[t][1] = "binary literal"
           \/ faults(t) = "err" /\ expr[t][1] = "sym" /\ NotKnown(expr[t][2])
           \/ faults(t) = "err" /\ pass = 1 /\ ZeroAt("/", k, t)
           \/ faults(t) = "crashed" /\ ZeroAt("%", k, t)
    BY <1>1, TokenFaultIs
  <2> HIDE DEF faults
  <2>3. CASE \A t \in DOMAIN expr : faults(t) = "none"
    BY <2>1, <2>2, <2>3
  <2>4. CASE ~(\A t \in DOMAIN expr : faults(t) = "none")
    <3>1. PICK t \in DOMAIN expr : ExprFault(k) = faults(t) /\ faults(t) # "none"
      BY <2>1, <2>4
    <3>2. CASE faults(t) = "err" /\ expr[t][1] = "binary literal"
      BY <3>1, <3>2 DEF HasBinaryLiteral
    <3>3. CASE faults(t) = "err" /\ expr[t][1] = "sym" /\ NotKnown(expr[t][2])
      <4>1. expr[t][2] \in Mentions(program[at])
        BY <3>3, MentionsAre
      <4>2. QED
        BY <3>1, <3>3, <4>1
    <3>4. CASE faults(t) = "err" /\ pass = 1 /\ ZeroAt("/", k, t)
      BY <3>1, <3>4, ZeroIs
    <3>5. CASE faults(t) = "crashed" /\ ZeroAt("%", k, t)
      BY <3>1, <3>5, ZeroIs
    <3>6. QED
      BY <2>2, <3>1, <3>2, <3>3, <3>4, <3>5
  <2>5. QED
    BY <2>3, <2>4
<1>4. IF /\ \A k \in DOMAIN program[at].regs : OperandFault(program[at].regs[k]) = "none"
         /\ \A k \in DOMAIN program[at].exprs : ExprFault(k) = "none"
      THEN LineFault = "none"
      ELSE /\ LineFault # "none"
           /\ \/ \E k \in DOMAIN program[at].regs : LineFault = OperandFault(program[at].regs[k])
              \/ \E k \in DOMAIN program[at].exprs : LineFault = ExprFault(k)
  BY <1>1, LineFaultIs, Zenon
<1>5. CASE LineFault = "none"
  <2>1. /\ \A k \in DOMAIN program[at].regs : OperandFault(program[at].regs[k]) = "none"
        /\ \A k \in DOMAIN program[at].exprs : ExprFault(k) = "none"
    BY <1>4, <1>5
  <2>2. \A k \in DOMAIN program[at].exprs : \A t \in DOMAIN program[at].exprs[k] :
                      /\ program[at].exprs[k][t][1] # "binary literal"
                      /\ ~ZeroAt("%", k, t) /\ (pass = 1 => ~ZeroAt("/", k, t))
                      /\ program[at].exprs[k][t][1] = "sym" => ~NotKnown(program[at].exprs[k][t][2])
    BY <1>3, <2>1
  <2>3. \A k \in DOMAIN program[at].regs :
           program[at].regs[k][1] = "ident" => ~NotKnown(program[at].regs[k][2])
    BY <1>2, <2>1
  <2>4. ~DividesByZero("%", program[at], pc.curr, Known)
    BY <2>2, ZeroIs
  <2>5. pass = 1 => ~DividesByZero("/", program[at], pc.curr, Known)
    BY <2>2, ZeroIs
  <2>6. ASSUME NEW n \in Mentions(program[at])
        PROVE  ~NotKnown(n)
    <3>1. \/ \E k \in DOMAIN program[at].exprs : \E t \in DOMAIN program[at].exprs[k] :
                 program[at].exprs[k][t][1] = "sym" /\ program[at].exprs[k][t][2] = n
          \/ \E k \in DOMAIN program[at].regs :
                 program[at].regs[k][1] = "ident" /\ program[at].regs[k][2] = n
      BY MentionsAre
    <3>2. QED
      BY <2>2, <2>3, <3>1, Zenon
  <2>7. QED
    BY <1>5, <2>2, <2>4, <2>5, <2>6
<1>6. CASE LineFault # "none"
  <2>1. CASE \E k \in DOMAIN program[at].regs : LineFault = OperandFault(program[at].regs[k])
    BY <1>2, <1>6, <2>1
  <2>2. CASE \E k \in DOMAIN program[at].exprs : LineFault = ExprFault(k)
    BY <1>3, <1>6, <2>2
  <2>3. QED
    BY <1>4, <1>6, <2>1, <2>2
<1>7. QED
  BY <1>5, <1>6

-----------------------------------------------------------------------------
(* Where lines are, and that they have no fault *)

\* What a line that goes by leaves in the history.
LEMMA PassedIs ==
    ASSUME WalkInv, Next, Passed
    PROVE  \E values :
              /\ trace'[pass][at] = Met(values)
              /\ Met(values) = [node |-> curr_scope_node, addr |-> pc.curr, values |-> values, syms |-> Known]
              /\ program[at].kind = "label" => values = <<pc.curr>>
              /\ program[at].kind \in {"equ", "org", "space"} => values = ValuesOf(program[at], pc.curr, Known)
              /\ pc'.curr = After(program[at], pc.curr, values)
<1>1. PICK values :
         /\ trace' = [trace EXCEPT ![pass] = Append(trace[pass], Met(values))]
         /\ program[at].kind = "label" => values = <<pc.curr>>
         /\ program[at].kind \in {"equ", "org", "space"} => values = Values
         /\ pc'.curr = After(program[at], pc.curr, values)
  BY DEF Passed
<1>2. trace'[pass][at] = Met(values)
  <2>1. at \in 1 .. Len(program)
    BY DEF Passed, Noted
  <2>2. QED
    BY <1>1, <2>1, TraceThen DEF WalkInv
<1>3. Values = ValuesOf(program[at], pc.curr, Known)
  BY DEF Values, Line
<1>4. QED
  BY <1>1, <1>2, <1>3 DEF Met

LEMMA ReachedThen ==
    ASSUME WalkInv, Next, NEW p \in 0 .. 1, NEW i \in Nat \ {0}, i \in DOMAIN trace[p] \/ i - 1 \in DOMAIN trace[p]
    PROVE  Reached(p, i)' = Reached(p, i)
<1>1. i # 1 => i - 1 \in DOMAIN trace[p]
  <2>1. DOMAIN trace[p] = 1 .. Len(trace[p]) /\ Len(trace[p]) \in Nat
    BY VisitsAre DEF WalkInv
  <2>2. QED
    BY <2>1
<1>2. i # 1 => trace'[p][i - 1] = trace[p][i - 1]
  BY <1>1, TraceStep
<1>3. program' = program
  BY DefinitionsStay
<1>4. Reached(p, i)' = IF i = 1 THEN 0
          ELSE After(program[i - 1], trace'[p][i - 1].addr, trace'[p][i - 1].values)
  BY <1>3 DEF Reached
<1>5. QED
  BY <1>2, <1>4 DEF Reached

LEMMA StatusThen ==
    ASSUME WalkInv, Next
    PROVE  /\ status = "running"
           /\ Passed => status' = "running"
           /\ status' = "running" => Passed \/ NextPass
           /\ status' = "done" => Finish
<1>1. Passed \/ Stopped \/ Finish \/ NextPass
  BY LineStepIs DEF WalkInv
<1>2. CASE Stopped
  <2>1. VisitsAreTraced /\ at \in DOMAIN program
    BY <1>2, VisitsAre DEF Stopped, WalkInv
  <2>2. LineFault # "running" /\ LineFault # "done"
    <3>1. LineFault = "none" \/ LineFault = "err" \/ LineFault = "crashed"
      BY <2>1, FaultTells
    <3>2. QED
      BY <3>1
  <2>3. status = "running" /\ status' # "running" /\ status' # "done"
    BY <1>2, <2>2 DEF Stopped
  <2>4. ~Passed
    BY <2>3 DEF Passed
  <2>5. QED
    BY <2>3, <2>4
<1>3. CASE Passed
  <2>1. status = "running" /\ status' = "running"
    BY <1>3 DEF Passed
  <2>2. QED
    BY <1>3, <2>1
<1>4. CASE Finish
  <2>1. status = "running" /\ status' = "done"
    BY <1>4 DEF Finish
  <2>2. ~Passed
    BY <2>1 DEF Passed
  <2>3. QED
    BY <1>4, <2>1, <2>2
<1>5. CASE NextPass
  <2>1. status = "running" /\ status' = "running"
    BY <1>5 DEF NextPass
  <2>2. QED
    BY <1>5, <2>1
<1>6. QED
  BY <1>1, <1>2, <1>3, <1>4, <1>5

LEMMA LinesStillFollow ==
    ASSUME WalkInv, LinesFollow, Next
    PROVE  LinesFollow'
<1>1. /\ at \in Nat \ {0} /\ Len(program) \in Nat /\ DOMAIN program = 1 .. Len(program)
      /\ pass \in 0 .. 1 /\ DOMAIN trace[pass] = 1 .. at - 1
      /\ \A p \in 0 .. 1 : \A i \in DOMAIN trace[p] : i \in Nat \ {0}
  BY TracedIs
<1>2. program' = program /\ status = "running"
  BY DefinitionsStay, StatusThen
<1>3. /\ \A p \in 0 .. 1 : \A i \in DOMAIN trace[p] : trace'[p][i] = trace[p][i]
      /\ \A p \in 0 .. 1 : \A i \in DOMAIN trace'[p] :
             i \in DOMAIN trace[p] \/ (Passed /\ p = pass /\ i = at)
  BY TraceStep
<1>4. at <= Len(program) => pc.curr = Reached(pass, at)
  BY <1>2 DEF LinesFollow
<1>5. PICK n \in Nat \ {0} : n = at
  BY <1>1
<1>6. PICK q \in 0 .. 1 : q = pass
  BY <1>1
<1>7. at <= Len(program) => Reached(q, n)' = pc.curr
  <2>1. CASE n = 1
    <3>1. Reached(q, n)' = 0 /\ Reached(pass, at) = 0
      BY <1>5, <2>1 DEF Reached
    <3>2. QED
      BY <1>4, <3>1
  <2>2. CASE n # 1
    <3>1. n - 1 \in DOMAIN trace[q]
      BY <1>1, <1>5, <1>6, <2>2
    <3>2. Reached(q, n)' = Reached(q, n)
      BY <3>1, ReachedThen
    <3>3. QED
      BY <1>4, <1>5, <1>6, <3>2
  <2>3. QED
    BY <2>1, <2>2
<1>8. Passed => at <= Len(program) /\ pass' = pass /\ at' = at + 1
  BY <1>1 DEF Passed, Noted
<1>9. ASSUME status' = "running", at' <= Len(program)
      PROVE  pc'.curr = Reached(pass, at)'
  <2>1. CASE Passed
    <3>1. PICK values :
             /\ trace'[pass][at] = Met(values)
             /\ Met(values) = [node |-> curr_scope_node, addr |-> pc.curr, values |-> values, syms |-> Known]
             /\ pc'.curr = After(program[at], pc.curr, values)
      BY <2>1, PassedIs
    <3>2. trace'[q][n].addr = pc.curr /\ trace'[q][n].values = values
      BY <1>5, <1>6, <3>1
    <3>3. Reached(q, n + 1)' = After(program[n], trace'[q][n].addr, trace'[q][n].values)
      <4>1. n + 1 # 1 /\ (n + 1) - 1 = n
        BY <1>5
      <4>2. Reached(q, n + 1)' = IF n + 1 = 1 THEN 0
               ELSE After(program[(n + 1) - 1], trace'[q][(n + 1) - 1].addr, trace'[q][(n + 1) - 1].values)
        BY <1>2 DEF Reached
      <4>3. QED
        BY <4>1, <4>2
    <3>4. Reached(pass, at)' = Reached(q, n + 1)'
      <4>1. pass' = q /\ at' = n + 1
        BY <1>5, <1>6, <1>8, <2>1
      <4>2. QED
        BY <4>1 DEF Reached
    <3>5. QED
      BY <1>5, <3>1, <3>2, <3>3, <3>4
  <2>2. CASE NextPass
    BY <2>2 DEF NextPass, Reached
  <2>3. QED
    BY <1>9, <2>1, <2>2, StatusThen
<1>10. ASSUME NEW p \in 0 .. 1, NEW i \in DOMAIN trace'[p]
       PROVE  /\ trace'[p][i].addr = Reached(p, i)'
              /\ trace'[p][i].syms = [m \in Mentions(program[i]) |-> trace'[p][i].syms[m]]
              /\ program[i].kind = "label" => trace'[p][i].values = <<trace'[p][i].addr>>
              /\ program[i].kind \in {"equ", "org", "space"} =>
                     trace'[p][i].values = ValuesOf(program[i], trace'[p][i].addr, trace'[p][i].syms)
  <2>1. CASE i \in DOMAIN trace[p]
    <3>1. Reached(p, i)' = Reached(p, i)
      BY <1>1, <2>1, ReachedThen
    <3>2. trace'[p][i] = trace[p][i]
      BY <1>3, <2>1
    <3>3. /\ trace[p][i].addr = Reached(p, i)
          /\ trace[p][i].syms = [m \in Mentions(program[i]) |-> trace[p][i].syms[m]]
          /\ program[i].kind = "label" => trace[p][i].values = <<trace[p][i].addr>>
          /\ program[i].kind \in {"equ", "org", "space"} =>
                 trace[p][i].values = ValuesOf(program[i], trace[p][i].addr, trace[p][i].syms)
      BY <2>1, Zenon DEF LinesFollow
    <3>4. QED
      BY <3>1, <3>2, <3>3
  <2>2. CASE Passed /\ p = pass /\ i = at
    <3>1. PICK values :
             /\ trace'[pass][at] = Met(values)
             /\ Met(values) = [node |-> curr_scope_node, addr |-> pc.curr, values |-> values, syms |-> Known]
             /\ program[at].kind = "label" => values = <<pc.curr>>
             /\ program[at].kind \in {"equ", "org", "space"} => values = ValuesOf(program[at], pc.curr, Known)
      BY <2>2, PassedIs
    <3>2. /\ trace'[p][i].addr = pc.curr /\ trace'[p][i].values = values
          /\ trace'[p][i].syms = Known
      BY <2>2, <3>1
    <3>3. Known = [m \in Mentions(program[at]) |-> Known[m]]
      BY DEF Known
    <3>4. Reached(p, i)' = pc.curr
      BY <1>5, <1>6, <1>7, <1>8, <2>2
    <3>5. QED
      BY <2>2, <3>1, <3>2, <3>3, <3>4
  <2>3. QED
    BY <1>3, <2>1, <2>2
<1>11. QED
  BY <1>2, <1>9, <1>10 DEF LinesFollow

\* A name leads to a label if and only if the line that mentions it can go by.
LEMMA KnownIsLabel ==
    ASSUME WalkInv, TableHasDefinitions, at \in 1 .. Len(program), NEW n
    PROVE  SymbolIn(curr_scope_node, n).found_as_label <=> find(Scope(at), n) \in Labels
<1>1. curr_scope_node = Scope(at) /\ curr_scope_node \in Node
  BY CursorIs
<1>2. find(curr_scope_node, n) = NotFound \/ find(curr_scope_node, n) \in DOMAIN table
  BY <1>1, FindIs
<1>3. ~NewSymbol.found_as_label
  BY DEF NewSymbol
<1>4. CASE find(curr_scope_node, n) = NotFound
  <2>1. SymbolIn(curr_scope_node, n) = NewSymbol
    BY <1>4 DEF SymbolIn
  <2>2. NotFound \notin Labels
    <3>1. SUFFICES ASSUME NotFound \in Labels
                   PROVE  FALSE
      OBVIOUS
    <3>2. PICK c \in DefinedSoFar : SymbolOf(c) = NotFound
      BY <3>1, LabelIsOf
    <3>3. QED
      BY <3>2, NoPairIsNotFound DEF SymbolOf
  <2>3. QED
    BY <1>1, <1>3, <1>4, <2>1, <2>2
<1>5. CASE find(curr_scope_node, n) # NotFound
  BY <1>1, <1>2, <1>5 DEF SymbolIn, Labels
<1>6. QED
  BY <1>4, <1>5

LEMMA LinesStayFaultless ==
    ASSUME WalkInv, TableHasDefinitions, LinesAreFaultless, Next
    PROVE  LinesAreFaultless'
<1>1. /\ at \in Nat \ {0} /\ Len(program) \in Nat /\ DOMAIN program = 1 .. Len(program)
      /\ pass \in 0 .. 1 /\ DOMAIN trace[0] = 1 .. Len(trace[0]) /\ Len(trace[0]) \in Nat
      /\ at <= Len(trace[0]) + 1
      /\ \A p \in 0 .. 1 : \A i \in DOMAIN trace[p] : i \in DOMAIN trace[0] /\ i \in Nat \ {0}
  BY TracedIs
<1>2. program' = program /\ status = "running"
  BY DefinitionsStay, StatusThen
<1>3. /\ \A p \in 0 .. 1 : \A i \in DOMAIN trace[p] : trace'[p][i] = trace[p][i]
      /\ \A p \in 0 .. 1 : \A i \in DOMAIN trace'[p] :
             i \in DOMAIN trace[p] \/ (Passed /\ p = pass /\ i = at)
  BY TraceStep
<1>4. status' = "done" => pass' = 1 /\ Len(trace'[1]) = Len(program)
  <2>1. SUFFICES ASSUME Finish
                 PROVE  pass' = 1 /\ Len(trace[1]) = Len(program) /\ trace' = trace
    BY StatusThen
  <2>2. at > Len(program) /\ pass = 1 /\ pass' = 1 /\ trace' = trace
    BY <2>1 DEF Finish
  <2>3. Len(trace[1]) = at - 1 /\ at \in 1 .. Len(program) + 1
    BY <2>2, VisitsAre DEF WalkInv
  <2>4. QED
    BY <1>1, <2>2, <2>3
<1>5. ASSUME NEW p \in 0 .. 1, NEW i \in DOMAIN trace'[p]
      PROVE  /\ \A k \in DOMAIN program[i].exprs : \A t \in DOMAIN program[i].exprs[k] :
                    program[i].exprs[k][t][1] # "binary literal"
             /\ ~DividesByZero("%", program[i], trace'[p][i].addr, trace'[p][i].syms)
             /\ p = 1 => /\ ~DividesByZero("/", program[i], trace'[p][i].addr, trace'[p][i].syms)
                         /\ \A n \in Mentions(program[i]) : find(Scope(i), n) \in Labels
  <2>1. CASE i \in DOMAIN trace[p]
    <3>1. trace'[p][i] = trace[p][i]
      BY <1>3, <2>1
    <3>2. /\ \A k \in DOMAIN program[i].exprs : \A t \in DOMAIN program[i].exprs[k] :
                 program[i].exprs[k][t][1] # "binary literal"
          /\ ~DividesByZero("%", program[i], trace[p][i].addr, trace[p][i].syms)
          /\ p = 1 => /\ ~DividesByZero("/", program[i], trace[p][i].addr, trace[p][i].syms)
                      /\ \A n \in Mentions(program[i]) : find(Scope(i), n) \in Labels
      BY <2>1, Zenon DEF LinesAreFaultless
    <3>3. QED
      BY <3>1, <3>2
  <2>2. CASE Passed /\ p = pass /\ i = at
    <3>1. trace'[p][i].addr = pc.curr /\ trace'[p][i].syms = Known
      <4>1. PICK values :
               /\ trace'[pass][at] = Met(values)
               /\ Met(values) = [node |-> curr_scope_node, addr |-> pc.curr, values |-> values, syms |-> Known]
        BY <2>2, PassedIs
      <4>2. QED
        BY <2>2, <4>1
    <3>2. /\ at \in 1 .. Len(program) /\ at \in DOMAIN program /\ LineFault = "none"
          /\ VisitsAreTraced
      BY <1>1, <2>2 DEF Passed, Noted, WalkInv
    <3>3. /\ \A k \in DOMAIN program[at].exprs : \A t \in DOMAIN program[at].exprs[k] :
                 program[at].exprs[k][t][1] # "binary literal"
          /\ ~DividesByZero("%", program[at], pc.curr, Known)
          /\ pass = 1 => ~DividesByZero("/", program[at], pc.curr, Known)
          /\ \A n \in Mentions(program[at]) : ~NotKnown(n)
      BY <3>2, FaultTells
    <3>4. pass = 1 => \A n \in Mentions(program[at]) : find(Scope(at), n) \in Labels
      BY <3>2, <3>3, KnownIsLabel DEF NotKnown
    <3>5. QED
      BY <2>2, <3>1, <3>3, <3>4
  <2>3. QED
    BY <1>3, <2>1, <2>2
\* Names keep leading to labels.
<1>6. ASSUME NEW i \in DOMAIN trace'[1], NEW n, find(Scope(i), n) \in Labels
      PROVE  (find(Scope(i), n) \in Labels)'
  <2>1. i \in DOMAIN trace[0] \/ (i = at /\ Passed)
    BY <1>1, <1>3
  <2>2. Scope(i)' = Scope(i) /\ Scope(i) \in Node
    BY <1>1, <2>1, ScopeThen
  <2>3. PICK node \in Node : node = Scope(i)
    BY <2>2
  <2>4. find(node, n) # NotFound
    <3>1. PICK c \in DefinedSoFar : SymbolOf(c) = find(node, n)
      BY <1>6, <2>3, LabelIsOf
    <3>2. QED
      BY <3>1, NoPairIsNotFound DEF SymbolOf
  <2>5. find(node, n)' = find(node, n) /\ Labels \subseteq Labels'
    BY <2>4, StepGrows, FindStays DEF TableGrows
  <2>6. (find(Scope(i), n) \in Labels)' <=> find(node, n)' \in Labels'
    <3>1. Scope(i)' = node
      BY <2>2, <2>3
    <3>2. QED
      BY <3>1 DEF find
  <2>7. QED
    BY <1>6, <2>3, <2>5, <2>6
<1>7. QED
  BY <1>2, <1>4, <1>5, <1>6 DEF LinesAreFaultless

-----------------------------------------------------------------------------
(* What names and values mean *)

\* In the second pass all definitions have been met; which are visible, scopes tell.
LEMMA VisibleIs ==
    ASSUME WalkInv, pass = 1, NEW i \in DOMAIN program, NEW name
    PROVE  /\ Seen = Len(program) /\ Len(program) \in Nat /\ DOMAIN program = 1 .. Len(program)
           /\ i \in 1 .. Seen /\ Scope(i) \in Node
           /\ DefinedSoFar = {d \in DOMAIN program : IsDefinition(d)}
           /\ \A d : d \in Visible(i, name) <=>
                        d \in DefinedSoFar /\ program[d].name = name /\ IsPrefix(Scope(d), Scope(i))
<1>1. /\ Seen = Len(program) /\ Len(program) \in Nat /\ DOMAIN program = 1 .. Len(program)
      /\ DOMAIN trace[0] = 1 .. Len(program)
  BY VisitsAre DEF WalkInv
<1>2. i \in 1 .. Seen /\ Scope(i) \in Node
  BY <1>1, LineIsInScope
<1>3. DefinedSoFar = {d \in DOMAIN program : IsDefinition(d)}
  BY <1>1 DEF DefinedSoFar
<1>4. \A d : d \in Definitions(name) <=> d \in DefinedSoFar /\ program[d].name = name
  BY <1>3 DEF Definitions
<1>5. \A d \in DefinedSoFar : Block(d) \in Enclosing(i) <=> IsPrefix(Scope(d), Scope(i))
  BY <1>1, <1>2, <1>3, BlockEncloses
<1>6. QED
  BY <1>1, <1>2, <1>3, <1>4, <1>5 DEF Visible

LEMMA NameLeadsToDefinition ==
    ASSUME WalkInv, TableHasDefinitions, pass = 1, NEW i \in DOMAIN program, NEW name
    PROVE  /\ find(Scope(i), name) \in Labels <=> Visible(i, name) # {}
           /\ Visible(i, name) # {} => Meaning(i, name) \in Visible(i, name)
           /\ Uncaptured(name) /\ find(Scope(i), name) \in Labels =>
                  find(Scope(i), name) = SymbolOf(Meaning(i, name))
<1> DEFINE node == Scope(i)
           sym == find(node, name)
<1>1. /\ Seen = Len(program) /\ Len(program) \in Nat /\ DOMAIN program = 1 .. Len(program)
      /\ i \in 1 .. Seen /\ node \in Node
      /\ DefinedSoFar = {d \in DOMAIN program : IsDefinition(d)}
      /\ \A d : d \in Visible(i, name) <=>
                   d \in DefinedSoFar /\ program[d].name = name /\ IsPrefix(Scope(d), node)
  BY VisibleIs
<1>2. ASSUME NEW d \in Visible(i, name)
      PROVE  sym \in Labels
  BY <1>1, VisibleIsFound
\* The definition whose symbol is found is visible.
<1>3. ASSUME sym \in Labels
      PROVE  \E d \in Visible(i, name) : \E k \in 1 .. Len(node) :
                /\ sym = SymbolOf(d) /\ Scope(d) = SubSeq(node, 1, k) /\ d \in 1 .. Seen
                /\ \A j \in 1 .. Len(node) : <<SubSeq(node, 1, j), name>> \in DOMAIN table => j <= k
  <2>1. PICK d \in DefinedSoFar : SymbolOf(d) = sym
    BY <1>3, LabelIsOf
  <2>2. /\ SymbolOf(d) = <<Scope(d), program[d].name>> /\ Scope(d) \in Node /\ d \in 1 .. Seen
    BY <2>1, DefinedIs
  <2>3. sym # NotFound
    BY <2>1, <2>2, NoPairIsNotFound
  <2>4. PICK k \in 1 .. Len(node) :
           /\ sym = <<SubSeq(node, 1, k), name>>
           /\ \A j \in 1 .. Len(node) : <<SubSeq(node, 1, j), name>> \in DOMAIN table => j <= k
    BY <1>1, <2>3, FindIs, Zenon
  <2>5. Scope(d) = SubSeq(node, 1, k) /\ program[d].name = name
    <3>1. <<Scope(d), program[d].name>> = <<SubSeq(node, 1, k), name>>
      <4> HIDE DEF sym, node
      <4> QED
        BY <2>1, <2>2, <2>4, Zenon
    <3> HIDE DEF sym, node
    <3>2. QED
      BY <3>1
  <2>6. IsPrefix(Scope(d), node)
    BY <1>1, <2>2, <2>5, ScopeAround
  <2>7. d \in Visible(i, name)
    BY <1>1, <2>1, <2>5, <2>6
  <2>8. QED
    BY <2>1, <2>2, <2>4, <2>5, <2>7
<1>4. ASSUME Visible(i, name) # {}
      PROVE  /\ Meaning(i, name) \in Visible(i, name)
             /\ \A e \in Visible(i, name) : Block(e) <= Block(Meaning(i, name))
  <2> DEFINE blocks == {Block(e) : e \in Visible(i, name)}
  <2>1. blocks \in SUBSET (0 .. Len(program)) /\ blocks # {}
    <3>1. \A e \in Visible(i, name) : e \in 1 .. Seen
      BY <1>1
    <3>2. \A e \in 1 .. Seen : Block(e) \in 0 .. Len(program)
      <4>1. \A e \in 1 .. Seen : Block(e) = 0 \/ Block(e) \in 1 .. e - 1
        BY BlockIs
      <4>2. \A e \in 1 .. Seen : \A b \in 1 .. e - 1 : b \in 0 .. Len(program)
        BY <1>1
      <4>3. 0 \in 0 .. Len(program)
        BY <1>1
      <4>4. QED
        BY <4>1, <4>2, <4>3
    <3>3. QED
      BY <1>4, <3>1, <3>2
  <2>2. PICK b \in blocks : \A c \in blocks : c <= b
    <3> HIDE DEF blocks
    <3> QED
      BY <1>1, <2>1, GreatestOf
  <2>3. \E d \in Visible(i, name) : \A e \in Visible(i, name) : Block(e) <= Block(d)
    BY <2>2
  <2>4. QED
    BY <2>3, Zenon DEF Meaning
<1>5. ASSUME Uncaptured(name), sym \in Labels
      PROVE  sym = SymbolOf(Meaning(i, name))
  <2>1. PICK d \in Visible(i, name) : \E k \in 1 .. Len(node) :
           /\ sym = SymbolOf(d) /\ Scope(d) = SubSeq(node, 1, k) /\ d \in 1 .. Seen
           /\ \A j \in 1 .. Len(node) : <<SubSeq(node, 1, j), name>> \in DOMAIN table => j <= k
    BY <1>3, <1>5
  <2>2. PICK k \in 1 .. Len(node) :
           /\ sym = SymbolOf(d) /\ Scope(d) = SubSeq(node, 1, k) /\ d \in 1 .. Seen
           /\ \A j \in 1 .. Len(node) : <<SubSeq(node, 1, j), name>> \in DOMAIN table => j <= k
    BY <2>1
  <2> DEFINE m == Meaning(i, name)
  <2>3. /\ m \in Visible(i, name) /\ Block(d) <= Block(m)
    BY <1>4, <2>1
  <2>4. /\ m \in DefinedSoFar /\ program[m].name = name /\ IsPrefix(Scope(m), node) /\ m \in 1 .. Seen
        /\ Scope(m) \in Node /\ Scope(m) # tree /\ SymbolOf(m) = <<Scope(m), name>>
    <3>1. m \in DefinedSoFar /\ program[m].name = name /\ IsPrefix(Scope(m), node)
      BY <1>1, <2>3
    <3>2. QED
      BY <3>1, DefinedIs
  <2> HIDE DEF m
  <2>5. PICK j \in 1 .. Len(node) : Scope(m) = SubSeq(node, 1, j)
    BY <1>1, <2>4, ScopeAround
  <2>6. SymbolOf(m) \in Labels
    <3>1. ~Captured(m)
      BY <1>1, <1>5, <2>4 DEF Uncaptured, Definitions
    <3>2. QED
      BY <2>4, <3>1 DEF TableHasDefinitions
  <2>7. j <= k
    BY <2>2, <2>4, <2>5, <2>6 DEF Labels
  <2>8. /\ Scope(d) \in Node /\ Len(Scope(d)) = k /\ Len(Scope(m)) = j /\ IsPrefix(Scope(d), node)
    <3>1. Len(node) \in Nat /\ d \in 1 .. Seen
      BY <1>1, <2>2 DEF Node
    <3>2. Scope(d) \in Node /\ Len(Scope(d)) = k /\ IsPrefix(Scope(d), node)
      <4> HIDE DEF node
      <4>1. Scope(d) \in Node /\ Len(Scope(d)) = k
        BY <1>1, <2>2, <3>1, NodeAbove
      <4>2. QED
        BY <1>1, <2>2, <3>1, <4>1, ScopeAround
    <3>3. Len(Scope(m)) = j
      <4> HIDE DEF node
      <4> QED
        BY <1>1, <2>5, <3>1, NodeAbove
    <3>4. QED
      BY <3>2, <3>3
  <2>9. IsPrefix(Scope(m), Scope(d))
    BY <1>1, <2>4, <2>7, <2>8, ScopesAroundNest
  <2>10. Block(m) <= Block(d) /\ (Block(m) = Block(d) => Scope(m) = Scope(d))
    BY <2>2, <2>4, <2>9, BlocksByScope
  <2>11. Block(m) = Block(d)
    <3>1. \A e \in 1 .. Seen : Block(e) \in Nat
      <4>1. \A e \in 1 .. Seen : Block(e) = 0 \/ Block(e) \in 1 .. e - 1
        BY BlockIs
      <4>2. \A e \in 1 .. Seen : \A b \in 1 .. e - 1 : b \in Nat
        BY <1>1
      <4>3. QED
        BY <4>1, <4>2
    <3>2. Block(m) \in Nat /\ Block(d) \in Nat
      BY <2>2, <2>4, <3>1
    <3>3. QED
      BY <2>3, <2>10, <3>2 DEF m
  <2>12. program[d].name = name /\ d \in DefinedSoFar
    BY <1>1
  <2>13. SymbolOf(d) = <<Scope(d), name>>
    BY <2>12, DefinedIs
  <2>14. QED
    BY <2>2, <2>4, <2>10, <2>11, <2>13 DEF m
<1>6. QED
  BY <1>2, <1>3, <1>4, <1>5

\* Both passes put a line at the same address, and give it the same value, if it needs
\* nothing from below where it moves the place counter or defines a symbol.
LEMMA LayoutAgrees ==
    ASSUME WalkInv, SymbolInv, LayoutKnown, NEW i \in DOMAIN trace[1]
    PROVE  /\ trace[1][i].addr = trace[0][i].addr
           /\ program[i].kind \in {"label", "equ", "org", "space"} => trace[1][i].values = trace[0][i].values
<1> DEFINE Agrees(k) ==
               /\ trace[1][k].addr = trace[0][k].addr
               /\ program[k].kind \in {"label", "equ", "org", "space"} =>
                      trace[1][k].values = trace[0][k].values
           T == {k \in DOMAIN trace[1] : ~Agrees(k)}
<1>1. /\ DOMAIN trace[1] = 1 .. Len(trace[1]) /\ Len(trace[1]) \in Nat
      /\ pass = 1 /\ DOMAIN trace[0] = 1 .. Len(program) /\ Len(trace[1]) <= Len(program)
      /\ DOMAIN program = 1 .. Len(program) /\ Len(program) \in Nat
      /\ Len(trace[0]) = Len(program)
  <2>1. /\ DOMAIN trace[1] = 1 .. Len(trace[1]) /\ Len(trace[1]) \in Nat /\ pass \in 0 .. 1
        /\ Len(program) \in Nat /\ at \in 1 .. Len(program) + 1
        /\ DOMAIN trace[0] = 1 .. Len(trace[0])
        /\ pass = 0 => Len(trace[1]) = 0
        /\ pass = 1 => Len(trace[0]) = Len(program) /\ Len(trace[1]) = at - 1
        /\ DOMAIN program = 1 .. Len(program)
    BY VisitsAre DEF WalkInv
  <2>2. pass = 1
    BY <2>1
  <2>3. Len(trace[1]) <= Len(program)
    BY <2>1, <2>2
  <2>4. QED
    BY <2>1, <2>2, <2>3
<1>2. /\ TableHasDefinitions /\ LinesReadLastValues /\ LinesFollow
  BY DEF SymbolInv
<1>3. SUFFICES ASSUME T # {}
               PROVE  FALSE
  OBVIOUS
<1>4. PICK j \in T : \A k \in T : j <= k
  <2>1. T \in SUBSET Nat
    BY <1>1
  <2> HIDE DEF T
  <2>2. QED
    BY <1>3, <2>1, LeastOf
<1>5. /\ j \in DOMAIN trace[1] /\ j \in DOMAIN trace[0] /\ j \in DOMAIN program
      /\ j \in Nat \ {0} /\ j \in 1 .. Len(trace[0]) + 1
  <2>1. j \in 1 .. Len(trace[1])
    BY <1>1
  <2>2. j \in 1 .. Len(program) /\ j \in Nat \ {0}
    BY <1>1, <2>1
  <2>3. QED
    BY <1>1, <2>1, <2>2
<1>6. \A k \in 1 .. j - 1 : Agrees(k)
  <2>1. \A k \in 1 .. j - 1 : k \in 1 .. Len(trace[1]) /\ ~(j <= k)
    BY <1>1, <1>5
  <2>2. QED
    BY <1>1, <1>4, <2>1
<1>7. ASSUME NEW p \in 0 .. 1
      PROVE  /\ trace[p][j].addr = Reached(p, j)
             /\ trace[p][j].syms = [n \in Mentions(program[j]) |-> trace[p][j].syms[n]]
             /\ program[j].kind = "label" => trace[p][j].values = <<trace[p][j].addr>>
             /\ program[j].kind \in {"equ", "org", "space"} =>
                    trace[p][j].values = ValuesOf(program[j], trace[p][j].addr, trace[p][j].syms)
  <2>1. j \in DOMAIN trace[p]
    BY <1>5
  <2>2. QED
    BY <1>2, <2>1, Zenon DEF LinesFollow
\* The line above ends at the same address.
<1>8. Reached(1, j) = Reached(0, j)
  <2>1. CASE j = 1
    BY <2>1 DEF Reached
  <2>2. CASE j # 1
    <3>1. j - 1 \in 1 .. j - 1
      BY <1>5, <2>2
    <3>2. Agrees(j - 1)
      BY <1>6, <3>1
    <3>3. After(program[j - 1], trace[1][j - 1].addr, trace[1][j - 1].values)
              = After(program[j - 1], trace[0][j - 1].addr, trace[0][j - 1].values)
      BY <3>2 DEF After
    <3>4. QED
      BY <2>2, <3>3 DEF Reached
  <2>3. QED
    BY <2>1, <2>2
<1>9. trace[1][j].addr = trace[0][j].addr
  BY <1>7, <1>8
\* What it mentions has been set last by a line above it.
<1>10. ASSUME program[j].kind \in {"equ", "org", "space"}, NEW n \in Mentions(program[j])
       PROVE  trace[1][j].syms[n] = trace[0][j].syms[n]
  <2> DEFINE sym == find(Scope(j), n)
             setters == {d \in 1 .. j - 1 : IsDefinition(d) /\ Target(d) = sym}
  <2>1. Visible(j, n) # {} /\ Meaning(j, n) < j
    BY <1>5, <1>10 DEF LayoutKnown, Settled
  <2>2. /\ Meaning(j, n) \in Visible(j, n)
    BY <1>1, <1>2, <1>5, <2>1, NameLeadsToDefinition
  <2>3. PICK m \in DefinedSoFar : /\ m = Meaning(j, n) /\ program[m].name = n
                                  /\ IsPrefix(Scope(m), Scope(j)) /\ j \in 1 .. Seen
    BY <1>1, <1>5, <2>2, VisibleIs
  <2>4. PICK c \in DefinedSoFar : c <= m /\ ~Captured(c) /\ SymbolOf(c) = sym
    BY <1>2, <2>3, VisibleIsFound
  <2>5. c \in setters
    <3>1. Target(c) = sym
      BY <1>2, <2>4, TargetIsOwn
    <3>2. c \in DOMAIN program /\ IsDefinition(c) /\ c \in Nat /\ c \in 1 .. Len(trace[0])
      BY <2>4, DefinedIs
    <3>3. m \in Nat /\ m < j
      BY <2>1, <2>3, DefinedIs
    <3>4. c \in 1 .. j - 1
      BY <1>1, <1>5, <2>4, <3>2, <3>3
    <3>5. QED
      BY <3>1, <3>2, <3>4
  <2>6. PICK d \in setters : \A e \in setters : e <= d
    <3>1. setters \in SUBSET (0 .. j)
      <4>1. \A e \in 1 .. j - 1 : e \in 0 .. j
        BY <1>5
      <4>2. QED
        BY <4>1
    <3> HIDE DEF setters
    <3>2. QED
      BY <1>5, <2>5, <3>1, GreatestOf
  <2>7. SetLast(d, j) /\ Target(d) = sym /\ d \in 1 .. j - 1 /\ IsDefinition(d)
    <3>1. d \in 1 .. j - 1 /\ IsDefinition(d) /\ Target(d) = sym
      BY <2>6
    <3>2. \A e \in d + 1 .. j - 1 : e \in 1 .. j - 1 /\ ~(e <= d)
      BY <1>5, <3>1
    <3>3. QED
      BY <2>6, <3>1, <3>2 DEF SetLast
  <2>8. \A p \in 0 .. 1 : trace[p][j].syms[n] = trace[p][d].values[1]
    <3>1. \A p \in 0 .. 1 : j \in DOMAIN trace[p]
      BY <1>5
    <3>2. QED
      BY <1>2, <1>10, <2>7, <3>1 DEF LinesReadLastValues
  <2>9. trace[1][d].values = trace[0][d].values
    BY <1>6, <2>7 DEF IsDefinition
  <2>10. QED
    BY <2>8, <2>9
<1>11. program[j].kind \in {"equ", "org", "space"} => trace[1][j].syms = trace[0][j].syms
  BY <1>7, <1>10
<1>12. Agrees(j)
  <2>1. program[j].kind = "label" => trace[1][j].values = trace[0][j].values
    BY <1>7, <1>9
  <2>2. program[j].kind \in {"equ", "org", "space"} => trace[1][j].values = trace[0][j].values
    BY <1>7, <1>9, <1>11
  <2>3. QED
    BY <1>9, <2>1, <2>2
<1>13. QED
  BY <1>4, <1>12

-----------------------------------------------------------------------------
(* The invariant of the symbols *)

LEMMA SymbolsInit ==
    ASSUME Init
    PROVE  SymbolInv
<1>1. /\ pass = 0 /\ at = 1 /\ pc.curr = 0 /\ status = "running" /\ DOMAIN table = {}
      /\ \A p \in 0 .. 1 : DOMAIN trace[p] = {}
  BY DEF Init, ScopesInit
<1>2. DefinedSoFar = {} /\ Labels = {}
  BY <1>1 DEF DefinedSoFar, Labels
<1>3. TableHasDefinitions /\ DefinitionsAreUnique
  BY <1>1, <1>2 DEF TableHasDefinitions, DefinitionsAreUnique
<1>4. SymbolsHaveLastValues
  BY <1>1 DEF SymbolsHaveLastValues
<1>5. LinesReadLastValues
  BY <1>1 DEF LinesReadLastValues
<1>6. LinesFollow
  <2>1. Reached(pass, at) = 0
    BY <1>1 DEF Reached
  <2>2. QED
    BY <1>1, <2>1 DEF LinesFollow
<1>7. LinesAreFaultless
  BY <1>1 DEF LinesAreFaultless
<1>8. QED
  BY <1>3, <1>4, <1>5, <1>6, <1>7 DEF SymbolInv

LEMMA SymbolsRest ==
    ASSUME SymbolInv, UNCHANGED asmVars
    PROVE  SymbolInv'
<1>1. /\ program' = program /\ pass' = pass /\ at' = at /\ trace' = trace /\ table' = table
      /\ children' = children /\ pc' = pc /\ status' = status /\ curr_scope_node' = curr_scope_node
  BY DEF asmVars, scopeVars
<1>2. \A i : Scope(i)' = Scope(i)
  BY <1>1 DEF Scope
<1>3. \A n, name : find(n, name)' = find(n, name)
  BY <1>1 DEF find, find_in_this_blklev
<1>4. \A d : Target(d)' = Target(d)
  <2>1. SUFFICES ASSUME NEW d
                 PROVE  Target(d)' = Target(d)
    OBVIOUS
  <2>2. PICK n : n = Scope(d)
    OBVIOUS
  <2>3. PICK name : name = program[d].name
    OBVIOUS
  <2>4. Scope(d)' = n
    BY <1>2, <2>2
  <2>5. Target(d)' = find(n, name)'
    BY <1>1, <2>3, <2>4, TargetThen
  <2>6. QED
    BY <1>3, <2>2, <2>3, <2>5 DEF Target
<1>5. \A d, i : /\ SetLast(d, i)' <=> SetLast(d, i)
                /\ SetsFromBelow(d, i)' <=> SetsFromBelow(d, i)
  BY <1>1, <1>4 DEF SetLast, SetsFromBelow, IsDefinition
<1>6. \A p, i : Reached(p, i)' = Reached(p, i)
  BY <1>1 DEF Reached
<1>7. TableHasDefinitions'
  <2>1. \A d : Captured(d)' <=> Captured(d)
    BY <1>1, TextStays
  <2>2. Labels' = Labels /\ DefinedSoFar' = DefinedSoFar /\ \A d : SymbolOf(d)' = SymbolOf(d)
    BY <1>1, <1>2 DEF Labels, DefinedSoFar, SymbolOf, IsDefinition
  <2>3. TableHasDefinitions
    BY DEF SymbolInv
  <2>4. QED
    BY <1>1, <2>1, <2>2, <2>3 DEF TableHasDefinitions
<1>8. DefinitionsAreUnique'
  <2>1. \A d : Captured(d)' <=> Captured(d)
    BY <1>1, TextStays
  <2>2. DefinedSoFar' = DefinedSoFar /\ \A d : SymbolOf(d)' = SymbolOf(d)
    BY <1>1, <1>2 DEF DefinedSoFar, SymbolOf, IsDefinition
  <2>3. QED
    BY <2>1, <2>2 DEF DefinitionsAreUnique, SymbolInv
<1>9. SymbolsHaveLastValues'
  <2>1. \A d : /\ SetLast(d, at)' <=> SetLast(d, at)
               /\ SetsFromBelow(d, at)' <=> SetsFromBelow(d, at)
    <3>1. PICK i : i = at
      OBVIOUS
    <3>2. at' = i
      BY <1>1, <3>1
    <3>3. \A d : /\ SetLast(d, at)' <=> SetLast(d, i)'
                 /\ SetsFromBelow(d, at)' <=> SetsFromBelow(d, i)'
      BY <3>2, AtTheNextLine
    <3>4. QED
      BY <1>5, <3>1, <3>3
  <2>2. SymbolsHaveLastValues
    BY DEF SymbolInv
  <2>3. QED
    BY <1>1, <1>4, <2>1, <2>2 DEF SymbolsHaveLastValues
<1>10. LinesReadLastValues'
  <2>1. \A i, n : find(Scope(i), n)' = find(Scope(i), n)
    <3>1. \A i, m, n : Scope(i)' = m => find(Scope(i), n)' = find(m, n)'
      BY DEF find
    <3>2. QED
      BY <1>2, <1>3, <3>1
  <2>2. LinesReadLastValues
    BY DEF SymbolInv
  <2>3. QED
    BY <1>1, <1>4, <1>5, <2>1, <2>2 DEF LinesReadLastValues
<1>11. LinesFollow'
  <2>1. Reached(pass, at)' = Reached(pass, at)
    BY <1>1 DEF Reached
  <2>2. LinesFollow
    BY DEF SymbolInv
  <2>3. QED
    BY <1>1, <1>6, <2>1, <2>2 DEF LinesFollow
<1>12. LinesAreFaultless'
  <2>1. \A i, n : find(Scope(i), n)' = find(Scope(i), n)
    <3>1. \A i, m, n : Scope(i)' = m => find(Scope(i), n)' = find(m, n)'
      BY DEF find
    <3>2. QED
      BY <1>2, <1>3, <3>1
  <2>2. LinesAreFaultless /\ Labels' = Labels
    BY <1>1 DEF SymbolInv, Labels
  <2>3. QED
    BY <1>1, <2>1, <2>2, ZenonT(60) DEF LinesAreFaultless
<1>13. QED
  BY <1>7, <1>8, <1>9, <1>10, <1>11, <1>12 DEF SymbolInv

LEMMA SymbolsStep ==
    ASSUME WalkInv, SymbolInv, Next
    PROVE  SymbolInv'
<1>1. /\ TableHasDefinitions /\ DefinitionsAreUnique /\ SymbolsHaveLastValues
      /\ LinesReadLastValues /\ LinesFollow /\ LinesAreFaultless
  BY DEF SymbolInv
<1>2. TableHasDefinitions' /\ DefinitionsAreUnique'
  BY <1>1, TableKeepsDefinitions
<1>3. SymbolsHaveLastValues' /\ LinesReadLastValues'
  BY <1>1, SymbolsKeepLastValues, LinesStillRead
<1>4. LinesFollow' /\ LinesAreFaultless'
  BY <1>1, LinesStillFollow, LinesStayFaultless
<1>5. QED
  BY <1>2, <1>3, <1>4 DEF SymbolInv

LEMMA SymbolsStepOrNone ==
    ASSUME WalkInv, SymbolInv, [Next]_asmVars
    PROVE  SymbolInv'
  BY SymbolsStep, SymbolsRest

-----------------------------------------------------------------------------
(* What the passes promise to the text *)

\* Where the second pass has finished, it has met every line.
LEMMA DoneIs ==
    ASSUME WalkInv, SymbolInv, status = "done"
    PROVE  /\ pass = 1 /\ DOMAIN trace[1] = DOMAIN program /\ Seen = Len(program)
           /\ DOMAIN program = 1 .. Len(program) /\ Len(program) \in Nat
           /\ DefinedSoFar = {d \in DOMAIN program : IsDefinition(d)}
           /\ \A i \in DOMAIN program : \A n \in Mentions(program[i]) : find(Scope(i), n) \in Labels
           /\ \A i \in DOMAIN program :
                 /\ \A k \in DOMAIN program[i].exprs : \A t \in DOMAIN program[i].exprs[k] :
                        program[i].exprs[k][t][1] # "binary literal"
                 /\ ~DividesByZero("%", program[i], trace[1][i].addr, trace[1][i].syms)
                 /\ ~DividesByZero("/", program[i], trace[1][i].addr, trace[1][i].syms)
<1>1. Len(trace[1]) = Len(program) /\ pass = 1
  BY DEF SymbolInv, LinesAreFaultless
<1>2. /\ Len(program) \in Nat /\ DOMAIN program = 1 .. Len(program) /\ pass \in 0 .. 1
      /\ DOMAIN trace[1] = 1 .. Len(trace[1]) /\ DOMAIN trace[0] = 1 .. Len(trace[0])
      /\ pass = 0 => Len(trace[1]) = 0 /\ Len(trace[0]) = at - 1 /\ Seen = at
      /\ pass = 1 => Len(trace[0]) = Len(program) /\ Seen = Len(program)
  BY VisitsAre DEF WalkInv
<1>3. DOMAIN trace[1] = DOMAIN program
  BY <1>1, <1>2
<1>4. DefinedSoFar = {d \in DOMAIN program : IsDefinition(d)}
  BY <1>1, <1>2 DEF DefinedSoFar
<1>5. ASSUME NEW i \in DOMAIN program
      PROVE  /\ \A n \in Mentions(program[i]) : find(Scope(i), n) \in Labels
             /\ \A k \in DOMAIN program[i].exprs : \A t \in DOMAIN program[i].exprs[k] :
                    program[i].exprs[k][t][1] # "binary literal"
             /\ ~DividesByZero("%", program[i], trace[1][i].addr, trace[1][i].syms)
             /\ ~DividesByZero("/", program[i], trace[1][i].addr, trace[1][i].syms)
  <2>1. i \in DOMAIN trace[1] /\ 1 \in 0 .. 1 /\ LinesAreFaultless
    BY <1>3 DEF SymbolInv
  <2>2. QED
    BY <2>1, Zenon DEF LinesAreFaultless
<1>6. QED
  BY <1>1, <1>2, <1>3, <1>4, <1>5

LEMMA ReferencesAre ==
    ASSUME WalkInv, SymbolInv
    PROVE  ReferencesResolveLexically
<1>1. SUFFICES ASSUME status = "done", LayoutKnown,
                      NEW i \in DOMAIN program, NEW n \in Mentions(program[i]), Uncaptured(n)
               PROVE  trace[1][i].syms[n] = trace[1][Meaning(i, n)].values[1]
  BY DEF ReferencesResolveLexically
<1>2. /\ pass = 1 /\ DOMAIN trace[1] = DOMAIN program
      /\ DOMAIN program = 1 .. Len(program) /\ Len(program) \in Nat
      /\ DefinedSoFar = {d \in DOMAIN program : IsDefinition(d)}
      /\ find(Scope(i), n) \in Labels
  BY <1>1, DoneIs
<1>3. TableHasDefinitions /\ DefinitionsAreUnique /\ LinesReadLastValues
  BY DEF SymbolInv
\* The name leads to the definition that it means.
<1>4. PICK m \in Visible(i, n) : m = Meaning(i, n) /\ find(Scope(i), n) = SymbolOf(m)
  BY <1>1, <1>2, <1>3, NameLeadsToDefinition
<1>5. m \in DefinedSoFar /\ m \in 1 .. Len(program) /\ program[m].name = n
  BY <1>2, <1>4, VisibleIs
<1>6. \A d \in DefinedSoFar : program[d].name = n => ~Captured(d) /\ Target(d) = SymbolOf(d)
  BY <1>1, <1>2, <1>3, TargetIsOwn DEF Uncaptured, Definitions
<1>7. Target(m) = find(Scope(i), n)
  BY <1>4, <1>5, <1>6
\* Nothing else sets its symbol: neither a definition of the name nor one of another.
<1>8. \A e \in DOMAIN program : IsDefinition(e) /\ e # m => Target(e) # Target(m)
  <2>1. \A e \in DefinedSoFar : e # m /\ program[e].name = n => SymbolOf(e) # SymbolOf(m)
    BY <1>3, <1>5, <1>6 DEF DefinitionsAreUnique
  <2>2. \A e \in DefinedSoFar : program[e].name # n => Target(e) # Target(m)
    <3>1. SUFFICES ASSUME NEW e \in DefinedSoFar, program[e].name # n, Target(e) = Target(m)
                   PROVE  FALSE
      OBVIOUS
    <3>2. PICK c \in DefinedSoFar : program[c].name = program[e].name /\ SymbolOf(c) = Target(e)
      BY <1>3, TargetHasName
    <3>3. /\ SymbolOf(c) = <<Scope(c), program[c].name>> /\ SymbolOf(m) = <<Scope(m), program[m].name>>
      BY DEF SymbolOf
    <3>4. <<Scope(c), program[c].name>> = <<Scope(m), program[m].name>>
      BY <1>5, <1>6, <3>1, <3>2, <3>3
    <3>5. QED
      BY <1>5, <3>1, <3>2, <3>4
  <2>3. QED
    BY <1>2, <1>5, <1>6, <2>1, <2>2
<1>9. IsDefinition(m)
  BY <1>2, <1>5
<1>10. CASE m < i
  <2>1. m \in 1 .. i - 1
    BY <1>2, <1>5, <1>10
  <2>2. \A e \in m + 1 .. i - 1 : e \in DOMAIN program /\ e # m
    BY <1>2, <1>5
  <2>3. SetLast(m, i)
    BY <1>8, <1>9, <2>1, <2>2 DEF SetLast
  <2>4. trace[1][i].syms[n] = trace[1][m].values[1]
    <3>1. 1 \in 0 .. 1 /\ i \in DOMAIN trace[1]
      BY <1>2
    <3>2. QED
      BY <1>3, <1>7, <2>1, <2>3, <3>1, Zenon DEF LinesReadLastValues
  <2>5. QED
    BY <1>4, <2>4
<1>11. CASE ~(m < i)
  <2>1. m \in 1 .. (Len(program) + 1) - 1
    BY <1>2, <1>5
  <2>2. \A e \in m + 1 .. (Len(program) + 1) - 1 : e \in DOMAIN program /\ e # m
    BY <1>2, <1>5
  <2>3. SetLast(m, Len(program) + 1)
    BY <1>8, <1>9, <2>1, <2>2 DEF SetLast
  <2>4. \A e \in 1 .. i - 1 : e \in DOMAIN program /\ e # m
    BY <1>2, <1>5, <1>11
  <2>5. SetsFromBelow(m, i)
    BY <1>8, <2>3, <2>4 DEF SetsFromBelow
  <2>6. trace[1][i].syms[n] = trace[0][m].values[1]
    <3>1. i \in DOMAIN trace[1] /\ m \in DOMAIN program
      BY <1>2, <1>5
    <3>2. QED
      BY <1>3, <1>7, <2>5, <3>1, Zenon DEF LinesReadLastValues
  <2>7. trace[1][m].values = trace[0][m].values
    <3>1. m \in DOMAIN trace[1] /\ program[m].kind \in {"label", "equ", "org", "space"}
      BY <1>2, <1>5, <1>9 DEF IsDefinition
    <3>2. QED
      BY <1>1, <3>1, LayoutAgrees
  <2>8. QED
    BY <1>4, <2>6, <2>7
<1>12. QED
  BY <1>10, <1>11

-----------------------------------------------------------------------------
(* Which programs are refused *)

\* An earlier block that a line is in, another line between them is in as well.
LEMMA EnclosedBetween ==
    ASSUME NEW d \in Nat, NEW f \in Nat, f <= d, NEW b \in Enclosing(d), b = 0 \/ b < f
    PROVE  b \in Enclosing(f)
<1>1. CASE b = 0
  BY <1>1 DEF Enclosing
<1>2. CASE b # 0
  <2>1. /\ b \in 1 .. d - 1 /\ program[b].kind = "open"
        /\ \A j \in b .. d - 1 : Count("open", b, j) > Count("close", b, j)
    BY <1>2 DEF Enclosing
  <2>2. b \in 1 .. f - 1 /\ \A j \in b .. f - 1 : j \in b .. d - 1
    BY <1>2, <2>1
  <2>3. QED
    BY <2>1, <2>2 DEF Enclosing
<1>3. QED
  BY <1>1, <1>2

\* The second of two definitions in one block is captured only if the first one is.
LEMMA CapturedTogether ==
    ASSUME WalkInv, Seen = Len(program),
           NEW d \in DOMAIN program, NEW e \in DOMAIN program,
           IsDefinition(d), IsDefinition(e), e < d, Block(e) = Block(d),
           program[e].name = program[d].name, Captured(d)
    PROVE  Captured(e)
<1>1. PICK f \in Definitions(program[d].name) : f < d /\ Block(f) \in Enclosing(d) \ {Block(d)}
  BY DEF Captured
<1>2. /\ DOMAIN program = 1 .. Len(program) /\ Len(program) \in Nat
      /\ f \in DOMAIN program
  BY <1>1, VisitsAre DEF WalkInv, Definitions
<1>3. /\ d \in 1 .. Seen /\ e \in 1 .. Seen /\ f \in 1 .. Seen
      /\ d \in Nat \ {0} /\ e \in Nat \ {0} /\ f \in Nat \ {0}
  BY <1>2
<1>4. \A k \in 1 .. Seen : Block(k) = 0 \/ Block(k) \in 1 .. k - 1
  BY BlockIs
<1>5. CASE f < e
  <2>1. Scope(e) = Scope(d)
    <3>1. \A k \in 1 .. Seen : Block(k) = 0 => Scope(k) = FirstScope
      BY BlockIs
    <3>2. \A k \in 1 .. Seen : Block(k) # 0 => Entered(Block(k)) = Scope(k)
      BY BlockIs
    <3>3. QED
      BY <1>3, <3>1, <3>2
  <2>2. Block(f) \in Enclosing(e)
    BY <1>1, <1>3, <2>1, BlockEncloses
  <2>3. QED
    BY <1>1, <1>5, <2>2 DEF Captured
<1>6. CASE ~(f < e)
  <2>1. f # e
    BY <1>1
  <2>2. Block(d) = 0 \/ Block(d) < f
    <3>1. Block(e) = 0 \/ Block(e) \in 1 .. e - 1
      BY <1>3, <1>4
    <3>2. QED
      BY <1>3, <1>6, <3>1
  <2>3. Block(d) \in Enclosing(d) /\ Block(f) <= Block(d)
    BY <1>1, <1>3, BlockIsInnermost
  <2>4. Block(d) \in Enclosing(f)
    BY <1>1, <1>3, <2>2, <2>3, EnclosedBetween
  <2>5. Block(d) <= Block(f)
    BY <1>3, <2>4, BlockIsInnermost
  <2>6. Block(d) \in Nat /\ Block(f) \in Nat
    <3>1. /\ Block(d) = 0 \/ Block(d) \in 1 .. d - 1
          /\ Block(f) = 0 \/ Block(f) \in 1 .. f - 1
      BY <1>3, <1>4
    <3>2. QED
      BY <1>3, <3>1
  <2>7. Block(f) = Block(d)
    BY <2>3, <2>5, <2>6
  <2>8. QED
    BY <1>1, <2>7
<1>7. QED
  BY <1>5, <1>6

\* What has been assembled was no program to be refused.
LEMMA DoneIsFaultless ==
    ASSUME WalkInv, SymbolInv, status = "done"
    PROVE  /\ ~MustBeRefused
           /\ \A i \in DOMAIN program : \A op \in {"/", "%"} :
                  ~DividesByZero(op, program[i], trace[1][i].addr, trace[1][i].syms)
<1>1. /\ pass = 1 /\ Seen = Len(program) /\ TableHasDefinitions /\ DefinitionsAreUnique
      /\ DOMAIN program = 1 .. Len(program)
      /\ DefinedSoFar = {d \in DOMAIN program : IsDefinition(d)}
  BY DoneIs DEF SymbolInv
<1>2. ~HasNoDefinition
  <2>1. \A i \in DOMAIN program : \A n \in Mentions(program[i]) : Visible(i, n) # {}
    BY <1>1, DoneIs, NameLeadsToDefinition
  <2>2. QED
    BY <2>1 DEF HasNoDefinition
<1>3. ~HasTwoOfItsOwn
  <2>1. SUFFICES ASSUME NEW d \in Duplicates, NEW e \in Definitions(program[d].name),
                        e < d, Block(e) = Block(d), ~Captured(e)
                 PROVE  FALSE
    BY DEF HasTwoOfItsOwn
  <2>2. /\ d \in DOMAIN program /\ e \in DOMAIN program /\ IsDefinition(d) /\ IsDefinition(e)
        /\ program[e].name = program[d].name
    BY <2>1 DEF Duplicates, Definitions
  <2>3. ~Captured(d)
    BY <1>1, <2>1, <2>2, CapturedTogether
  <2>4. d \in 1 .. Seen /\ e \in 1 .. Seen /\ d \in Nat /\ e \in Nat
    BY <1>1, <2>2
  <2>5. Scope(e) = Scope(d)
    <3>1. \A k \in 1 .. Seen : Block(k) = 0 => Scope(k) = FirstScope
      BY BlockIs
    <3>2. \A k \in 1 .. Seen : Block(k) # 0 => Entered(Block(k)) = Scope(k)
      BY BlockIs
    <3>3. QED
      BY <2>1, <2>4, <3>1, <3>2
  <2>6. SymbolOf(e) = SymbolOf(d) /\ d \in DefinedSoFar /\ e \in DefinedSoFar
    BY <1>1, <2>2, <2>5 DEF SymbolOf
  <2>7. d = e
    BY <1>1, <2>1, <2>3, <2>6 DEF DefinitionsAreUnique
  <2>8. QED
    BY <2>1, <2>4, <2>7
<1>4. ~HasBinaryLiteral
  <2>1. \A i \in DOMAIN program : \A k \in DOMAIN program[i].exprs : \A t \in DOMAIN program[i].exprs[k] :
            program[i].exprs[k][t][1] # "binary literal"
    BY DoneIs
  <2>2. QED
    BY <2>1 DEF HasBinaryLiteral
<1>5. \A i \in DOMAIN program :
          /\ ~DividesByZero("%", program[i], trace[1][i].addr, trace[1][i].syms)
          /\ ~DividesByZero("/", program[i], trace[1][i].addr, trace[1][i].syms)
  BY DoneIs
<1>6. QED
  BY <1>2, <1>3, <1>4, <1>5 DEF MustBeRefused

\* What a name at a line is worth does not change when names of registers are inserted.
LEMMA WorthStays ==
    ASSUME NEW n \in Node, NEW names, UNCHANGED table \/ InsertMissing(n, names), NEW name,
           program' = program
    PROVE  SymbolIn(n, name)'.addr = SymbolIn(n, name).addr
<1>1. /\ DOMAIN table \subseteq DOMAIN table'
      /\ \A k \in DOMAIN table : table'[k] = table[k]
      /\ \A k \in DOMAIN table' \ DOMAIN table : table'[k] = NewSymbol
  BY DEF InsertMissing
<1>2. /\ find(n, name) = NotFound \/ find(n, name) \in DOMAIN table
      /\ find(n, name)' = NotFound \/ find(n, name)' \in DOMAIN table'
  BY FindIs, FindIsThen
<1>3. /\ find(n, name)' \in DOMAIN table => find(n, name)' = find(n, name)
      /\ find(n, name) # NotFound => find(n, name)' = find(n, name)
  <2>1. TableGrows
    <3>1. CASE UNCHANGED table
      BY <3>1 DEF TableGrows, Labels
    <3>2. CASE InsertMissing(n, names)
      BY <1>1, <3>2, NamesAreInserted DEF TableGrows
    <3>3. QED
      BY <3>1, <3>2
  <2>2. QED
    BY <2>1, FindStays
<1>4. SymbolIn(n, name)' = IF find(n, name)' = NotFound THEN NewSymbol ELSE table'[find(n, name)']
  BY DEF SymbolIn, NewSymbol, NotFound
<1>5. SymbolIn(n, name) = IF find(n, name) = NotFound THEN NewSymbol ELSE table[find(n, name)]
  BY DEF SymbolIn
<1>6. QED
  BY <1>1, <1>2, <1>3, <1>4, <1>5

\* Stopping at a zero is still seen in the state where the program has stopped.
LEMMA ZeroStaysInSight ==
    ASSUME WalkInv, LinesFollow, Next, Stopped, UNCHANGED curr_scope_node, NEW op,
           DividesByZero(op, program[at], pc.curr, Known)
    PROVE  StopsAtZero(op)'
<1>1. /\ UNCHANGED <<program, pass, at, trace>> /\ at \in 1 .. Len(program) /\ status = "running"
      /\ UNCHANGED table \/ \E names : InsertMissing(curr_scope_node, names)
  BY DEF Stopped
<1>2. /\ at \in DOMAIN program /\ at <= Len(program) /\ curr_scope_node \in Node
  <2>1. DOMAIN program = 1 .. Len(program) /\ Len(program) \in Nat
    BY TracedIs
  <2>2. QED
    BY <1>1, <2>1, CursorIs
<1>3. PICK n \in Node : n = curr_scope_node
  BY <1>2
<1>4. \A name : SymbolIn(n, name)'.addr = SymbolIn(n, name).addr
  <2>1. UNCHANGED table \/ \E names : InsertMissing(n, names)
    <3>1. SUFFICES ASSUME NEW names, InsertMissing(curr_scope_node, names)
                   PROVE  InsertMissing(n, names)
      BY <1>1
    <3>2. {FoundOrInserted(curr_scope_node, m) : m \in names} = {FoundOrInserted(n, m) : m \in names}
      BY <1>3
    <3>3. QED
      BY <3>1, <3>2 DEF InsertMissing
  <2>2. QED
    BY <1>1, <2>1, WorthStays
<1>5. Known' = Known
  <2>1. \A name : get_sym_address(name).val = SymbolIn(n, name).addr
    BY <1>3 DEF get_sym_address
  <2>2. \A name : get_sym_address(name)'.val = SymbolIn(n, name)'.addr
    <3>1. curr_scope_node' = n
      BY <1>3
    <3>2. QED
      BY <3>1 DEF get_sym_address, SymbolIn, find, NotFound, NewSymbol
  <2>3. Known' = [name \in Mentions(program[at]) |-> get_sym_address(name)'.val]
    BY <1>1 DEF Known
  <2>4. QED
    BY <1>4, <2>1, <2>2, <2>3 DEF Known
<1>6. Reached(pass, at)' = pc.curr
  <2>1. Reached(pass, at)' = Reached(pass, at)
    BY <1>1 DEF Reached
  <2>2. QED
    BY <1>1, <1>2, <2>1 DEF LinesFollow
<1>7. DividesByZero(op, program[at], Reached(pass, at), Known)'
        <=> DividesByZero(op, program[at], pc.curr, Known)
  <2>1. program'[at'] = program[at]
    BY <1>1
  <2>2. QED
    BY <1>5, <1>6, <2>1 DEF DividesByZero
<1>8. QED
  BY <1>1, <1>2, <1>7 DEF StopsAtZero

LEMMA BadProgramsStay ==
    ASSUME program' = program
    PROVE  Refusable' <=> Refusable
<1>1. /\ \A i : Block(i)' = Block(i) /\ Enclosing(i)' = Enclosing(i)
      /\ \A d : IsDefinition(d)' <=> IsDefinition(d)
      /\ \A d : Captured(d)' <=> Captured(d)
  BY TextStays
<1>2. \A name : Definitions(name)' = Definitions(name)
  BY <1>1 DEF Definitions
<1>3. \A i, name : Visible(i, name)' = Visible(i, name)
  BY <1>1, <1>2 DEF Visible
<1>4. HasNoDefinition' <=> HasNoDefinition
  BY <1>3 DEF HasNoDefinition
<1>5. Duplicates' = Duplicates
  BY <1>1, <1>2 DEF Duplicates
<1>6. HasTwoDefinitions' <=> HasTwoDefinitions
  BY <1>5 DEF HasTwoDefinitions
<1>7. HasBinaryLiteral' <=> HasBinaryLiteral
  BY DEF HasBinaryLiteral
<1>8. QED
  BY <1>4, <1>6, <1>7 DEF Refusable

\* A definition that the first pass finds made is the second of its block.
LEMMA DuplicateIsSecond ==
    ASSUME WalkInv, TableHasDefinitions, at \in 1 .. Len(program), LineIsDefinition,
           Duplicate(program[at].name)
    PROVE  HasTwoDefinitions
<1>1. /\ pass = 0 /\ <<curr_scope_node, program[at].name>> \in Labels
  BY DEF Duplicate, find_in_this_blklev, Labels
<1>2. /\ curr_scope_node = Scope(at) /\ at \in 1 .. Seen /\ at \in DOMAIN program
      /\ Len(trace[0]) = at - 1 /\ at \in Nat
  BY <1>1, CursorIs, TracedIs
<1>3. PICK c \in DefinedSoFar : ~Captured(c) /\ SymbolOf(c) = <<curr_scope_node, program[at].name>>
  BY <1>1, LabelIsOf
<1>4. /\ c \in 1 .. Len(trace[0]) /\ c \in DOMAIN program /\ IsDefinition(c) /\ c \in 1 .. Seen
      /\ Scope(c) \in Node /\ SymbolOf(c) = <<Scope(c), program[c].name>>
  BY DefinedIs
<1>5. Scope(c) = Scope(at) /\ program[c].name = program[at].name /\ c < at
  <2>1. <<Scope(c), program[c].name>> = <<curr_scope_node, program[at].name>>
    BY <1>3, <1>4
  <2>2. c < at
    BY <1>2, <1>4
  <2>3. QED
    BY <1>2, <2>1, <2>2
<1>6. Block(c) = Block(at)
  <2>1. IsPrefix(Scope(c), Scope(c))
    BY <1>4, PrefixOfItself
  <2>2. Block(c) <= Block(at) /\ Block(at) <= Block(c)
    BY <1>2, <1>4, <1>5, <2>1, BlocksByScope
  <2>3. Block(c) \in Nat /\ Block(at) \in Nat
    <3>1. /\ Block(c) = 0 \/ Block(c) \in 1 .. c - 1
          /\ Block(at) = 0 \/ Block(at) \in 1 .. at - 1
      BY <1>2, <1>4, BlockIs
    <3>2. QED
      BY <1>2, <1>4, <3>1
  <2>4. QED
    BY <2>2, <2>3
<1>7. at \in Duplicates /\ c \in Definitions(program[at].name)
  BY <1>2, <1>4, <1>5, <1>6 DEF Duplicates, Definitions, LineIsDefinition
<1>8. QED
  BY <1>7 DEF HasTwoDefinitions

LEMMA RefusalsStep ==
    ASSUME WalkInv, SymbolInv, Next
    PROVE  /\ status' = "err" => (Refusable \/ (pass = 1 /\ StopsAtZero("/")))'
           /\ status' = "crashed" => StopsAtZero("%")'
<1>1. TableHasDefinitions /\ LinesFollow
  BY DEF SymbolInv
<1>2. Refusable' <=> Refusable
  BY DefinitionsStay, BadProgramsStay
<1>3. SUFFICES ASSUME Stopped, status' \in {"err", "crashed"}
               PROVE  /\ status' = "err" => Refusable \/ (pass' = 1 /\ StopsAtZero("/")')
                      /\ status' = "crashed" => StopsAtZero("%")'
  <2>1. Passed \/ Stopped \/ Finish \/ NextPass
    BY LineStepIs DEF WalkInv
  <2>2. Passed \/ Finish \/ NextPass => status' \in {"running", "done"}
    BY StatusThen DEF Finish, NextPass
  <2>3. QED
    BY <1>2, <2>1, <2>2
<1>4. /\ at \in 1 .. Len(program) /\ at \in DOMAIN program /\ pass' = pass
  BY <1>3, TracedIs DEF Stopped
<1>5. CASE status' = LineFault /\ UNCHANGED curr_scope_node
  <2>1. CASE LineFault = "none"
    BY <1>3, <1>5, <2>1
  <2>2. CASE LineFault = "err" /\ \E n \in Mentions(program[at]) : NotKnown(n)
    <3>1. PICK n \in Mentions(program[at]) : NotKnown(n)
      BY <2>2
    <3>2. pass = 1 /\ find(Scope(at), n) \notin Labels
      BY <1>1, <1>4, <3>1, KnownIsLabel DEF NotKnown
    <3>3. Visible(at, n) = {}
      BY <1>1, <1>4, <3>2, NameLeadsToDefinition
    <3>4. HasNoDefinition
      BY <1>4, <3>1, <3>3 DEF HasNoDefinition
    <3>5. QED
      BY <1>5, <2>2, <3>4 DEF Refusable
  <2>3. CASE LineFault = "err" /\ HasBinaryLiteral
    BY <1>5, <2>3 DEF Refusable
  <2>4. CASE LineFault = "err" /\ pass = 1 /\ DividesByZero("/", program[at], pc.curr, Known)
    <3>1. StopsAtZero("/")'
      BY <1>1, <1>3, <1>5, <2>4, ZeroStaysInSight
    <3>2. QED
      BY <1>4, <1>5, <2>4, <3>1
  <2>5. CASE LineFault = "crashed" /\ DividesByZero("%", program[at], pc.curr, Known)
    <3>1. StopsAtZero("%")'
      BY <1>1, <1>3, <1>5, <2>5, ZeroStaysInSight
    <3>2. QED
      BY <1>5, <2>5, <3>1
  <2>6. QED
    BY <1>4, <2>1, <2>2, <2>3, <2>4, <2>5, FaultTells DEF WalkInv
<1>6. CASE status' = "err" /\ LineIsDefinition /\ Duplicate(program[at].name)
  <2>1. HasTwoDefinitions
    BY <1>1, <1>4, <1>6, DuplicateIsSecond
  <2>2. QED
    BY <1>6, <2>1 DEF Refusable
<1>7. QED
  BY <1>3, <1>5, <1>6 DEF Stopped

LEMMA RefusalsStay ==
    ASSUME UNCHANGED asmVars
    PROVE  /\ status' = status /\ pass' = pass
           /\ Refusable' <=> Refusable
           /\ \A op \in {"/", "%"} : StopsAtZero(op)' <=> StopsAtZero(op)
<1>1. /\ program' = program /\ pass' = pass /\ at' = at /\ trace' = trace /\ table' = table
      /\ status' = status /\ curr_scope_node' = curr_scope_node
  BY DEF asmVars, scopeVars
<1>2. Refusable' <=> Refusable
  BY <1>1, BadProgramsStay
<1>3. Known' = Known
  <2>1. \A n, name : find(n, name)' = find(n, name)
    BY <1>1 DEF find
  <2>2. \A name : get_sym_address(name)'.val = get_sym_address(name).val
    BY <1>1, <2>1 DEF get_sym_address, SymbolIn, NewSymbol, find
  <2>3. QED
    BY <1>1, <2>2 DEF Known
<1>4. Reached(pass, at)' = Reached(pass, at)
  BY <1>1 DEF Reached
<1>5. \A op \in {"/", "%"} : StopsAtZero(op)' <=> StopsAtZero(op)
  BY <1>1, <1>3, <1>4 DEF StopsAtZero, DividesByZero
<1>6. QED
  BY <1>1, <1>2, <1>5

\* Why the assembler has stopped, other than at the end.
StopsForReasons ==
    /\ status = "err" => Refusable \/ (pass = 1 /\ StopsAtZero("/"))
    /\ status = "crashed" => StopsAtZero("%")

LEMMA StopsStepOrNone ==
    ASSUME WalkInv, SymbolInv, StopsForReasons, [Next]_asmVars
    PROVE  StopsForReasons'
<1>1. CASE Next
  BY <1>1, RefusalsStep DEF StopsForReasons
<1>2. CASE UNCHANGED asmVars
  BY <1>2, RefusalsStay DEF StopsForReasons
<1>3. QED
  BY <1>1, <1>2

LEMMA RefusesAre ==
    ASSUME WalkInv, SymbolInv, StopsForReasons
    PROVE  RefusesExactlyBadPrograms
  BY DoneIsFaultless DEF StopsForReasons, RefusesExactlyBadPrograms

-----------------------------------------------------------------------------
(* Theorems on symbols *)

\* Between any two lines of either pass, the symbols found as labels are the definitions
\* met so far, each in the scope of its own line; a symbol is worth what its last
\* definition has given to it (visitLabel, visitDotEquDirective, find_or_insert).
THEOREM SymbolInvariant == Spec => []SymbolInv
<1>1. Init => WalkInv /\ SymbolInv
  BY WalkInit, SymbolsInit
<1>2. WalkInv /\ SymbolInv /\ [Next]_asmVars => (WalkInv /\ SymbolInv)'
  BY WalkStepOrNone, SymbolsStepOrNone
<1>3. QED
  BY <1>1, <1>2, PTL DEF Spec

LEMMA NamesAre ==
    ASSUME WalkInv, SymbolInv
    PROVE  NamesLeadToDefinitions
<1>1. TableHasDefinitions
  BY DEF SymbolInv
<1>2. QED
  BY <1>1, NameLeadsToDefinition DEF NamesLeadToDefinitions

LEMMA PassesAre ==
    ASSUME WalkInv, SymbolInv
    PROVE  PassesAgreeOnAddresses
  BY LayoutAgrees DEF PassesAgreeOnAddresses

\* Whatever name the second pass looks up at a line, the tree of scopes leads it to a
\* label if and only if a definition is visible there, and to the innermost definition
\* unless one of its name is captured (ScopedTableBase::find).
THEOREM NamesAreLexical == Spec => []NamesLeadToDefinitions
<1>1. WalkInv /\ SymbolInv => NamesLeadToDefinitions
  BY NamesAre
<1>2. QED
  BY <1>1, WalkInvariant, SymbolInvariant, PTL

\* For every program whose layout needs no symbol from below it, the second pass puts
\* each line at the address that the first pass has given to it (visitLabel,
\* get_sym_address).
THEOREM PassesAgree == Spec => []PassesAgreeOnAddresses
<1>1. WalkInv /\ SymbolInv => PassesAgreeOnAddresses
  BY PassesAre
<1>2. QED
  BY <1>1, WalkInvariant, SymbolInvariant, PTL

\* In such a program, each symbol that a line mentions has there the value that its
\* innermost definition has in the output, be that definition above or below the line,
\* unless a definition of its own name is captured (find, get_sym_address).
THEOREM ReferencesResolve == Spec => []ReferencesResolveLexically
<1>1. WalkInv /\ SymbolInv => ReferencesResolveLexically
  BY ReferencesAre
<1>2. QED
  BY <1>1, WalkInvariant, SymbolInvariant, PTL

\* For every program, the assembler stops with an error or is killed only for the reasons
\* that the text of the program gives, and assembles no program that gives one (err,
\* get_sym_address, visitExprAddSub).  Of two definitions in one block it is left open
\* whether they are such a reason if the first is captured (visitLabel).
THEOREM RefusesBadPrograms == Spec => []RefusesExactlyBadPrograms
<1>1. Init => StopsForReasons
  BY DEF Init, StopsForReasons
<1>2. WalkInv /\ SymbolInv /\ StopsForReasons /\ [Next]_asmVars => StopsForReasons'
  BY StopsStepOrNone
<1>3. WalkInv /\ SymbolInv /\ StopsForReasons => RefusesExactlyBadPrograms
  BY RefusesAre
<1>4. QED
  BY <1>1, <1>2, <1>3, WalkInvariant, SymbolInvariant, PTL DEF Spec

\* The other tools, which run after the assembler, leave all that alone.
THEOREM ToolchainAssemblesRight ==
    ToolchainSpec => [](/\ SymbolInv /\ NamesLeadToDefinitions /\ PassesAgreeOnAddresses
                        /\ ReferencesResolveLexically /\ RefusesExactlyBadPrograms)
<1>1. ToolchainInit => WalkInv /\ SymbolInv /\ StopsForReasons
  BY WalkInit, SymbolsInit DEF ToolchainInit, Init, StopsForReasons
<1>2. WalkInv /\ SymbolInv /\ StopsForReasons /\ [ToolchainNext]_toolVars
        => (WalkInv /\ SymbolInv /\ StopsForReasons)'
  BY ToolchainAssembles, WalkStepOrNone, SymbolsStepOrNone, StopsStepOrNone
<1>3. WalkInv /\ SymbolInv /\ StopsForReasons =>
        /\ SymbolInv /\ NamesLeadToDefinitions /\ PassesAgreeOnAddresses
        /\ ReferencesResolveLexically /\ RefusesExactlyBadPrograms
  BY NamesAre, PassesAre, ReferencesAre, RefusesAre
<1>4. QED
  BY <1>1, <1>2, <1>3, PTL DEF ToolchainSpec

-----------------------------------------------------------------------------
(* Instruction words *)

\* Numbers that agree in the bits of a signed field are the same there.
LEMMA SameSigned ==
    ASSUME NEW v \in Int, NEW w \in Int
    PROVE  /\ v % 4096 = w % 4096 => SignedField(v, 12) = SignedField(w, 12)
           /\ v % 1048576 = w % 1048576 => SignedField(v, 20) = SignedField(w, 20)
<1>1. ASSUME NEW u \in Int, NEW bits, bits = u % 4096
      PROVE  SignedField(u, 12) = IF bits >= 2048 THEN bits - 4096 ELSE bits
  BY <1>1 DEF SignedField
<1>2. ASSUME NEW u \in Int, NEW bits, bits = u % 1048576
      PROVE  SignedField(u, 20) = IF bits >= 524288 THEN bits - 1048576 ELSE bits
  BY <1>2 DEF SignedField
<1>3. ASSUME v % 4096 = w % 4096
      PROVE  SignedField(v, 12) = SignedField(w, 12)
  <2>1. PICK bits : bits = v % 4096 /\ bits = w % 4096
    BY <1>3
  <2>2. SignedField(v, 12) = IF bits >= 2048 THEN bits - 4096 ELSE bits
    BY <1>1, <2>1
  <2>3. SignedField(w, 12) = IF bits >= 2048 THEN bits - 4096 ELSE bits
    BY <1>1, <2>1
  <2>4. QED
    BY <2>2, <2>3
<1>4. ASSUME v % 1048576 = w % 1048576
      PROVE  SignedField(v, 20) = SignedField(w, 20)
  <2>1. PICK bits : bits = v % 1048576 /\ bits = w % 1048576
    BY <1>4
  <2>2. SignedField(v, 20) = IF bits >= 524288 THEN bits - 1048576 ELSE bits
    BY <1>2, <2>1
  <2>3. SignedField(w, 20) = IF bits >= 524288 THEN bits - 1048576 ELSE bits
    BY <1>2, <2>1
  <2>4. QED
    BY <2>2, <2>3
<1>5. QED
  BY <1>3, <1>4

\* The fields of the upper half of a word, and of the lower one.
HighFields(h, group, sv, a, b, c) ==
    /\ (h \div 8192) % 8 = group /\ (h \div 4096) % 2 = sv
    /\ (h \div 256) % 16 = a /\ (h \div 16) % 16 = b /\ h % 16 = c
LowFields(l, opcode, imm) == (l \div 4096) % 16 = opcode /\ l % 4096 = imm

LEMMA HighHalfIs ==
    ASSUME NEW group \in 0 .. 3, NEW sv \in 0 .. 1, NEW a \in Int, NEW b \in Int, NEW c \in Int,
           NEW h, h = HighHalf(group, sv, a, b, c)
    PROVE  h \in Nat /\ HighFields(h, group, sv, a % 16, b % 16, c % 16)
<1>1. Field(a, 4, 8) = 256 * (a % 16)
  BY DEF Field
<1>2. Field(b, 4, 4) = 16 * (b % 16)
  BY DEF Field
<1>3. Field(c, 4, 0) = c % 16
  BY DEF Field
<1>4. PICK x \in 0 .. 15, y \in 0 .. 15, z \in 0 .. 15 : x = a % 16 /\ y = b % 16 /\ z = c % 16
  OBVIOUS
<1>5. PICK q \in 0 .. 7 : q = (2 * group) + sv
  OBVIOUS
<1>6. h = (4096 * q) + (256 * x) + (16 * y) + z /\ h \in Int
  BY <1>1, <1>2, <1>3, <1>4, <1>5 DEF HighHalf
<1>7. h \in Nat /\ h < 65536
  <2>1. h < 65536
    BY <1>6
  <2>2. h >= 0
    BY <1>6
  <2>3. QED
    BY <1>6, <2>1, <2>2
<1>8. (h \div 8192) % 8 = group
  <2>1. h \div 8192 = group
    BY <1>5, <1>6
  <2>2. group % 8 = group
    OBVIOUS
  <2>3. QED
    BY <2>1, <2>2
<1>9. (h \div 4096) % 2 = sv
  <2>1. h \div 4096 = q
    BY <1>6
  <2>2. q % 2 = sv
    BY <1>5
  <2>3. QED
    BY <2>1, <2>2
<1>10. ASSUME NEW n \in Int, NEW k \in 0 .. 15
       PROVE  ((16 * n) + k) % 16 = k
  OBVIOUS
<1>11. (h \div 256) % 16 = x
  <2>1. h \div 256 = (16 * q) + x
    BY <1>6
  <2>2. QED
    BY <1>10, <2>1
<1>12. (h \div 16) % 16 = y
  <2>1. h \div 16 = (16 * ((16 * q) + x)) + y
    BY <1>6
  <2>2. (16 * q) + x \in Int
    OBVIOUS
  <2>3. QED
    BY <1>10, <2>1, <2>2
<1>13. h % 16 = z
  BY <1>6
<1>14. HighFields(h, group, sv, x, y, z)
  BY <1>8, <1>9, <1>11, <1>12, <1>13 DEF HighFields
<1>15. QED
  BY <1>4, <1>7, <1>14

LEMMA LowerHalf ==
    ASSUME NEW x \in 0 .. 15, NEW y \in Nat, y < 4096, NEW l \in Int, l = (4096 * x) + y
    PROVE  l \in Nat /\ l < 65536 /\ (l \div 4096) % 16 = x /\ l % 4096 = y
<1>1. l >= 0
  OBVIOUS
<1>2. l < 65536
  OBVIOUS
<1>3. l \div 4096 = x
  OBVIOUS
<1>4. l % 4096 = y
  OBVIOUS
<1>5. x % 16 = x
  OBVIOUS
<1>6. l \in Nat /\ l < 65536
  BY <1>1, <1>2
<1>7. QED
  BY <1>3, <1>4, <1>5, <1>6

\* In the groups 0, 2 and 3.
LEMMA LowHalfIs ==
    ASSUME NEW opcode \in Int, NEW imm \in Int, NEW l, l = Field(opcode, 4, 12) + Field(imm, 12, 0)
    PROVE  l \in Nat /\ LowFields(l, opcode % 16, imm % 4096)
<1>1. Field(opcode, 4, 12) = 4096 * (opcode % 16)
  BY DEF Field
<1>2. Field(imm, 12, 0) = imm % 4096
  BY DEF Field
<1>3. opcode % 16 \in 0 .. 15 /\ imm % 4096 \in Nat /\ imm % 4096 < 4096
  OBVIOUS
<1>4. l = (4096 * (opcode % 16)) + (imm % 4096)
  BY <1>1, <1>2
<1>5. l \in Int
  BY <1>4
<1>6. PICK x \in 0 .. 15, y \in Nat : x = opcode % 16 /\ y = imm % 4096 /\ y < 4096
  BY <1>3
<1>7. l = (4096 * x) + y
  BY <1>4, <1>6
<1>8. l \in Nat /\ l < 65536 /\ (l \div 4096) % 16 = x /\ l % 4096 = y
  BY <1>5, <1>6, <1>7, LowerHalf
<1>9. LowFields(l, x, y)
  BY <1>8 DEF LowFields
<1>10. QED
  BY <1>6, <1>8, <1>9

\* The two parts of a 20-bit immediate are put together again.
LEMMA ImmediateIsWhole ==
    ASSUME NEW imm \in Int, NEW high \in Int, high = (imm \div 65536) % 16
    PROVE  (high * 65536 + (imm % 65536)) % 1048576 = imm % 1048576
  OBVIOUS


LEMMA BitsOfWord ==
    ASSUME NEW h \in Int, NEW l \in Int, NEW w, w[1] = h /\ w[2] = l,
           NEW group, NEW sv, NEW a, NEW b, NEW c, HighFields(h, group, sv, a, b, c),
           NEW opcode, NEW imm, LowFields(l, opcode, imm)
    PROVE  /\ get_bits_with_range(w[1], 15, 13) = group
           /\ get_bits_with_range(w[1], 12, 12) = sv
           /\ get_bits_with_range(w[1], 11, 8) = a
           /\ get_bits_with_range(w[1], 7, 4) = b
           /\ get_bits_with_range(w[1], 3, 0) = c
           /\ get_bits_with_range(w[2], 15, 12) = opcode
<1>1. get_bits_with_range(h, 15, 13) = group
  BY DEF get_bits_with_range, HighFields
<1>2. get_bits_with_range(h, 12, 12) = sv
  BY DEF get_bits_with_range, HighFields
<1>3. get_bits_with_range(h, 11, 8) = a
  BY DEF get_bits_with_range, HighFields
<1>4. get_bits_with_range(h, 7, 4) = b
  BY DEF get_bits_with_range, HighFields
<1>5. get_bits_with_range(h, 3, 0) = c
  BY DEF get_bits_with_range, HighFields
<1>6. get_bits_with_range(l, 15, 12) = opcode
  BY DEF get_bits_with_range, LowFields
<1>7. QED
  BY <1>1, <1>2, <1>3, <1>4, <1>5, <1>6

\* What the CPU reads in a word.
Reads(d, group, sv, a, b, c) ==
    /\ d.group = group /\ d.op_type = sv
    /\ d.ra_index = a /\ d.rb_index = b /\ d.rc_index = c
Means(d, g) == d.oper = g.oper /\ d.nop = g.nop /\ d.signext_imm = g.signext_imm

LEMMA CpuReads ==
    ASSUME NEW h \in Int, NEW l \in Int, NEW w, w[1] = h /\ w[2] = l,
           NEW group, NEW sv, NEW a, NEW b, NEW c, HighFields(h, group, sv, a, b, c),
           NEW opcode, NEW imm, LowFields(l, opcode, imm)
    PROVE  /\ Reads(Decoded(w), group, sv, a, b, c)
           /\ Means(Decoded(w), ByGroup(w, group))
<1> DEFINE d == Decoded(w)
           g == ByGroup(w, group)
<1>1. /\ get_bits_with_range(w[1], 15, 13) = group
      /\ get_bits_with_range(w[1], 12, 12) = sv
      /\ get_bits_with_range(w[1], 11, 8) = a
      /\ get_bits_with_range(w[1], 7, 4) = b
      /\ get_bits_with_range(w[1], 3, 0) = c
  BY BitsOfWord
<1>2. d.group = group /\ d.op_type = sv
  BY <1>1 DEF Decoded
<1>3. d.ra_index = a /\ d.rb_index = b /\ d.rc_index = c
  BY <1>1 DEF Decoded
<1>4. d.oper = g.oper
  BY <1>1 DEF Decoded
<1>5. d.nop = g.nop
  BY <1>1 DEF Decoded
<1>6. d.signext_imm = g.signext_imm
  BY <1>1 DEF Decoded
<1>7. QED
  BY <1>2, <1>3, <1>4, <1>5, <1>6 DEF Reads, Means

LEMMA GroupReads ==
    ASSUME NEW h \in Int, NEW l \in Int, NEW w, w[1] = h /\ w[2] = l,
           NEW group, NEW sv, NEW a, NEW b, NEW c \in Int, HighFields(h, group, sv, a, b, c),
           NEW oper, NEW imm, LowFields(l, oper, imm)
    PROVE  /\ ByGroup(w, 0)
                = GroupOut(Named(Iog0Oper, oper), oper = 15, SignedField(l, 12), "None")
           /\ ByGroup(w, 1)
                = GroupOut(Named(Iog1Oper, b), b \notin 0 .. 2,
                           SignedField((c * 65536) + l, 20), "EndsInEx")
           /\ ByGroup(w, 2)
                = GroupOut(Named(Iog2Oper, oper), oper # 8 /\ HighOper(oper),
                           SignedField(l, 12), "EndsInWb")
           /\ ByGroup(w, 3)
                = GroupOut(Named(Iog3Oper, oper), oper # 8 /\ HighOper(oper),
                           SignedField(l, 12), "EndsInWb")
<1>1. /\ get_bits_with_range(w[1], 7, 4) = b
      /\ get_bits_with_range(w[1], 3, 0) = c
      /\ get_bits_with_range(w[2], 15, 12) = oper
  BY BitsOfWord
<1>2. get_bits_with_range(w[1], 3, 0) * 2^16 + w[2] = (c * 65536) + l
  <2>1. 2^16 = 65536
    OBVIOUS
  <2>2. QED
    BY <1>1, <2>1
<1>3. ByGroup(w, 0) = GroupOut(Named(Iog0Oper, oper), oper = 15, SignedField(l, 12), "None")
  BY <1>1 DEF ByGroup
<1>4. ByGroup(w, 1) = GroupOut(Named(Iog1Oper, b), b \notin 0 .. 2,
                               SignedField((c * 65536) + l, 20), "EndsInEx")
  BY <1>1, <1>2 DEF ByGroup
<1>5. ByGroup(w, 2) = GroupOut(Named(Iog2Oper, oper), oper # 8 /\ HighOper(oper),
                               SignedField(l, 12), "EndsInWb")
  BY <1>1 DEF ByGroup
<1>6. ByGroup(w, 3) = GroupOut(Named(Iog3Oper, oper), oper # 8 /\ HighOper(oper),
                               SignedField(l, 12), "EndsInWb")
  BY <1>1 DEF ByGroup
<1>7. QED
  BY <1>3, <1>4, <1>5, <1>6

\* The opcodes of loads and stores that are bad.
LEMMA BadOpcode ==
    ASSUME NEW oper \in 0 .. 15
    PROVE  (oper # 8 /\ HighOper(oper)) <=> oper > 8
<1>1. get_bits_with_range(oper, 3, 3) = (oper \div 8) % 2
  BY DEF get_bits_with_range
<1>2. (oper \div 8) % 2 = 1 <=> oper >= 8
  <2>1. \A n \in 0 .. 7 : n \div 8 = 0
    OBVIOUS
  <2>2. \A n \in 8 .. 15 : n \div 8 = 1
    OBVIOUS
  <2>3. 0 % 2 = 0 /\ 1 % 2 = 1
    OBVIOUS
  <2>4. oper \in 0 .. 7 \/ oper \in 8 .. 15
    OBVIOUS
  <2>5. QED
    BY <2>1, <2>2, <2>3, <2>4
<1>3. HighOper(oper) <=> oper >= 8
  BY <1>1, <1>2 DEF HighOper
<1>4. QED
  BY <1>3

LEMMA SignedFieldIsWhole ==
    ASSUME NEW imm \in Int
    PROVE  /\ -2048 <= imm /\ imm < 2048 => SignedField(imm, 12) = imm
           /\ -524288 <= imm /\ imm < 524288 => SignedField(imm, 20) = imm
<1>1. SignedField(imm, 12) = IF imm % 4096 >= 2048 THEN (imm % 4096) - 4096 ELSE imm % 4096
  BY DEF SignedField
<1>2. SignedField(imm, 20)
        = IF imm % 1048576 >= 524288 THEN (imm % 1048576) - 1048576 ELSE imm % 1048576
  BY DEF SignedField
<1>3. -2048 <= imm /\ imm < 2048 => imm % 4096 = IF imm >= 0 THEN imm ELSE imm + 4096
  OBVIOUS
<1>4. -524288 <= imm /\ imm < 524288 => imm % 1048576 = IF imm >= 0 THEN imm ELSE imm + 1048576
  OBVIOUS
<1>5. -2048 <= imm /\ imm < 2048 => SignedField(imm, 12) = imm
  BY <1>1, <1>3
<1>6. -524288 <= imm /\ imm < 524288 => SignedField(imm, 20) = imm
  BY <1>2, <1>4
<1>7. QED
  BY <1>5, <1>6


\* The lower half of a word of the groups 0, 2 and 3, and the two halves of one
\* of group 1, keep the bits of the immediate.
LEMMA ShortImmediate ==
    ASSUME NEW l \in Int, NEW opcode, NEW imm \in Int, LowFields(l, opcode, imm % 4096)
    PROVE  SignedField(l, 12) = SignedField(imm, 12)
<1>1. l % 4096 = imm % 4096
  BY DEF LowFields
<1>2. QED
  BY <1>1, SameSigned

UpperBits(imm) == (imm \div 65536) % 16
LowerBits(imm) == imm % 65536

LEMMA LongImmediate ==
    ASSUME NEW imm \in Int
    PROVE  /\ UpperBits(imm) \in 0 .. 15 /\ LowerBits(imm) \in Nat
           /\ SignedField((UpperBits(imm) * 65536) + LowerBits(imm), 20) = SignedField(imm, 20)
<1>1. PICK high, l : high = UpperBits(imm) /\ l = LowerBits(imm)
  OBVIOUS
<1>2. high = (imm \div 65536) % 16
  BY <1>1 DEF UpperBits
<1>3. l = imm % 65536
  BY <1>1 DEF LowerBits
<1>4. high \in 0 .. 15
  BY <1>2
<1>5. l \in Nat
  BY <1>3
<1>6. ((high * 65536) + l) % 1048576 = imm % 1048576
  BY <1>2, <1>3, <1>4, ImmediateIsWhole
<1>7. (high * 65536) + l \in Int
  BY <1>4, <1>5
<1>8. SignedField((high * 65536) + l, 20) = SignedField(imm, 20)
  BY <1>6, <1>7, SameSigned
<1>9. QED
  BY <1>1, <1>4, <1>5, <1>8

LEMMA HalvesOf ==
    ASSUME NEW group \in 0 .. 3, NEW sv \in 0 .. 1, NEW a \in Int, NEW b \in Int, NEW c \in Int,
           NEW opcode \in Int, NEW imm \in Int, NEW w,
           w = <<HighHalf(group, sv, a, b, c), Field(opcode, 4, 12) + Field(imm, 12, 0)>>
    PROVE  /\ w[1] \in Int /\ HighFields(w[1], group, sv, a % 16, b % 16, c % 16)
           /\ w[2] \in Int /\ LowFields(w[2], opcode % 16, imm % 4096)
<1>1. PICK h, l : h = HighHalf(group, sv, a, b, c) /\ l = Field(opcode, 4, 12) + Field(imm, 12, 0)
  OBVIOUS
<1>2. w[1] = h /\ w[2] = l
  BY <1>1
<1>3. h \in Nat /\ HighFields(h, group, sv, a % 16, b % 16, c % 16)
  BY <1>1, HighHalfIs, Zenon
<1>4. l \in Nat /\ LowFields(l, opcode % 16, imm % 4096)
  BY <1>1, LowHalfIs
<1>5. h \in Int /\ l \in Int
  BY <1>3, <1>4
<1>6. QED
  BY <1>2, <1>3, <1>4, <1>5

LEMMA HalvesOfGroup1 ==
    ASSUME NEW a \in Int, NEW opcode \in Int, NEW imm \in Int, NEW w,
           w = encode_group_1_instr(a, opcode, imm)
    PROVE  /\ w[1] \in Int /\ HighFields(w[1], 1, 0, a % 16, opcode % 16, UpperBits(imm))
           /\ w[2] \in Int /\ w[2] = LowerBits(imm)
           /\ \E low, rest : LowFields(w[2], low, rest)
<1>1. PICK high \in 0 .. 15 : high = UpperBits(imm)
  BY LongImmediate
<1>2. get_bits_with_range(imm, 19, 16) = high
  BY <1>1 DEF get_bits_with_range, UpperBits
<1>3. high % 16 = high /\ high \in Int
  OBVIOUS
<1>4. imm % 2^16 = LowerBits(imm)
  BY DEF LowerBits
<1>5. PICK h, l : h = HighHalf(1, 0, a, opcode, high) /\ l = LowerBits(imm)
  OBVIOUS
<1>6. w = <<h, l>>
  BY <1>2, <1>4, <1>5 DEF encode_group_1_instr
<1>7. w[1] = h /\ w[2] = l
  BY <1>6
<1>8. l \in Int
  BY <1>5, LongImmediate
<1>9. 1 \in 0 .. 3 /\ 0 \in 0 .. 1
  OBVIOUS
<1>10. h \in Nat /\ HighFields(h, 1, 0, a % 16, opcode % 16, high % 16)
  BY <1>3, <1>5, <1>9, HighHalfIs, Zenon
<1>11. h \in Int /\ HighFields(h, 1, 0, a % 16, opcode % 16, high)
  BY <1>3, <1>10
<1>12. \E low, rest : LowFields(l, low, rest)
  BY DEF LowFields
<1>13. QED
  BY <1>1, <1>5, <1>7, <1>8, <1>11, <1>12

\* The CPU takes a word for this operation on these operands; for none if it is bad.
IsRead(w, group, sv, a, b, c, oper, bad, imm) ==
    LET d == Decoded(w)
    IN  /\ d.group = group /\ d.op_type = sv
        /\ d.ra_index = a /\ d.rb_index = b /\ d.rc_index = c
        /\ d.oper = oper /\ (d.nop <=> bad) /\ d.signext_imm = imm

LEMMA GroupOutIs ==
    ASSUME NEW o, NEW n, NEW s, NEW t
    PROVE  /\ GroupOut(o, n, s, t).oper = o /\ GroupOut(o, n, s, t).nop = n
           /\ GroupOut(o, n, s, t).signext_imm = s
  BY DEF GroupOut

LEMMA IsReadFrom ==
    ASSUME NEW w, NEW group, NEW sv, NEW a, NEW b, NEW c, Reads(Decoded(w), group, sv, a, b, c),
           NEW o, NEW n, NEW s, NEW t, ByGroup(w, group) = GroupOut(o, n, s, t),
           Means(Decoded(w), ByGroup(w, group)), NEW bad, n <=> bad
    PROVE  IsRead(w, group, sv, a, b, c, o, bad, s)
<1>1. /\ ByGroup(w, group).oper = o /\ ByGroup(w, group).nop = n
      /\ ByGroup(w, group).signext_imm = s
  BY GroupOutIs
<1>2. /\ Decoded(w).oper = o /\ Decoded(w).nop = n /\ Decoded(w).signext_imm = s
  BY <1>1, Zenon DEF Means
<1>3. Decoded(w).nop <=> bad
  BY <1>2, Zenon
<1>4. QED
  BY <1>2, <1>3, Zenon DEF IsRead, Reads

\* Whatever the assembler writes for an operation, the CPU reads: the group, the
\* registers, the operation of the opcode and the immediate, for every number that
\* it may be given; numbers too large lose their upper bits and nothing else.
THEOREM CpuReadsWhatIsWritten ==
    ASSUME NEW sv \in 0 .. 1, NEW a \in Int, NEW b \in Int, NEW c \in Int,
           NEW opcode \in Int, NEW imm \in Int
    PROVE  /\ IsRead(encode_group_0_instr(sv, a, b, c, opcode, imm), 0, sv, a % 16, b % 16, c % 16,
                     Named(Iog0Oper, opcode % 16), opcode % 16 = 15, SignedField(imm, 12))
           /\ IsRead(encode_group_1_instr(a, opcode, imm), 1, 0, a % 16, opcode % 16,
                     UpperBits(imm),
                     Named(Iog1Oper, opcode % 16), opcode % 16 > 2, SignedField(imm, 20))
           /\ IsRead(encode_group_2_instr(a, b, c, opcode, imm), 2, 0, a % 16, b % 16, c % 16,
                     Named(Iog2Oper, opcode % 16), opcode % 16 > 8, SignedField(imm, 12))
           /\ IsRead(encode_group_3_instr(a, b, c, opcode, imm), 3, 0, a % 16, b % 16, c % 16,
                     Named(Iog3Oper, opcode % 16), opcode % 16 > 8, SignedField(imm, 12))
           /\ -2048 <= imm /\ imm < 2048 => SignedField(imm, 12) = imm
           /\ -524288 <= imm /\ imm < 524288 => SignedField(imm, 20) = imm
<1>1. PICK oper \in 0 .. 15, x \in 0 .. 15, y \in 0 .. 15, z \in 0 .. 15 :
          oper = opcode % 16 /\ x = a % 16 /\ y = b % 16 /\ z = c % 16
  <2>1. ASSUME NEW n \in Int PROVE \E v \in 0 .. 15 : v = n % 16
    OBVIOUS
  <2>2. QED
    BY <2>1, Zenon
<1>2. x \in Int /\ y \in Int /\ z \in Int
  OBVIOUS
<1>3. ASSUME NEW group \in {0, 2, 3}, NEW s \in 0 .. 1, NEW w,
             w = <<HighHalf(group, s, a, b, c), Field(opcode, 4, 12) + Field(imm, 12, 0)>>
      PROVE  /\ w[1] \in Int /\ HighFields(w[1], group, s, x, y, z)
             /\ w[2] \in Int /\ LowFields(w[2], oper, imm % 4096)
             /\ Reads(Decoded(w), group, s, x, y, z) /\ Means(Decoded(w), ByGroup(w, group))
             /\ SignedField(w[2], 12) = SignedField(imm, 12)
  <2>1. group \in 0 .. 3
    OBVIOUS
  <2>2. /\ w[1] \in Int /\ HighFields(w[1], group, s, x, y, z)
        /\ w[2] \in Int /\ LowFields(w[2], oper, imm % 4096)
    <3>1. /\ w[1] \in Int /\ HighFields(w[1], group, s, a % 16, b % 16, c % 16)
          /\ w[2] \in Int /\ LowFields(w[2], opcode % 16, imm % 4096)
      BY <1>3, <2>1, HalvesOf, SMTT(30)
    <3>2. QED
      BY <1>1, <3>1
  <2>3. Reads(Decoded(w), group, s, x, y, z) /\ Means(Decoded(w), ByGroup(w, group))
    BY <2>2, CpuReads
  <2>4. SignedField(w[2], 12) = SignedField(imm, 12)
    BY <2>2, ShortImmediate
  <2>5. QED
    BY <2>2, <2>3, <2>4
<1>4. IsRead(encode_group_0_instr(sv, a, b, c, opcode, imm), 0, sv, x, y, z,
             Named(Iog0Oper, oper), oper = 15, SignedField(imm, 12))
  <2>1. PICK w : w = encode_group_0_instr(sv, a, b, c, opcode, imm)
    OBVIOUS
  <2>2. w = <<HighHalf(0, sv, a, b, c), Field(opcode, 4, 12) + Field(imm, 12, 0)>>
    BY <2>1 DEF encode_group_0_instr
  <2>3. /\ w[1] \in Int /\ HighFields(w[1], 0, sv, x, y, z)
        /\ w[2] \in Int /\ LowFields(w[2], oper, imm % 4096)
        /\ Reads(Decoded(w), 0, sv, x, y, z) /\ Means(Decoded(w), ByGroup(w, 0))
        /\ SignedField(w[2], 12) = SignedField(imm, 12)
    BY <1>3, <2>2
  <2>4. ByGroup(w, 0) = GroupOut(Named(Iog0Oper, oper), oper = 15, SignedField(imm, 12), "None")
    BY <1>2, <2>3, GroupReads
  <2>5. (oper = 15) <=> (oper = 15)
    OBVIOUS
  <2>6. QED
    BY <2>1, <2>3, <2>4, <2>5, IsReadFrom
<1>5. IsRead(encode_group_1_instr(a, opcode, imm), 1, 0, x, oper, UpperBits(imm),
             Named(Iog1Oper, oper), oper > 2, SignedField(imm, 20))
  <2>1. PICK w : w = encode_group_1_instr(a, opcode, imm)
    OBVIOUS
  <2>2. PICK high \in 0 .. 15 : high = UpperBits(imm)
    BY LongImmediate
  <2>3. /\ w[1] \in Int /\ HighFields(w[1], 1, 0, x, oper, high)
        /\ w[2] \in Int /\ w[2] = LowerBits(imm)
        /\ \E low, rest : LowFields(w[2], low, rest)
    <3>1. /\ w[1] \in Int /\ HighFields(w[1], 1, 0, a % 16, opcode % 16, UpperBits(imm))
          /\ w[2] \in Int /\ w[2] = LowerBits(imm)
          /\ \E low, rest : LowFields(w[2], low, rest)
      BY <2>1, HalvesOfGroup1, ZenonT(60)
    <3>2. QED
      BY <1>1, <2>2, <3>1
  <2>4. Reads(Decoded(w), 1, 0, x, oper, high) /\ Means(Decoded(w), ByGroup(w, 1))
    BY <2>3, CpuReads
  <2>5. SignedField((high * 65536) + w[2], 20) = SignedField(imm, 20)
    BY <2>2, <2>3, LongImmediate
  <2>6. ByGroup(w, 1) = GroupOut(Named(Iog1Oper, oper), oper \notin 0 .. 2,
                                 SignedField((high * 65536) + w[2], 20), "EndsInEx")
    <3>1. high \in Int
      BY <2>2
    <3>2. QED
      BY <2>3, <3>1, GroupReads
  <2>7. (oper \notin 0 .. 2) <=> (oper > 2)
    OBVIOUS
  <2>8. QED
    BY <2>1, <2>2, <2>4, <2>5, <2>6, <2>7, IsReadFrom
<1>6. IsRead(encode_group_2_instr(a, b, c, opcode, imm), 2, 0, x, y, z,
             Named(Iog2Oper, oper), oper > 8, SignedField(imm, 12))
  <2>1. PICK w : w = encode_group_2_instr(a, b, c, opcode, imm)
    OBVIOUS
  <2>2. w = <<HighHalf(2, 0, a, b, c), Field(opcode, 4, 12) + Field(imm, 12, 0)>>
    BY <2>1 DEF encode_group_2_instr
  <2>3. /\ w[1] \in Int /\ HighFields(w[1], 2, 0, x, y, z)
        /\ w[2] \in Int /\ LowFields(w[2], oper, imm % 4096)
        /\ Reads(Decoded(w), 2, 0, x, y, z) /\ Means(Decoded(w), ByGroup(w, 2))
        /\ SignedField(w[2], 12) = SignedField(imm, 12)
    BY <1>3, <2>2
  <2>4. ByGroup(w, 2) = GroupOut(Named(Iog2Oper, oper), oper # 8 /\ HighOper(oper),
                                 SignedField(imm, 12), "EndsInWb")
    BY <1>2, <2>3, GroupReads
  <2>5. (oper # 8 /\ HighOper(oper)) <=> (oper > 8)
    BY BadOpcode
  <2>6. QED
    BY <2>1, <2>3, <2>4, <2>5, IsReadFrom
<1>7. IsRead(encode_group_3_instr(a, b, c, opcode, imm), 3, 0, x, y, z,
             Named(Iog3Oper, oper), oper > 8, SignedField(imm, 12))
  <2>1. PICK w : w = encode_group_3_instr(a, b, c, opcode, imm)
    OBVIOUS
  <2>2. w = <<HighHalf(3, 0, a, b, c), Field(opcode, 4, 12) + Field(imm, 12, 0)>>
    BY <2>1 DEF encode_group_3_instr
  <2>3. /\ w[1] \in Int /\ HighFields(w[1], 3, 0, x, y, z)
        /\ w[2] \in Int /\ LowFields(w[2], oper, imm % 4096)
        /\ Reads(Decoded(w), 3, 0, x, y, z) /\ Means(Decoded(w), ByGroup(w, 3))
        /\ SignedField(w[2], 12) = SignedField(imm, 12)
    BY <1>3, <2>2
  <2>4. ByGroup(w, 3) = GroupOut(Named(Iog3Oper, oper), oper # 8 /\ HighOper(oper),
                                 SignedField(imm, 12), "EndsInWb")
    BY <1>2, <2>3, GroupReads
  <2>5. (oper # 8 /\ HighOper(oper)) <=> (oper > 8)
    BY BadOpcode
  <2>6. QED
    BY <2>1, <2>3, <2>4, <2>5, IsReadFrom
<1>8. QED
  BY <1>1, <1>4, <1>5, <1>6, <1>7, SignedFieldIsWhole

\* And so does the disassembler, with the group first.
THEOREM DisassemblerReadsWhatIsWritten ==
    ASSUME NEW sv \in 0 .. 1, NEW a \in Int, NEW b \in Int, NEW c \in Int,
           NEW opcode \in Int, NEW imm \in Int
    PROVE  LET Regs(x, y, z) == [a |-> x % 16, b |-> y % 16, c |-> z % 16]
               ReadInstr(regs, bits) == [regs |-> regs, opcode |-> opcode % 16,
                                     simm |-> SignedField(imm, bits)]
               group0 == encode_group_0_instr(sv, a, b, c, opcode, imm)
               group1 == encode_group_1_instr(a, opcode, imm)
               group2 == encode_group_2_instr(a, b, c, opcode, imm)
               group3 == encode_group_3_instr(a, b, c, opcode, imm)
           IN  /\ decode_iog(group0) = 0 /\ decode_iog(group1) = 1
               /\ decode_iog(group2) = 2 /\ decode_iog(group3) = 3
               /\ decode_group_0_instr(group0)
                    = [sv_bit |-> sv # 0, regs |-> Regs(a, b, c), opcode |-> opcode % 16,
                       simm |-> SignedField(imm, 12)]
               /\ decode_group_1_instr(group1) = ReadInstr(Regs(a, 0, 0), 20)
               /\ decode_group_2_instr(group2) = ReadInstr(Regs(a, b, c), 12)
               /\ decode_group_3_instr(group3) = ReadInstr(Regs(a, b, c), 12)
<1> DEFINE Regs(x, y, z) == [a |-> x, b |-> y, c |-> z]
           ReadInstr(regs, opc, simm) == [regs |-> regs, opcode |-> opc, simm |-> simm]
<1>1. PICK oper \in 0 .. 15, x \in 0 .. 15, y \in 0 .. 15, z \in 0 .. 15 :
          oper = opcode % 16 /\ x = a % 16 /\ y = b % 16 /\ z = c % 16
  <2>1. ASSUME NEW n \in Int PROVE \E v \in 0 .. 15 : v = n % 16
    OBVIOUS
  <2>2. QED
    BY <2>1, Zenon
<1>2. ASSUME NEW group \in {0, 2, 3}, NEW s \in 0 .. 1, NEW w,
             w = <<HighHalf(group, s, a, b, c), Field(opcode, 4, 12) + Field(imm, 12, 0)>>
      PROVE  /\ decode_iog(w) = group /\ get_bits_with_range(w[1], 12, 12) = s
             /\ DecodeRegs(w) = Regs(x, y, z) /\ get_bits_with_range(w[2], 15, 12) = oper
             /\ SignedField(w[2], 12) = SignedField(imm, 12)
  <2>1. group \in 0 .. 3
    OBVIOUS
  <2>2. /\ w[1] \in Int /\ HighFields(w[1], group, s, x, y, z)
        /\ w[2] \in Int /\ LowFields(w[2], oper, imm % 4096)
    <3>1. /\ w[1] \in Int /\ HighFields(w[1], group, s, a % 16, b % 16, c % 16)
          /\ w[2] \in Int /\ LowFields(w[2], opcode % 16, imm % 4096)
      BY <1>2, <2>1, HalvesOf, SMTT(30)
    <3>2. QED
      BY <1>1, <3>1
  <2>3. SignedField(w[2], 12) = SignedField(imm, 12)
    BY <2>2, ShortImmediate
  <2>4. /\ get_bits_with_range(w[1], 15, 13) = group
        /\ get_bits_with_range(w[1], 12, 12) = s
        /\ get_bits_with_range(w[1], 11, 8) = x
        /\ get_bits_with_range(w[1], 7, 4) = y
        /\ get_bits_with_range(w[1], 3, 0) = z
        /\ get_bits_with_range(w[2], 15, 12) = oper
    BY <2>2, BitsOfWord
  <2>5. QED
    BY <2>3, <2>4 DEF decode_iog, DecodeRegs
<1>3. /\ decode_iog(encode_group_0_instr(sv, a, b, c, opcode, imm)) = 0
      /\ decode_group_0_instr(encode_group_0_instr(sv, a, b, c, opcode, imm))
            = [sv_bit |-> sv # 0, regs |-> Regs(x, y, z), opcode |-> oper,
               simm |-> SignedField(imm, 12)]
  <2>1. PICK w : w = encode_group_0_instr(sv, a, b, c, opcode, imm)
    OBVIOUS
  <2>2. w = <<HighHalf(0, sv, a, b, c), Field(opcode, 4, 12) + Field(imm, 12, 0)>>
    BY <2>1 DEF encode_group_0_instr
  <2>3. /\ decode_iog(w) = 0 /\ get_bits_with_range(w[1], 12, 12) = sv
        /\ DecodeRegs(w) = Regs(x, y, z) /\ get_bits_with_range(w[2], 15, 12) = oper
        /\ SignedField(w[2], 12) = SignedField(imm, 12)
    BY <1>2, <2>2
  <2>4. decode_group_0_instr(w) = [sv_bit |-> sv # 0, regs |-> Regs(x, y, z), opcode |-> oper,
                                   simm |-> SignedField(imm, 12)]
    BY <2>3 DEF decode_group_0_instr
  <2>5. QED
    BY <2>1, <2>3, <2>4
<1>4. /\ decode_iog(encode_group_1_instr(a, opcode, imm)) = 1
      /\ decode_group_1_instr(encode_group_1_instr(a, opcode, imm))
            = ReadInstr(Regs(x, 0, 0), oper, SignedField(imm, 20))
  <2>1. PICK w : w = encode_group_1_instr(a, opcode, imm)
    OBVIOUS
  <2>2. PICK high \in 0 .. 15 : high = UpperBits(imm)
    BY LongImmediate
  <2>3. /\ w[1] \in Int /\ HighFields(w[1], 1, 0, x, oper, high)
        /\ w[2] \in Int /\ w[2] = LowerBits(imm)
        /\ \E low, rest : LowFields(w[2], low, rest)
    <3>1. /\ w[1] \in Int /\ HighFields(w[1], 1, 0, a % 16, opcode % 16, UpperBits(imm))
          /\ w[2] \in Int /\ w[2] = LowerBits(imm)
          /\ \E low, rest : LowFields(w[2], low, rest)
      BY <2>1, HalvesOfGroup1, ZenonT(40)
    <3>2. QED
      BY <1>1, <2>2, <3>1
  <2>4. /\ get_bits_with_range(w[1], 15, 13) = 1
        /\ get_bits_with_range(w[1], 11, 8) = x
        /\ get_bits_with_range(w[1], 7, 4) = oper
        /\ get_bits_with_range(w[1], 3, 0) = high
    BY <2>3, BitsOfWord
  <2>5. w[1] % 16 = high
    BY <2>3 DEF HighFields
  <2>6. SignedField((w[1] % 16) * 2^16 + w[2], 20) = SignedField(imm, 20)
    <3>1. 2^16 = 65536
      OBVIOUS
    <3>2. (w[1] % 16) * 2^16 + w[2] = (UpperBits(imm) * 65536) + LowerBits(imm)
      BY <2>2, <2>3, <2>5, <3>1
    <3>3. QED
      BY <3>2, LongImmediate
  <2>7. [DecodeRegs(w) EXCEPT !.b = 0, !.c = 0] = Regs(x, 0, 0)
    <3>1. DecodeRegs(w) = Regs(x, oper, high)
      BY <2>4 DEF DecodeRegs
    <3>2. PICK all, one : all = DecodeRegs(w) /\ one = [all EXCEPT !.b = 0]
      OBVIOUS
    <3>3. one = [a |-> x, b |-> 0, c |-> high]
      BY <3>1, <3>2
    <3>4. [one EXCEPT !.c = 0] = [a |-> x, b |-> 0, c |-> 0]
      BY <3>3
    <3>5. [all EXCEPT !.b = 0, !.c = 0] = [one EXCEPT !.c = 0]
      BY <3>2
    <3>6. QED
      BY <3>2, <3>4, <3>5, Zenon
  <2>8. decode_group_1_instr(w) = ReadInstr(Regs(x, 0, 0), oper, SignedField(imm, 20))
    BY <2>4, <2>6, <2>7 DEF decode_group_1_instr
  <2>9. decode_iog(w) = 1
    BY <2>4 DEF decode_iog
  <2>10. QED
    BY <2>1, <2>8, <2>9
<1>5. /\ decode_iog(encode_group_2_instr(a, b, c, opcode, imm)) = 2
      /\ decode_group_2_instr(encode_group_2_instr(a, b, c, opcode, imm))
            = ReadInstr(Regs(x, y, z), oper, SignedField(imm, 12))
  <2>1. PICK w : w = encode_group_2_instr(a, b, c, opcode, imm)
    OBVIOUS
  <2>2. w = <<HighHalf(2, 0, a, b, c), Field(opcode, 4, 12) + Field(imm, 12, 0)>>
    BY <2>1 DEF encode_group_2_instr
  <2>3. /\ decode_iog(w) = 2
        /\ DecodeRegs(w) = Regs(x, y, z) /\ get_bits_with_range(w[2], 15, 12) = oper
        /\ SignedField(w[2], 12) = SignedField(imm, 12)
    BY <1>2, <2>2
  <2>4. decode_group_2_instr(w) = ReadInstr(Regs(x, y, z), oper, SignedField(imm, 12))
    BY <2>3 DEF decode_group_2_instr
  <2>5. QED
    BY <2>1, <2>3, <2>4
<1>6. /\ decode_iog(encode_group_3_instr(a, b, c, opcode, imm)) = 3
      /\ decode_group_3_instr(encode_group_3_instr(a, b, c, opcode, imm))
            = ReadInstr(Regs(x, y, z), oper, SignedField(imm, 12))
  <2>1. PICK w : w = encode_group_3_instr(a, b, c, opcode, imm)
    OBVIOUS
  <2>2. w = <<HighHalf(3, 0, a, b, c), Field(opcode, 4, 12) + Field(imm, 12, 0)>>
    BY <2>1 DEF encode_group_3_instr
  <2>3. /\ decode_iog(w) = 3
        /\ DecodeRegs(w) = Regs(x, y, z) /\ get_bits_with_range(w[2], 15, 12) = oper
        /\ SignedField(w[2], 12) = SignedField(imm, 12)
    BY <1>2, <2>2
  <2>4. decode_group_3_instr(w) = ReadInstr(Regs(x, y, z), oper, SignedField(imm, 12))
    BY <2>3 DEF decode_group_3_instr, decode_group_2_instr
  <2>5. QED
    BY <2>1, <2>3, <2>4
<1>7. 0 % 16 = 0
  OBVIOUS
<1>8. QED
  BY <1>1, <1>3, <1>4, <1>5, <1>6, <1>7
=============================================================================
