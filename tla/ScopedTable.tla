----------------------------- MODULE ScopedTable -----------------------------
(***************************************************************************)
(* The assembler's symbol table: a tree of scopes with one table of symbols *)
(* in each.  Nodes are only ever added, as last children, so a node is the  *)
(* sequence of child numbers that leads to it; the code's pointers to       *)
(* parents and children are these sequences made shorter and longer.        *)
(***************************************************************************)
EXTENDS Naturals, Sequences

VARIABLES
    children,   \* how many children each node has
    table       \* from a node and a name to the symbol inserted there

scopeVars == <<children, table>>

tree == <<>>
\* The constructor makes the scope of the whole program.
FirstScope == <<0>>

ScopesInit ==
    /\ children = [n \in {tree, FirstScope} |-> IF n = tree THEN 1 ELSE 0]
    /\ table = [k \in {} |-> 0]

Parent(node) == SubSeq(node, 1, Len(node) - 1)

NewChild(node) == Append(node, children[node])
mkscope(node) ==
    children' = [n \in DOMAIN children \cup {NewChild(node)} |->
                    CASE n = NewChild(node) -> 0
                      [] n = node -> children[n] + 1
                      [] OTHER -> children[n]]

\* Never called on the tree itself, where the code stops with an error.
rmscope(node) == Parent(node)

\* The code's children.at throws beyond the last child.
HasChild(node, number) == number < children[node]

NotFound == <<>>
\* Mutant: the outermost symbol of that name.
find_Outermost(node, name) ==
    LET having == {n \in 1 .. Len(node) : <<SubSeq(node, 1, n), name>> \in DOMAIN table}
    IN  IF having = {} THEN NotFound
        ELSE <<SubSeq(node, 1, CHOOSE n \in having : \A m \in having : n <= m), name>>
\* The innermost symbol of that name in the node and its parents, the tree
\* itself excepted.
find(node, name) ==
    LET having == {n \in 1 .. Len(node) : <<SubSeq(node, 1, n), name>> \in DOMAIN table}
    IN  IF having = {} THEN NotFound
        ELSE <<SubSeq(node, 1, CHOOSE n \in having : \A m \in having : m <= n), name>>

find_in_this_blklev(node, name) ==
    IF <<node, name>> \in DOMAIN table THEN <<node, name>> ELSE NotFound

NewSymbol == [addr |-> 0, found_as_label |-> FALSE]

\* The symbol that find_or_insert returns: one of an outer scope if there is one.
FoundOrInserted(node, name) ==
    IF find(node, name) = NotFound THEN <<node, name>> ELSE find(node, name)

\* find_or_insert, and what is then assigned to the symbol.
SetSymbol(node, name, symbol) ==
    LET at == FoundOrInserted(node, name) IN
    table' = [k \in DOMAIN table \cup {at} |-> IF k = at THEN symbol ELSE table[k]]

\* find_or_insert for a set of names, whose symbols are left as they are.
InsertMissing(node, names) ==
    table' = [k \in DOMAIN table \cup {FoundOrInserted(node, n) : n \in names} |->
                IF k \in DOMAIN table THEN table[k] ELSE NewSymbol]
=============================================================================
