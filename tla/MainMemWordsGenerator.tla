------------------------ MODULE MainMemWordsGenerator ------------------------
(***************************************************************************)
(* The generator of the image of the main memory: its words of eight 32-bit  *)
(* elements, and the text for $readmemh that they are printed as.            *)
(***************************************************************************)
EXTENDS Bits, DisassemblerGrammar, FiniteSets

VARIABLES
    input,              \* the lines that the parser has read
    input_at,           \* the line to visit next
    curr_instr_addr,
    mem_words_map,      \* from the addresses of memory words to their elements
    printed,            \* the words printed so far, in order
    mem_word_addr       \* the address of the last word printed, at first 0

genVars == <<input, input_at, curr_instr_addr, mem_words_map, printed, mem_word_addr>>

GenInit ==
    /\ input = <<>>
    /\ input_at = 1
    /\ curr_instr_addr = 0
    /\ mem_words_map = [a \in {} |-> <<>>]
    /\ printed = <<>>
    /\ mem_word_addr = 0

NoMemWord == [k \in 0 .. 7 |-> <<0, 0>>]

\* A 32-bit element after data of the given number of digits is put into it.
\* A whole element is replaced wherever in the element the address points.
PutInto(element, digits, data, addr) ==
    LET half == 2 - get_bits_with_range(addr, 1, 1)
        low == 8 * get_bits_with_range(addr, 0, 0)
    IN  CASE digits = 8 -> data
          [] digits = 4 -> [element EXCEPT ![half] = data]
          [] digits = 2 -> [element EXCEPT ![half] = clear_and_set_bits(@, data, low + 7, low)]

gen(digits, data) ==
    LET addr == curr_instr_addr \div 2^5
        index == get_bits_with_range(curr_instr_addr, 4, 2)
        word == IF addr \in DOMAIN mem_words_map THEN mem_words_map[addr] ELSE NoMemWord
        changed == [word EXCEPT ![index] = PutInto(@, digits, data, curr_instr_addr)]
    IN  /\ mem_words_map' = [a \in DOMAIN mem_words_map \cup {addr} |->
                                IF a = addr THEN changed ELSE mem_words_map[a]]
        /\ curr_instr_addr' = curr_instr_addr + digits \div 2

VisitInput ==
    /\ input_at <= Len(input)
    /\ LET line == input[input_at] IN
       IF line[1] = "@"
       THEN curr_instr_addr' = convert_hex_string(line) /\ UNCHANGED mem_words_map
       ELSE gen(num_good_chars(line), convert_hex_string(line))
    /\ input_at' = input_at + 1
    /\ UNCHANGED <<input, printed, mem_word_addr>>

\* The map is printed in the order of the addresses; a word that does not
\* follow the last one is preceded by its address.
Unprinted == {a \in DOMAIN mem_words_map : a \notin {printed[k].addr : k \in DOMAIN printed}}
\* Mutant: the map has no order.
NextToPrint_Any == Unprinted
NextToPrint == {a \in Unprinted : \A b \in Unprinted : a <= b}

\* Mutant: a gap of one word is taken for none.
AddressIsPrinted_OverOneGap(addr) == mem_word_addr + 2 # addr
AddressIsPrinted(addr) == mem_word_addr + 1 # addr

PrintMemWord ==
    /\ input_at > Len(input)
    /\ \E addr \in NextToPrint :
        /\ printed' = Append(printed, [addr |-> addr, has_addr |-> AddressIsPrinted(addr),
                                       data |-> mem_words_map[addr]])
        /\ mem_word_addr' = addr
    /\ UNCHANGED <<input, input_at, curr_instr_addr, mem_words_map>>
=============================================================================
