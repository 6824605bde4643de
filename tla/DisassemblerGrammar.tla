------------------------- MODULE DisassemblerGrammar -------------------------
(***************************************************************************)
(* How the disassembler and the generator of memory words read the text that *)
(* the assembler prints.  A line of text is <<"@", address>> or <<"hex" with  *)
(* its number of digits, data>>.                                             *)
(***************************************************************************)
EXTENDS Naturals, Sequences

\* A hexadecimal number of the grammar has two digits or more, and addresses
\* are printed without leading zeros.
TooShort(text) == text[1] = "@" /\ text[2] < 16

\* The lexer passes over what it cannot read, up to the end of the line.
Lexed(output) == SelectSeq(output, LAMBDA text : ~TooShort(text))

\* convert_hex_string: the number of digits, and the number.
num_good_chars(text) ==
    CASE text[1] = "hex2" -> 2 [] text[1] = "hex4" -> 4 [] text[1] = "hex8" -> 8
convert_hex_string(text) == text[2]
=============================================================================
