--------------------------------- MODULE Bits ---------------------------------
(***************************************************************************)
(* The helpers on bit fields and the integer arithmetic that the assembler  *)
(* and the disassembler use.  A 64-bit number is an integer; a 32-bit word  *)
(* is the pair <<high half, low half>>, because TLC counts to 2^31.         *)
(***************************************************************************)
EXTENDS Integers

\* Bits hi..lo of v, in two's complement for v < 0.
get_bits_with_range(v, hi, lo) == (v \div 2^lo) % 2^(hi - lo + 1)

clear_bits_with_range(v, hi, lo) == v - get_bits_with_range(v, hi, lo) * 2^lo

\* x in bits hi..lo of v, cut to their width.
clear_and_set_bits(v, x, hi, lo) ==
    clear_bits_with_range(v, hi, lo) + (x % 2^(hi - lo + 1)) * 2^lo

\* What a signed bit field of w bits makes of v.
SignedField(v, w) ==
    LET bits == v % 2^w IN IF bits >= 2^(w - 1) THEN bits - 2^w ELSE bits

\* The k-th 16-bit piece of a 64-bit number: 0 is the lowest, 2 and 3 hold
\* nothing but the sign of a number that TLC can count to.
Half(v, k) == IF k < 2 THEN (v \div 2^(16 * k)) % 2^16 ELSE IF v < 0 THEN 2^16 - 1 ELSE 0

LowWord(v) == <<Half(v, 1), Half(v, 0)>>
HighWord(v) == <<Half(v, 3), Half(v, 2)>>

\* Byte k of a word, 0 being the lowest.
ByteOf(word, k) == (word[2 - k \div 2] \div 2^(8 * (k % 2))) % 2^8

-----------------------------------------------------------------------------
(* C++ arithmetic on s64; no instance reaches 2^63. *)

Truth(b) == IF b THEN 1 ELSE 0

Magnitude(x) == IF x < 0 THEN -x ELSE x
\* Division and remainder round towards zero.
Quotient(x, y) ==
    LET q == Magnitude(x) \div Magnitude(y) IN IF (x < 0) # (y < 0) THEN -q ELSE q
Remainder(x, y) == x - y * Quotient(x, y)

AndNat[x \in Nat, y \in Nat] ==
    IF x = 0 \/ y = 0 THEN 0 ELSE 2 * AndNat[x \div 2, y \div 2] + (x % 2) * (y % 2)
Invert(x) == -x - 1
\* x | y = x + y - (x & y), and a negative number is the inverse of a natural one.
BitAnd(x, y) ==
    CASE x >= 0 /\ y >= 0 -> AndNat[x, y]
      [] x < 0 /\ y >= 0 -> y - AndNat[Invert(x), y]
      [] x >= 0 /\ y < 0 -> x - AndNat[x, Invert(y)]
      [] OTHER -> Invert(Invert(x) + Invert(y) - AndNat[Invert(x), Invert(y)])
BitOr(x, y) == x + y - BitAnd(x, y)
BitXor(x, y) == BitOr(x, y) - BitAnd(x, y)

\* 2^n is out of TLC's reach from n = 31; shifting that far leaves the sign.
ArithShiftRight(x, n) == IF n > 30 THEN (IF x < 0 THEN -1 ELSE 0) ELSE x \div 2^n
\* As ">>" on u64: zeros come in from the left of a negative number.
LogicalShiftRight(x, n) ==
    ArithShiftRight(x, n) + (IF x < 0 /\ n > 0 THEN 2^(64 - n) ELSE 0)
=============================================================================
