----------------------------- MODULE MCLarFile -----------------------------
(* Model checking LarFile with model values for addresses and lines.  Three    *)
(* addresses are interchangeable; the power-up address a0 is not.              *)
EXTENDS LarFile, TLC

CONSTANTS a0, a1, a2, a3, d0

Symmetry == Permutations({a1, a2, a3})
=============================================================================
