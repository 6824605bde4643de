------------------------------- MODULE UnitData -------------------------------
(***************************************************************************)
(* The data in the units of the execute stage, reduced to what it is worth   *)
(* to the instruction that is in the stage: nothing was computed since        *)
(* power-up ("none"), it was computed for an earlier instruction ("other"),    *)
(* for this one but not to the end ("part"), or it is this one's ("whole").    *)
(***************************************************************************)

\* The last step of a computation.
Finished(datum) == IF datum = "part" THEN "whole" ELSE datum

\* Once an instruction has left the stage its data is of no worth to the next.
Aged(datum) == IF datum = "none" THEN datum ELSE "other"
=============================================================================
