-------------------------------- MODULE Casters --------------------------------
(***************************************************************************)
(* Snow64PsExCastScalars and Snow64PsExCastVectors, which bring the operands *)
(* of an instruction to the type of its destination, with the units that      *)
(* cast between integers and BFloat16.  Casts between integers take no time.   *)
(* The code assigns the outputs of the units with blocking assignments at     *)
(* the clock edge; other modules see them through combinational blocks, so from  *)
(* the next edge on.                                                         *)
(***************************************************************************)
EXTENDS UnitData

VARIABLES
    cast_scalars,   \* state, out_valid, __captured_*_start_*, the cast units
    cast_vectors    \* state, out_valid

castVars == <<cast_scalars, cast_vectors>>

Dsrcs == {0, 1}
Ways == {"IntToBFloat16", "BFloat16ToInt"}
Units == Dsrcs \X Ways

NewUnits == [u \in Units |-> [state |-> "StIdle", data |-> "none"]]

CastersInit ==
    /\ cast_scalars = [state |-> "CastStNoWait", valid |-> FALSE, captured |-> {},
                       units |-> NewUnits]
    /\ cast_vectors = [state |-> "CastStNoWait", valid |-> FALSE]

\* Snow64BFloat16CastFromInt and Snow64BFloat16CastToInt.  A unit takes a start
\* only when it is idle, and keeps its result until the next.
NextUnit(u, unit, start) ==
    CASE unit.state = "StIdle" /\ start ->
            [state |-> IF u[2] = "IntToBFloat16" THEN "StFinishing" ELSE "StInner",
             data |-> "part"]
      [] unit.state = "StInner" -> [unit EXCEPT !.state = "StFinishing"]
      [] unit.state = "StFinishing" -> [state |-> "StIdle", data |-> Finished(unit.data)]
      [] OTHER -> unit
NextUnits(units, starting) == [u \in Units |-> NextUnit(u, units[u], u \in starting)]

\* The units that the casts of the two operands need.
Needing(casts) == {u \in Units : casts[u[1]] = u[2]}

-----------------------------------------------------------------------------
(* Scalars. *)

\* The wait ends when the output of a unit is not zero, and that is all of it,
\* can_accept_cmd and data included.  Only a unit that is at work can show
\* zero: by data that it has kept, or by the data that it casts to an integer,
\* which is then zero to the end.
ScalarsSeen(units, captured, nonzero) ==
    \E u \in captured :
        \/ units[u].state = "StIdle"
        \/ nonzero /\ units[u].state = (IF u[2] = "IntToBFloat16" THEN "StFinishing" ELSE "StInner")

NextCastScalars(cs, start, casts, nonzero) ==
    LET starting_any_cast == start /\ cs.state = "CastStNoWait"
        starting == IF starting_any_cast THEN Needing(casts) ELSE {}
        units == NextUnits(cs.units, starting)
        captured == IF starting_any_cast THEN starting ELSE cs.captured
    IN  CASE cs.state = "CastStNoWait" /\ starting = {} ->
                [cs EXCEPT !.valid = starting_any_cast, !.captured = captured, !.units = units]
          [] cs.state = "CastStNoWait" /\ starting # {} ->
                [state |-> "CastStWaitForBFloat16Caster", valid |-> FALSE,
                 captured |-> captured, units |-> units]
          [] cs.state = "CastStWaitForBFloat16Caster" ->
                IF ScalarsSeen(cs.units, cs.captured, nonzero)
                THEN [cs EXCEPT !.state = "CastStNoWait", !.valid = TRUE, !.units = units]
                ELSE [cs EXCEPT !.units = units]

\* What the stage gets for an operand while out_valid is set.
CastedScalar(k, cast) ==
    IF cast \in Ways THEN cast_scalars.units[<<k, cast>>].data ELSE "whole"

-----------------------------------------------------------------------------
(* Vectors. *)

\* Snow64ToOrFromBFloat16VectorCaster starts sixteen units for an operand and
\* collects their results, but in registers that it does not connect to its port:
\* valid is an X for ever, which no "if" of the build takes for true.
VectorCasterOutValid == FALSE

NextCastVectors(cv, start, casts) ==
    LET starting_any_cast == start /\ cv.state = "CastStNoWait"
        starting_bfloat16_cast == starting_any_cast /\ Needing(casts) # {}
    IN  CASE cv.state = "CastStNoWait" /\ ~starting_bfloat16_cast ->
                [cv EXCEPT !.valid = starting_any_cast]
          [] cv.state = "CastStNoWait" /\ starting_bfloat16_cast ->
                [valid |-> FALSE, state |-> "CastStWaitForBFloat16Caster"]
          [] cv.state = "CastStWaitForBFloat16Caster" ->
                IF VectorCasterOutValid THEN [valid |-> TRUE, state |-> "CastStNoWait"] ELSE cv

-----------------------------------------------------------------------------

AgedScalars(cs) == [cs EXCEPT !.units = [u \in Units |-> [cs.units[u] EXCEPT !.data = Aged(@)]]]

\* An edge; leaving is that the instruction in the stage leaves it.
CastersClock(start_scalars, start_vectors, casts, nonzero, leaving) ==
    LET cs == NextCastScalars(cast_scalars, start_scalars, casts, nonzero)
    IN  /\ cast_scalars' = IF leaving THEN AgedScalars(cs) ELSE cs
        /\ cast_vectors' = NextCastVectors(cast_vectors, start_vectors, casts)
=============================================================================
