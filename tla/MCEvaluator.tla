----------------------------- MODULE MCEvaluator -----------------------------
(***************************************************************************)
(* Instances of Evaluator for TLC.                                         *)
(***************************************************************************)
EXTENDS Evaluator

Volume(from, until, reference) ==
  [startsAt |-> from, endsAt |-> until, altitudeReference |-> reference]

Reading(inside, distance, deviation, reference) ==
  [inside |-> inside, distance |-> distance, deviation |-> deviation,
   altitudeReference |-> reference]

(* A gap in the plan at 2 and an overrun from 4 on.  Until 2 two volumes    *)
(* are active, far from each other.                                         *)
Corridor == <<Volume(0, 2, "msl"), Volume(0, 2, "msl"), Volume(3, 4, "msl")>>

Everywhere(x) == <<x, x, x>>

(* Inside; in the polygon of the first volume at the altitude of the        *)
(* second, and outside the third; inside without an altitude.               *)
CorridorReadings ==
  {Reading(Everywhere(TRUE), Everywhere(1), Everywhere(0), "msl"),
   Reading(<<TRUE, FALSE, FALSE>>, <<1, 3, 3>>, <<3, 0, 3>>, "msl"),
   Reading(Everywhere(TRUE), Everywhere(1), Everywhere(0), "unknown")}

(* The middle of a single wide volume, in its altitude band and above it.   *)
Wide == <<Volume(0, 2, "msl")>>
WideReadings == {Reading(<<TRUE>>, <<3>>, <<deviation>>, "msl") : deviation \in {0, 3}}
=============================================================================
