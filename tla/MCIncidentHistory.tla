--------------------------- MODULE MCIncidentHistory ---------------------------
(***************************************************************************)
(* A small instance of IncidentHistory for TLC: five frames, two pairs of  *)
(* them at the same time, the last one of generation 2.                    *)
(***************************************************************************)
EXTENDS IncidentHistory

SomeFrameTimes == <<1, 2, 2, 3, 3>>
SomeFirstFrames == <<1, 5>>

(* The order of hashed identifiers is arbitrary; this one lists an opening  *)
(* before a resolution of the same time, against the order they happened    *)
(* in.                                                                      *)
SomeEventRank ==
  [id \in EventIDs |-> 20 * id[1] + 10 * (IF id[3] = "opened" THEN 1 ELSE 0) + ((3 * id[4]) % 7)]

Query(g, from, until) == [generation |-> g, from |-> from, until |-> until]

(* Everything; the events of generation 1 at time 2; and an empty interval. *)
SomeQueries == {Query(0, 0, 9), Query(1, 2, 3), Query(0, 2, 2)}

(* The default, one row, and the sizes next to the two bounds.              *)
SomePageSizes == {-1, 0, 1, 3}
=============================================================================
