--------------------------- MODULE MCEvaluationWorker ---------------------------
(***************************************************************************)
(* Small instances of EvaluationWorker for TLC.                            *)
(***************************************************************************)
EXTENDS EvaluationWorker, TLC

CONSTANTS w1, w2

Row(at, pos, id, kind) == [at |-> at, pos |-> pos, id |-> id, kind |-> kind]

(* Two frames at one instant, one of them logged twice, one frame of        *)
(* another flight and one without WAL identity, which InfluxDB may or may   *)
(* not show.  All rows of instant 0 together saturate a query.              *)
TakeoverFrames ==
  {Row(0, 0, "a", "own"), Row(0, 1, "b", "own"), Row(0, 2, "a", "own"), Row(2, 0, "c", "own"),
   Row(0, 3, "d", "foreign"), Row(2, 1, "e", "unordered")}
(* The clock of w2 is far behind.                                           *)
TakeoverSkew == (w1 :> 0) @@ (w2 :> -3)
(* w2 is started when w1 has been running for a while.                      *)
TakeoverPhase == (w1 :> 0) @@ (w2 :> 3)

(* One punctual worker and no telemetry: only the timing of queries counts. *)
NoFrames == {}
SoloSkew == w1 :> 0
=============================================================================
