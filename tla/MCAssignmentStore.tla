--------------------------- MODULE MCAssignmentStore ---------------------------
(***************************************************************************)
(* Small instances of AssignmentStore for TLC.  A message is named by the  *)
(* command it was made for, so delivering command c under message d with   *)
(* c # d is a reused message ID.                                           *)
(***************************************************************************)
EXTENDS AssignmentStore, TLC

Window(id, from, until) == [identity |-> id, effectiveFrom |-> from, effectiveUntil |-> until]
Prepare(g, s) == [type |-> "assignment_prepared", generation |-> g, spec |-> s]
Arm(g) == [type |-> "assignment_armed", generation |-> g]
Cancel(g) == [type |-> "assignment_cancelled", generation |-> g]
Cutover(g, at) == [type |-> "assignment_cutover", generation |-> g, effectiveAt |-> at]
Evaluation(from, at, f) == [causalFrom |-> from, observedAt |-> at, frame |-> f]

Under(c) == <<c, c>>

(* Lifecycle: three generations, a second identity, boundaries on and off   *)
(* the window edges, and message IDs that are used again.                   *)
Early == Window("uav1", 0, 1)
Wide == Window("uav1", 0, 3)
Late == Window("uav1", 1, 2)
Other == Window("uav2", 0, 3)

LifecycleSpecs == {Early, Wide, Late, Other}
LifecycleDeliveries ==
  {Under(Prepare(1, Early)), Under(Prepare(2, Late)), Under(Prepare(2, Other)),
   Under(Prepare(3, Wide)), <<Arm(3), Prepare(1, Early)>>, <<Arm(3), Prepare(3, Wide)>>}
    \cup {Under(Arm(g)) : g \in 1..3}
    \cup {Under(Cancel(1)), Under(Cancel(2)), <<Arm(1), Cancel(1)>>}
    \cup {Under(Cutover(1, 0)), Under(Cutover(2, 1)),
          Under(Cutover(2, 2)), Under(Cutover(3, 0)), Under(Cutover(3, 1)),
          Under(Cutover(3, 2))}
LifecycleMessages == {d[1] : d \in LifecycleDeliveries}

(* Evaluation: two generations handed over at 1 or 2, two workers, and      *)
(* evaluations inside, across and after the boundary, some at equal times.  *)
Long == Window("uav1", 0, 3)
EvaluationSpecs == {Long}
EvaluationDeliveries ==
  {Under(Prepare(g, Long)) : g \in 1..2} \cup {Under(Arm(g)) : g \in 1..2}
    \cup {Under(Cutover(1, 0)), Under(Cutover(2, 1)), Under(Cutover(2, 2))}
EvaluationMessages == {d[1] : d \in EvaluationDeliveries}
SomeEvaluations ==
  {Evaluation(0, 0, 0), Evaluation(0, 1, 0), Evaluation(1, 1, 1), Evaluation(2, 2, 0)}

(* Workers are interchangeable: the store only compares them for equality.  *)
WorkerSymmetry == Permutations(Workers)

None == {}
=============================================================================
