------------------------- MODULE AssignmentStore_proofs ------------------------
(***************************************************************************)
(* Proofs about AssignmentStore, first part: types, authority, the         *)
(* evidence it commits (attribution survives every cutover, and            *)
(* checkpoints are written in cursor order) and the records of its         *)
(* lifecycle commands (all generations have one identity, and the          *)
(* transition rows lead to the state of every row).                        *)
(***************************************************************************)
EXTENDS AssignmentStore, TLAPS

-----------------------------------------------------------------------------
(* Shapes of the commands and of the steps                                 *)

(* A command the API delivers has a message and a known generation.         *)
LEMMA DeliveryShape ==
  ASSUME NEW d \in Deliveries
  PROVE  /\ d[1] \in Messages
         /\ d[2] \in Commands
         /\ d[2].generation \in Generations
         /\ d[2].type = "assignment_prepared" => d[2].spec \in Specs
         /\ d[2].type = "assignment_cutover" => d[2].effectiveAt \in Nat
<1>1. d \in Messages \X Commands  BY Zenon, DeliveriesAssumption
<1>2. d[1] \in Messages /\ d[2] \in Commands  BY Zenon, <1>1
<1>3. CASE d[2] \in PrepareCommands  BY Zenon, <1>2, <1>3 DEF PrepareCommands
<1>4. CASE d[2] \in CandidateCommands  BY Zenon, <1>2, <1>4 DEF CandidateCommands
<1>5. CASE d[2] \in CutoverCommands  BY Zenon, <1>2, <1>5 DEF CutoverCommands
<1> QED  BY Zenon, <1>2, <1>3, <1>4, <1>5 DEF Commands

(* Every step is one of the eight that write rows, or it leaves all durable *)
(* state alone: answers from the inbox, refusals, and the clock.            *)
LEMMA StepShape ==
  ASSUME TypeOK, Next
  PROVE  \/ \E m \in Messages, c \in Commands, t \in TxTimes :
              /\ c.generation \in Generations /\ ~Delivered(m)
              /\ \/ c.type = "assignment_prepared" /\ c.spec \in Specs
                    /\ c.spec.effectiveFrom < c.spec.effectiveUntil
                    /\ (PrepareApplied(m, c, t) \/ PrepareRecorded(m, c))
                 \/ c.type \in {"assignment_armed", "assignment_cancelled"}
                    /\ TransitionApplied(m, c)
                 \/ c.type = "assignment_cutover" /\ c.effectiveAt \in Nat
                    /\ CutoverApplied(m, c, t)
         \/ \E t \in TxTimes, w \in Workers, g \in Generations : ClaimDueAssignments(w, g, t)
         \/ \E t \in TxTimes, c \in claims : RenewAssignmentLease(c, t)
         \/ \E t \in TxTimes, c \in claims, next \in NextTimes :
              DeferAssignmentEvaluation(c, next, t)
         \/ Committing
         \/ /\ UNCHANGED durable
            /\ now' \in {now, now + 1}
            /\ reply' \in Replies \cup {NoReply}
<1>1. CASE Tick  BY Zenon, <1>1 DEF Tick
<1>2. CASE Lifecycle
  <2> PICK d \in Deliveries, t \in TxTimes :
        \/ PrepareAssignment(d[1], d[2], t)
        \/ transitionCandidate(d[1], d[2])
        \/ CutoverAssignment(d[1], d[2], t)
    BY Zenon, <1>2 DEF Lifecycle
  <2> DEFINE m == d[1]  c == d[2]
  <2>1. /\ m \in Messages /\ c \in Commands /\ c.generation \in Generations
        /\ c.type = "assignment_prepared" => c.spec \in Specs
        /\ c.type = "assignment_cutover" => c.effectiveAt \in Nat
    BY Zenon, DeliveryShape
  <2>2. ASSUME NEW error \in {"message_conflict", "stale_assignment", "invalid_transition"},
               Reject(c, error)
        PROVE  UNCHANGED durable /\ now' = now /\ reply' \in Replies
    BY Zenon, <2>1, <2>2 DEF Reject, clockVars, Replies
  <2>3. ASSUME Redeliver(m, c)
        PROVE  UNCHANGED durable /\ now' = now /\ reply' \in Replies
    <3>1. CASE Reject(c, "message_conflict")  BY Zenon, <2>2, <3>1
    <3>2. CASE UNCHANGED <<clockVars, durable>>
               /\ Answer(c, IF inbox[m].disposition = "stale" THEN "stale" ELSE "idempotent")
      <4>1. state' = state  BY Zenon, <3>2 DEF durable, rowVars
      <4>2. state'[c.generation] \in Lifecycles \cup {"none"}  BY Zenon, <2>1, <4>1 DEF TypeOK
      <4> QED  BY Zenon, <2>1, <3>2, <4>2 DEF Answer, clockVars, Replies, Dispositions
    <3> QED  BY Zenon, <2>3, <3>1, <3>2 DEF Redeliver
  <2>4. CASE PrepareAssignment(m, c, t)
    BY Zenon, <2>1, <2>2, <2>3, <2>4 DEF PrepareAssignment, PrepareConflict
  <2>5. CASE transitionCandidate(m, c)
    BY Zenon, <2>1, <2>2, <2>3, <2>5 DEF transitionCandidate, TransitionRefused
  <2>6. CASE CutoverAssignment(m, c, t)
    <3>1. CutoverRefusal(c, t) \in {"none", "stale_assignment", "invalid_transition"}
      BY Zenon DEF CutoverRefusal
    <3> QED  BY Zenon, <2>1, <2>2, <2>3, <2>6, <3>1 DEF CutoverAssignment
  <2> QED  BY Zenon, <2>4, <2>5, <2>6
<1>3. CASE Leasing  BY Zenon, <1>3 DEF Leasing
<1> QED  BY Zenon, <1>1, <1>2, <1>3 DEF Next

-----------------------------------------------------------------------------
(* Types                                                                   *)

(* The initial state is well typed.                                         *)
LEMMA TypeInit == Init => TypeOK
BY DEF Init, TypeOK, NoTime, NotDelivered, NoReply

(* Lifecycle commands keep the types.                                       *)
LEMMA TypeLifecycle ==
  ASSUME TypeOK, NEW m \in Messages, NEW c \in Commands, NEW t \in TxTimes,
         c.generation \in Generations
  PROVE  /\ c.spec \in Specs /\ PrepareApplied(m, c, t) => TypeOK'
         /\ PrepareRecorded(m, c) => TypeOK'
         /\ TransitionApplied(m, c) => TypeOK'
         /\ c.effectiveAt \in Nat /\ CutoverApplied(m, c, t) => TypeOK'
<1> DEFINE g == c.generation
<1>0. t \in Nat  BY DEF TypeOK, TxTimes
<1>1. ASSUME c.spec \in Specs, PrepareApplied(m, c, t)  PROVE TypeOK'
  <2>1. inbox' \in [Messages -> InboxEntries \cup {NotDelivered}]
    BY Zenon, <1>1 DEF TypeOK, PrepareApplied, Record, InboxEntries, Dispositions
  <2>2. state' \in [Generations -> Lifecycles \cup {"none"}]
    BY Zenon, <1>1 DEF TypeOK, PrepareApplied, Lifecycles, Candidates
  <2>3. transitions' \subseteq TransitionRows
    BY <1>1 DEF TypeOK, PrepareApplied, TransitionRow, SupersededRows, TransitionRows,
                Replaced, Lifecycles, Candidates
  <2>4. reply' \in Replies
    BY Zenon, <1>1, <2>2 DEF PrepareApplied, Answer, Replies, Dispositions
  <2>5. /\ spec' \in [Generations -> Specs \cup {NoSpec}]
        /\ \A h \in Generations : state'[h] # "none" => spec'[h] \in Specs
    BY Zenon, <1>1 DEF TypeOK, PrepareApplied, Replaced, Candidates
  <2> QED  BY Zenon, <1>0, <1>1, <2>1, <2>2, <2>3, <2>4, <2>5
           DEF TypeOK, PrepareApplied, clockVars, authorityVars, evidenceVars
<1>2. ASSUME PrepareRecorded(m, c)  PROVE TypeOK'
  <2>1. inbox' \in [Messages -> InboxEntries \cup {NotDelivered}]
    BY <1>2 DEF TypeOK, PrepareRecorded, Record, InboxEntries, Dispositions
  <2>2. UNCHANGED <<now, state, spec, authorityFrom, authorityUntil, leaseOwner,
                    leaseGeneration, leaseUntil, nextEvaluationAt, revision, transitions,
                    apiOutbox, checkpoints, summary, registryOutbox, claims>>
    BY Zenon, <1>2 DEF PrepareRecorded, clockVars, rowVars, authorityVars, leaseVars, evidenceVars
  <2>3. reply' \in Replies
    BY <1>2, <2>2 DEF TypeOK, PrepareRecorded, Answer, Replies, Dispositions
  <2> QED  BY Zenon, <2>1, <2>2, <2>3 DEF TypeOK
<1>3. ASSUME TransitionApplied(m, c)  PROVE TypeOK'
  <2>1. inbox' \in [Messages -> InboxEntries \cup {NotDelivered}]
    BY Zenon, <1>3 DEF TypeOK, TransitionApplied, recordLifecycleCommand, Record, InboxEntries,
                Dispositions
  <2>2. state' \in [Generations -> Lifecycles \cup {"none"}]
    BY Zenon, <1>3 DEF TypeOK, TransitionApplied, Target, Lifecycles, Candidates
  <2>3. transitions' \subseteq TransitionRows
    BY <1>3 DEF TypeOK, TransitionApplied, recordLifecycleCommand, TransitionRow,
                TransitionRows, Target, Lifecycles, Candidates
  <2>4. reply' \in Replies
    BY Zenon, <1>3, <2>2 DEF TransitionApplied, Answer, Replies, Dispositions
  <2>5. /\ leaseOwner' \in [Generations -> Workers \cup {NoWorker}]
        /\ leaseUntil' \in [Generations -> Nat \cup {NoTime}]
    BY Zenon, <1>3 DEF TypeOK, TransitionApplied
  <2>6. \A h \in Generations : state'[h] # "none" => spec'[h] \in Specs
    BY Zenon, <1>3 DEF TypeOK, TransitionApplied, Latest, Exists
  <2> QED  BY Zenon, <1>3, <2>1, <2>2, <2>3, <2>4, <2>5, <2>6
           DEF TypeOK, TransitionApplied, recordLifecycleCommand, clockVars, authorityVars,
               evidenceVars
<1>4. ASSUME c.effectiveAt \in Nat, CutoverApplied(m, c, t)  PROVE TypeOK'
  <2>1. inbox' \in [Messages -> InboxEntries \cup {NotDelivered}]
    BY Zenon, <1>4 DEF TypeOK, CutoverApplied, recordLifecycleCommand, Record, InboxEntries,
                Dispositions
  <2>2. state' \in [Generations -> Lifecycles \cup {"none"}]
    BY Zenon, <1>4 DEF TypeOK, CutoverApplied, Lifecycles
  <2>3. transitions' \subseteq TransitionRows
    BY <1>4 DEF TypeOK, CutoverApplied, recordLifecycleCommand, TransitionRow,
                TransitionRows, SupersededRows, Current, Lifecycles, Candidates
  <2>4. reply' \in Replies
    BY Zenon, <1>4, <2>2 DEF CutoverApplied, Answer, Replies, Dispositions
  <2>5. spec[g].effectiveUntil \in Nat
    BY Zenon, <1>4, SpecsAssumption DEF CutoverApplied, CutoverRefusal, TypeOK
  <2>6. /\ authorityFrom' \in [Generations -> Nat \cup {NoTime}]
        /\ authorityUntil' \in [Generations -> Nat \cup {NoTime}]
    BY Zenon, <1>4, <2>5 DEF TypeOK, CutoverApplied
  <2>7. /\ leaseOwner' \in [Generations -> Workers \cup {NoWorker}]
        /\ leaseUntil' \in [Generations -> Nat \cup {NoTime}]
        /\ nextEvaluationAt' \in [Generations -> Nat]
    BY Zenon, <1>0, <1>4 DEF TypeOK, CutoverApplied
  <2>8. \A h \in Generations : state'[h] # "none" => spec'[h] \in Specs
    BY Zenon, <1>4 DEF TypeOK, CutoverApplied, CutoverRefusal, Current
  <2> QED  BY Zenon, <1>4, <2>1, <2>2, <2>3, <2>4, <2>6, <2>7, <2>8
           DEF TypeOK, CutoverApplied, recordLifecycleCommand, clockVars, evidenceVars
<1> QED  BY Zenon, <1>1, <1>2, <1>3, <1>4

(* Claiming, renewing and deferring keep the types.                         *)
LEMMA TypeLeasing ==
  ASSUME TypeOK, NEW t \in TxTimes
  PROVE  /\ \A w \in Workers, g \in Generations : ClaimDueAssignments(w, g, t) => TypeOK'
         /\ \A c \in claims : RenewAssignmentLease(c, t) => TypeOK'
         /\ \A c \in claims, next \in NextTimes :
              DeferAssignmentEvaluation(c, next, t) => TypeOK'
<1>0. t \in Nat /\ t + LeaseDuration \in Nat  BY BoundsAssumption DEF TypeOK, TxTimes
<1>1. ASSUME NEW w \in Workers, NEW g \in Generations, ClaimDueAssignments(w, g, t)
      PROVE  TypeOK'
  <2>1. claims' \subseteq Claims
    BY <1>1 DEF TypeOK, ClaimDueAssignments, Claims
  <2> QED  BY <1>0, <1>1, <2>1
           DEF TypeOK, ClaimDueAssignments, clockVars, rowVars, authorityVars, commandVars,
               evidenceVars
<1>2. ASSUME NEW c \in claims, RenewAssignmentLease(c, t)  PROVE TypeOK'
  BY Zenon, <1>0, <1>2 DEF TypeOK, RenewAssignmentLease, Claims, clockVars, rowVars, authorityVars,
                    commandVars, evidenceVars
<1>3. ASSUME NEW c \in claims, NEW next \in NextTimes, DeferAssignmentEvaluation(c, next, t)
      PROVE  TypeOK'
  BY Zenon, <1>3, BoundsAssumption
  DEF TypeOK, DeferAssignmentEvaluation, ReleaseLease, Claims, clockVars, rowVars,
      authorityVars, commandVars, evidenceVars
<1> QED  BY Zenon, <1>1, <1>2, <1>3

(* What a live and a historical commit write for generation g, behind the   *)
(* lease of generation l.                                                   *)
LEMMA TypeEvidence ==
  ASSUME TypeOK, NEW g \in Generations, NEW l \in Generations, NEW n \in Nat,
         NEW e \in Evaluations, NEW live \in BOOLEAN, NEW equal \in BOOLEAN,
         writeEvaluation(g, e, <<l, n>>, equal, live)
  PROVE  /\ revision' \in [Generations -> Nat]
         /\ checkpoints' \subseteq Checkpoints
         /\ summary' \in [Generations -> [revision : Nat, observedAt : Nat \cup {NoTime}]]
         /\ registryOutbox' \subseteq [generation : Generations, revision : Nat]
<1>1. e \in [causalFrom : Nat, observedAt : Nat, frame : Nat]  BY Zenon, EvaluationsAssumption
<1>2. revision[g] + 1 \in Nat  BY DEF TypeOK
<1> QED  BY <1>1, <1>2 DEF TypeOK, writeEvaluation, Checkpoints

(* Evaluation commits keep the types.                                       *)
LEMMA TypeCommitting == TypeOK /\ Committing => TypeOK'
<1> SUFFICES ASSUME TypeOK, NEW t \in TxTimes, NEW c \in claims, NEW e \in Evaluations,
                    NEW next \in NextTimes,
                    \/ CommitEvaluation(c, e, next, t)
                    \/ \E h \in Generations : CommitHistoricalEvaluation(c, h, e, next, t)
             PROVE  TypeOK'
  BY Zenon DEF Committing
<1>0. c.generation \in Generations /\ c.leaseGeneration \in Nat  BY Zenon DEF TypeOK, Claims
<1>1. /\ UNCHANGED <<now, state, spec, authorityFrom, authorityUntil, inbox, transitions,
                     apiOutbox, claims>>
      /\ reply' = NoReply
  BY Zenon DEF CommitEvaluation, CommitHistoricalEvaluation, clockVars, rowVars, authorityVars,
         commandVars
<1>2. /\ leaseOwner' \in [Generations -> Workers \cup {NoWorker}]
      /\ leaseGeneration' \in [Generations -> Nat]
      /\ leaseUntil' \in [Generations -> Nat \cup {NoTime}]
      /\ nextEvaluationAt' \in [Generations -> Nat]
  <2>1. ReleaseLease(c.generation, next)
    BY Zenon DEF CommitEvaluation, CommitHistoricalEvaluation
  <2> QED  BY Zenon, <1>0, <2>1, BoundsAssumption DEF TypeOK, ReleaseLease
<1>3. /\ revision' \in [Generations -> Nat]
      /\ checkpoints' \subseteq Checkpoints
      /\ summary' \in [Generations -> [revision : Nat, observedAt : Nat \cup {NoTime}]]
      /\ registryOutbox' \subseteq [generation : Generations, revision : Nat]
  <2>1. CASE CommitEvaluation(c, e, next, t)
    BY Zenon, <1>0, <2>1, TypeEvidence DEF CommitEvaluation
  <2>2. CASE \E h \in Generations : CommitHistoricalEvaluation(c, h, e, next, t)
    BY Zenon, <1>0, <2>2, TypeEvidence DEF CommitHistoricalEvaluation
  <2> QED  BY Zenon, <2>1, <2>2
<1> QED  BY Zenon, <1>1, <1>2, <1>3 DEF TypeOK

(* Every step keeps the types.                                              *)
LEMMA TypeNext == TypeOK /\ [Next]_vars => TypeOK'
<1> SUFFICES ASSUME TypeOK, [Next]_vars  PROVE TypeOK'  BY Zenon
<1>1. CASE UNCHANGED vars
  BY Zenon, <1>1 DEF TypeOK, vars, clockVars, durable, rowVars, authorityVars, leaseVars, commandVars,
              evidenceVars
<1>2. CASE Next
  <2>1. ASSUME UNCHANGED durable, now' \in {now, now + 1}, reply' \in Replies \cup {NoReply}
        PROVE  TypeOK'
    BY <2>1 DEF TypeOK, durable, rowVars, authorityVars, leaseVars, commandVars, evidenceVars
  <2> QED  BY Zenon, <1>2, <2>1, StepShape, TypeLifecycle, TypeLeasing, TypeCommitting
<1> QED  BY Zenon, <1>1, <1>2

(* Every column keeps a value of its SQL type, and every row has the        *)
(* specification its lifecycle commands read (001_initial.sql:22-66).       *)
THEOREM TypeCorrect == Spec => []TypeOK
BY TypeInit, TypeNext, PTL DEF Spec

-----------------------------------------------------------------------------
(* Authority                                                               *)
(*                                                                         *)
(* A cutover checks its boundary against the current row only.  That it    *)
(* keeps every interval in order rests on three facts it does not check:   *)
(* there is one current row, every interval is at or before it, and the    *)
(* candidate is newer than all of them.                                    *)

AuthorityShape ==
  \A g \in Generations :
    /\ HasAuthority(g) => /\ authorityFrom[g] < authorityUntil[g]
                          /\ state[g] \in {"active", "ending", "superseded"}
    /\ ~HasAuthority(g) => authorityUntil[g] = NoTime
    /\ g \in Current => HasAuthority(g)

OneCurrent == \A g, h \in Current : g = h

CandidateIsLatest == \A g \in Generations : state[g] \in Candidates => Latest(g)

CurrentIsLast == \A g \in Generations : HasAuthority(g) => \E h \in Current : g <= h

AuthorityInv ==
  /\ AuthorityShape
  /\ OneCurrent
  /\ CandidateIsLatest
  /\ CurrentIsLast
  /\ AuthorityIsHandedOver

(* Nothing is authoritative at first.                                       *)
LEMMA AuthorityInit == Init => AuthorityInv
BY DEF Init, AuthorityInv, AuthorityShape, OneCurrent, CandidateIsLatest, CurrentIsLast,
       AuthorityIsHandedOver, HasAuthority, Current, Candidates

(* Steps that leave authority and the set of current rows alone need only   *)
(* keep candidates the latest rows.                                         *)
LEMMA AuthorityKept ==
  ASSUME TypeOK, AuthorityInv, UNCHANGED authorityVars, Current' = Current,
         \A g \in Generations : HasAuthority(g) => state'[g] = state[g],
         CandidateIsLatest'
  PROVE  AuthorityInv'
<1>1. /\ authorityFrom' = authorityFrom /\ authorityUntil' = authorityUntil
      /\ \A g \in Generations : HasAuthority(g)' <=> HasAuthority(g)
  BY Zenon DEF authorityVars, HasAuthority
<1>2. AuthorityShape'  BY Zenon, <1>1 DEF AuthorityInv, AuthorityShape
<1>3. OneCurrent'  BY Zenon DEF AuthorityInv, OneCurrent
<1>4. CurrentIsLast'  BY Zenon, <1>1 DEF AuthorityInv, CurrentIsLast
<1>5. AuthorityIsHandedOver'  BY Zenon, <1>1 DEF AuthorityInv, AuthorityIsHandedOver
<1> QED  BY Zenon, <1>2, <1>3, <1>4, <1>5 DEF AuthorityInv

(* A new candidate is newer than every row and replaces the other one.      *)
LEMMA AuthorityPrepare ==
  ASSUME TypeOK, AuthorityInv, NEW m \in Messages, NEW c \in Commands, NEW t \in TxTimes,
         c.generation \in Generations, PrepareApplied(m, c, t)
  PROVE  AuthorityInv'
<1> DEFINE g == c.generation
<1>1. g \in Nat /\ Generations \subseteq Nat  BY Zenon, GenerationsAssumption
<1>2. ~Exists(g) /\ \A h \in Generations : Exists(h) => h < g
  BY <1>1 DEF PrepareApplied
<1>3. \A h \in Generations : /\ h = g => state'[h] = "candidate_received"
                             /\ h # g /\ state[h] \in Candidates => state'[h] = "superseded"
                             /\ h # g /\ state[h] \notin Candidates => state'[h] = state[h]
  BY Zenon DEF PrepareApplied, Replaced
<1>4. Current' = Current  BY Zenon, <1>2, <1>3 DEF Current, Candidates, Exists
<1>5. \A h \in Generations : HasAuthority(h) => state'[h] = state[h]
  BY Zenon, <1>2, <1>3 DEF AuthorityInv, AuthorityShape, Exists, Candidates
<1>6. CandidateIsLatest'
  BY <1>1, <1>2, <1>3 DEF CandidateIsLatest, Latest, Exists, Candidates
<1> QED  BY Zenon, <1>4, <1>5, <1>6, AuthorityKept DEF PrepareApplied

(* Arming and cancelling move a candidate only.                             *)
LEMMA AuthorityTransition ==
  ASSUME TypeOK, AuthorityInv, NEW m \in Messages, NEW c \in Commands,
         c.generation \in Generations, TransitionApplied(m, c)
  PROVE  AuthorityInv'
<1> DEFINE g == c.generation
<1>1. /\ state[g] \in Candidates /\ Latest(g)
      /\ state' = [state EXCEPT ![g] = Target(c)]
      /\ Target(c) \in {"candidate_armed", "cancelled"}
  BY Zenon DEF TransitionApplied, ValidTransition, Candidates, Target
<1>2. \A h \in Generations : /\ h = g => state'[h] = Target(c)
                             /\ h # g => state'[h] = state[h]
  BY Zenon, <1>1 DEF TypeOK
<1>3. Current' = Current  BY Zenon, <1>1, <1>2 DEF Current, Candidates
<1>4. \A h \in Generations : HasAuthority(h) => state'[h] = state[h]
  BY Zenon, <1>1, <1>2 DEF AuthorityInv, AuthorityShape, Candidates
<1>5. CandidateIsLatest'
  BY Zenon, <1>1, <1>2 DEF AuthorityInv, CandidateIsLatest, Latest, Exists, Candidates
<1> QED  BY Zenon, <1>3, <1>4, <1>5, AuthorityKept DEF TransitionApplied

(* What CutoverRefusal leaves a cutover that goes through.                  *)
LEMMA CutoverGuard ==
  ASSUME NEW c \in Commands, NEW t \in TxTimes, CutoverRefusal(c, t) = "none"
  PROVE  /\ state[c.generation] = "candidate_armed"
         /\ ~OutsideWindow(c.generation, c.effectiveAt)
         /\ \A h \in Current : /\ ~StaleBoundary(h, c.generation, c.effectiveAt)
                               /\ ~BehindWatermark(h, c.effectiveAt)
BY Zenon DEF CutoverRefusal

(* A cutover splits the current interval at its boundary.                   *)
LEMMA AuthorityCutover ==
  ASSUME TypeOK, AuthorityInv, NEW m \in Messages, NEW c \in Commands, NEW t \in TxTimes,
         c.generation \in Generations, c.effectiveAt \in Nat, CutoverApplied(m, c, t)
  PROVE  AuthorityInv'
<1> DEFINE g == c.generation
           at == c.effectiveAt
<1>1. Generations \subseteq Nat /\ g \in Nat  BY Zenon, GenerationsAssumption
<1>2. /\ state[g] = "candidate_armed" /\ Latest(g)
      /\ spec[g].effectiveUntil \in Nat /\ at < spec[g].effectiveUntil
      /\ \A h \in Current : h < g /\ authorityFrom[h] < at /\ at <= authorityUntil[h]
  <2>1. state[g] = "candidate_armed" /\ ~OutsideWindow(g, at)
        /\ \A h \in Current : ~StaleBoundary(h, g, at)
    BY Zenon, CutoverGuard DEF CutoverApplied
  <2>2. spec[g].effectiveUntil \in Nat  BY Zenon, <2>1, SpecsAssumption DEF TypeOK
  <2>3. \A h \in Current : /\ h \in Nat /\ authorityFrom[h] \in Int
                          /\ authorityUntil[h] \in Int
    BY <1>1 DEF TypeOK, Current, NoTime
  <2> QED  BY <1>1, <2>1, <2>2, <2>3
           DEF AuthorityInv, CandidateIsLatest, Candidates, OutsideWindow, StaleBoundary
<1>3. \A h \in Generations :
        /\ h = g => /\ state'[h] = "active" /\ authorityFrom'[h] = at
                    /\ authorityUntil'[h] = spec[g].effectiveUntil
        /\ h # g => authorityFrom'[h] = authorityFrom[h]
        /\ h # g /\ h \in Current => state'[h] = "superseded" /\ authorityUntil'[h] = at
        /\ h # g /\ h \notin Current =>
             state'[h] = state[h] /\ authorityUntil'[h] = authorityUntil[h]
  BY Zenon DEF CutoverApplied, TypeOK
<1>4. g \notin Current /\ ~HasAuthority(g)
  BY Zenon, <1>2 DEF AuthorityInv, AuthorityShape, Current
<1>5. \A h \in Generations : HasAuthority(h)' <=> HasAuthority(h) \/ h = g
  BY <1>3, <1>4 DEF HasAuthority, NoTime
<1>6. Current' = {g}  BY Zenon, <1>3 DEF Current
<1>7. \A h \in Generations : HasAuthority(h) => h < g /\ authorityUntil'[h] <= at
  <2> SUFFICES ASSUME NEW h \in Generations, HasAuthority(h)
               PROVE  h < g /\ authorityUntil'[h] <= at
    BY Zenon
  <2>1. PICK k \in Current : h <= k  BY Zenon DEF AuthorityInv, CurrentIsLast
  <2>2. k \in Generations /\ HasAuthority(k)  BY Zenon DEF Current, AuthorityInv, AuthorityShape
  <2>3. h < g  BY <1>1, <1>2, <2>1, <2>2
  <2>4. CASE h = k  BY <1>3, <2>3, <2>4, <1>1
  <2>5. CASE h # k
    <3>1. h \notin Current  BY Zenon, <2>5 DEF AuthorityInv, OneCurrent
    <3>2. authorityUntil[h] <= authorityFrom[k]
      BY <1>1, <2>1, <2>2, <2>5 DEF AuthorityInv, AuthorityIsHandedOver
    <3> QED  BY <1>1, <1>2, <1>3, <2>2, <2>3, <3>1, <3>2 DEF TypeOK, NoTime
  <2> QED  BY Zenon, <2>3, <2>4, <2>5
<1>8. AuthorityShape'
  BY Zenon, <1>1, <1>2, <1>3, <1>4, <1>5, <1>6 DEF AuthorityInv, AuthorityShape, TypeOK, NoTime
<1>9. OneCurrent'  BY Zenon, <1>6 DEF OneCurrent
<1>10. CandidateIsLatest'
  <2>1. \A h \in Generations : state[h] \in Candidates => h = g
    BY <1>1, <1>2 DEF AuthorityInv, CandidateIsLatest, Latest, Exists, Candidates
  <2> QED  BY Zenon, <1>3, <2>1 DEF CandidateIsLatest, Candidates
<1>11. CurrentIsLast'  BY <1>1, <1>5, <1>6, <1>7 DEF CurrentIsLast
<1>12. AuthorityIsHandedOver'
  <2> SUFFICES ASSUME NEW h \in Generations, HasAuthority(h)'
               PROVE  /\ \A k \in Generations :
                           HasAuthority(k)' /\ h < k => authorityUntil'[h] <= authorityFrom'[k]
                      /\ \/ h \in Current'
                         \/ \E k \in Generations : /\ h < k /\ HasAuthority(k)'
                                                   /\ authorityUntil'[h] = authorityFrom'[k]
    BY Zenon DEF AuthorityIsHandedOver
  <2>1. CASE h = g
    BY <1>1, <1>5, <1>6, <1>7, <2>1
  <2>2. CASE h # g /\ h \in Current
    <3>1. \A k \in Generations : HasAuthority(k)' /\ h < k => k = g
      <4>1. \A k \in Generations : HasAuthority(k) => k <= h
        BY Zenon, <2>2 DEF AuthorityInv, CurrentIsLast, OneCurrent
      <4> QED  BY <1>1, <1>5, <4>1
    <3>2. authorityUntil'[h] = at /\ authorityFrom'[g] = at  BY Zenon, <1>3, <2>2
    <3>3. at <= at  BY <1>1
    <3>4. h < g /\ HasAuthority(g)'  BY Zenon, <1>2, <1>5, <1>7, <2>2
    <3>5. \A k \in Generations : HasAuthority(k)' /\ h < k => authorityUntil'[h] <= authorityFrom'[k]
      BY Zenon, <3>1, <3>2, <3>3
    <3> QED  BY Zenon, <1>1, <3>2, <3>4, <3>5
  <2>3. CASE h # g /\ h \notin Current
    <3>1. HasAuthority(h)  BY Zenon, <1>5, <2>3
    <3>2. authorityUntil'[h] = authorityUntil[h] /\ authorityUntil[h] <= at /\ h < g
      BY Zenon, <1>3, <1>7, <2>3, <3>1
    <3>3. \A k \in Generations : HasAuthority(k) /\ h < k => authorityUntil[h] <= authorityFrom[k]
      BY Zenon, <3>1 DEF AuthorityInv, AuthorityIsHandedOver
    <3>4. PICK k \in Generations :
            h < k /\ HasAuthority(k) /\ authorityUntil[h] = authorityFrom[k]
      BY Zenon, <2>3, <3>1 DEF AuthorityInv, AuthorityIsHandedOver
    <3>5. k # g  BY Zenon, <1>4, <3>4
    <3> QED  BY Zenon, <1>3, <1>5, <3>2, <3>3, <3>4, <3>5
  <2> QED  BY Zenon, <2>1, <2>2, <2>3
<1> QED  BY Zenon, <1>8, <1>9, <1>10, <1>11, <1>12 DEF AuthorityInv

(* Every step keeps the authority invariant.                                *)
LEMMA AuthorityNext == TypeOK /\ AuthorityInv /\ [Next]_vars => AuthorityInv'
<1> SUFFICES ASSUME TypeOK, AuthorityInv, [Next]_vars  PROVE AuthorityInv'  BY Zenon
<1>1. ASSUME UNCHANGED <<rowVars, authorityVars>>  PROVE AuthorityInv'
  <2>1. UNCHANGED <<state, spec, authorityFrom, authorityUntil>>
    BY Zenon, <1>1 DEF rowVars, authorityVars
  <2> QED  BY Zenon, <2>1 DEF AuthorityInv, AuthorityShape, OneCurrent, CandidateIsLatest,
                       CurrentIsLast, AuthorityIsHandedOver, HasAuthority, Current, Latest,
                       Exists
<1>2. CASE UNCHANGED vars  BY Zenon, <1>1, <1>2 DEF vars, durable
<1>3. CASE Next
  <2>1. CASE UNCHANGED durable  BY Zenon, <1>1, <2>1 DEF durable
  <2>2. ASSUME NEW m \in Messages, NEW c \in Commands, PrepareRecorded(m, c)
        PROVE  AuthorityInv'
    BY Zenon, <1>1, <2>2 DEF PrepareRecorded
  <2>3. CASE \E t \in TxTimes, w \in Workers, g \in Generations : ClaimDueAssignments(w, g, t)
    BY Zenon, <1>1, <2>3 DEF ClaimDueAssignments
  <2>4. CASE \E t \in TxTimes, c \in claims : RenewAssignmentLease(c, t)
    BY Zenon, <1>1, <2>4 DEF RenewAssignmentLease
  <2>5. CASE \E t \in TxTimes, c \in claims, next \in NextTimes :
               DeferAssignmentEvaluation(c, next, t)
    BY Zenon, <1>1, <2>5 DEF DeferAssignmentEvaluation
  <2>6. CASE Committing
    BY Zenon, <1>1, <2>6 DEF Committing, CommitEvaluation, CommitHistoricalEvaluation
  <2> QED  BY Zenon, <1>3, <2>1, <2>2, <2>3, <2>4, <2>5, <2>6, StepShape, AuthorityPrepare,
              AuthorityTransition, AuthorityCutover
<1> QED  BY Zenon, <1>2, <1>3

(* The inductive invariant of the authority intervals holds in every state  *)
(* that the lifecycle commands reach.                                       *)
THEOREM AuthorityCorrect == Spec => [](TypeOK /\ AuthorityInv)
<1>1. Init => TypeOK /\ AuthorityInv  BY Zenon, TypeInit, AuthorityInit
<1>2. TypeOK /\ AuthorityInv /\ [Next]_vars => (TypeOK /\ AuthorityInv)'
  BY Zenon, TypeNext, AuthorityNext
<1> QED  BY <1>1, <1>2, PTL DEF Spec

(* A candidate is the newest generation and newer than every generation     *)
(* with authority, which CutoverAssignment relies on without asking         *)
(* (store.go:440-446).                                                      *)
THEOREM CandidateIsNewestCorrect == Spec => []CandidateIsNewest
<1>1. TypeOK /\ AuthorityInv => CandidateIsNewest
  <2> SUFFICES ASSUME TypeOK, AuthorityInv, NEW g \in Generations, state[g] \in Candidates
               PROVE  Latest(g) /\ \A h \in Generations : HasAuthority(h) => h < g
    BY Zenon DEF CandidateIsNewest
  <2>1. Latest(g)  BY Zenon DEF AuthorityInv, CandidateIsLatest
  <2>2. ~HasAuthority(g)  BY Zenon DEF AuthorityInv, AuthorityShape, Candidates
  <2>3. \A h \in Generations : HasAuthority(h) => h <= g /\ h # g
    BY Zenon, <2>1, <2>2 DEF AuthorityInv, AuthorityShape, Latest, Exists
  <2> QED  BY <2>1, <2>3, GenerationsAssumption
<1> QED  BY <1>1, AuthorityCorrect, PTL

(* Authority is handed over without gap or overlap, for any number of       *)
(* generations and any order of commands (store.go:455-483).                *)
THEOREM AuthorityIsHandedOverCorrect == Spec => []AuthorityIsHandedOver
<1>1. AuthorityInv => AuthorityIsHandedOver  BY Zenon DEF AuthorityInv
<1> QED  BY <1>1, AuthorityCorrect, PTL

(* Authority is never reopened: an interval's start is final, its end only  *)
(* moves back, and cancelled and superseded generations stay so             *)
(* (store.go:206, 359-363, 477-481).                                        *)
THEOREM AuthorityNeverReopensCorrect == Spec => AuthorityNeverReopens
<1> DEFINE Step ==
      \A g \in Generations :
        /\ HasAuthority(g) =>
             authorityFrom'[g] = authorityFrom[g] /\ authorityUntil'[g] <= authorityUntil[g]
        /\ state[g] \in {"cancelled", "superseded"} => state'[g] = state[g]
        /\ ~HasAuthority(g) /\ HasAuthority(g)' => state[g] = "candidate_armed"
<1>1. TypeOK /\ AuthorityInv /\ [Next]_vars => [Step]_vars
  <2> SUFFICES ASSUME TypeOK, AuthorityInv, Next  PROVE Step
    BY Zenon
  <2>0. \A g \in Generations : authorityUntil[g] \in Int /\ authorityFrom[g] \in Int
    <3>1. /\ authorityFrom \in [Generations -> Nat \cup {NoTime}]
          /\ authorityUntil \in [Generations -> Nat \cup {NoTime}]
      BY Zenon DEF TypeOK
    <3> QED  BY <3>1 DEF NoTime
  <2>1. ASSUME UNCHANGED authorityVars,
               \A g \in Generations :
                 state[g] \in {"cancelled", "superseded"} => state'[g] = state[g]
        PROVE  Step
    <3>1. /\ authorityFrom' = authorityFrom /\ authorityUntil' = authorityUntil
          /\ \A g \in Generations : authorityUntil[g] <= authorityUntil[g]
      BY <2>0, <2>1 DEF authorityVars
    <3> QED  BY Zenon, <2>1, <3>1 DEF HasAuthority
  <2>2. ASSUME UNCHANGED <<rowVars, authorityVars>>  PROVE Step
    BY Zenon, <2>1, <2>2 DEF rowVars
  <2>3. ASSUME NEW m \in Messages, NEW c \in Commands, NEW t \in TxTimes,
               c.generation \in Generations, PrepareApplied(m, c, t)
        PROVE  Step
    <3>1. \A g \in Generations :
            state[g] \in {"cancelled", "superseded"} => state'[g] = state[g]
      <4>1. c.generation \in Nat  BY Zenon, <2>3, GenerationsAssumption
      <4>2. ~Exists(c.generation)  BY <2>3, <4>1 DEF PrepareApplied
      <4> QED  BY Zenon, <2>3, <4>2 DEF PrepareApplied, Replaced, Candidates, Exists
    <3> QED  BY Zenon, <2>1, <2>3, <3>1 DEF PrepareApplied
  <2>4. ASSUME NEW m \in Messages, NEW c \in Commands, c.generation \in Generations,
               TransitionApplied(m, c)
        PROVE  Step
    <3>1. \A g \in Generations :
            state[g] \in {"cancelled", "superseded"} => state'[g] = state[g]
      BY Zenon, <2>4 DEF TransitionApplied, ValidTransition, Candidates, TypeOK
    <3> QED  BY Zenon, <2>1, <2>4, <3>1 DEF TransitionApplied
  <2>5. ASSUME NEW m \in Messages, NEW c \in Commands, NEW t \in TxTimes,
               c.generation \in Generations, c.effectiveAt \in Nat, CutoverApplied(m, c, t)
        PROVE  Step
    <3>1. /\ state[c.generation] = "candidate_armed"
          /\ \A h \in Current : ~StaleBoundary(h, c.generation, c.effectiveAt)
      BY Zenon, <2>5, CutoverGuard DEF CutoverApplied
    <3>2. ~HasAuthority(c.generation)
      BY Zenon, <2>5, <3>1 DEF AuthorityInv, AuthorityShape
    <3>3. \A h \in Current : c.effectiveAt <= authorityUntil[h]
      <4> SUFFICES ASSUME NEW h \in Current  PROVE c.effectiveAt <= authorityUntil[h]
        BY Zenon
      <4>1. authorityUntil[h] \in Int  BY Zenon, <2>0 DEF Current
      <4>2. ~(c.effectiveAt > authorityUntil[h])  BY Zenon, <3>1 DEF StaleBoundary
      <4> QED  BY <2>5, <4>1, <4>2
    <3> DEFINE g == c.generation
    <3>4. /\ state' = [h \in Generations |->
                 IF h = g THEN "active" ELSE IF h \in Current THEN "superseded" ELSE state[h]]
          /\ authorityFrom' = [authorityFrom EXCEPT ![g] = c.effectiveAt]
          /\ authorityUntil' = [h \in Generations |->
                 IF h = g THEN spec[g].effectiveUntil
                 ELSE IF h \in Current THEN c.effectiveAt ELSE authorityUntil[h]]
      BY Zenon, <2>5 DEF CutoverApplied
    <3>5. authorityFrom \in [Generations -> Nat \cup {NoTime}]  BY Zenon DEF TypeOK
    <3>6. ASSUME NEW h \in Generations, h # g
          PROVE  /\ authorityFrom'[h] = authorityFrom[h]
                 /\ authorityUntil'[h] <= authorityUntil[h]
      <4>1. authorityFrom'[h] = authorityFrom[h]  BY Zenon, <3>4, <3>5, <3>6
      <4>2. authorityUntil'[h] = (IF h \in Current THEN c.effectiveAt ELSE authorityUntil[h])
        BY Zenon, <3>4, <3>6
      <4>3. authorityUntil[h] \in Int  BY Zenon, <2>0
      <4> QED  BY <3>3, <4>1, <4>2, <4>3
    <3>7. ASSUME NEW h \in Generations, state[h] \in {"cancelled", "superseded"}
          PROVE  state'[h] = state[h]
      <4>1. h \notin Current /\ h # g  BY Zenon, <3>1, <3>7 DEF Current
      <4> QED  BY Zenon, <3>4, <4>1
    <3>8. ASSUME NEW h \in Generations, ~HasAuthority(h), HasAuthority(h)'
          PROVE  state[h] = "candidate_armed"
      <4>1. h # g => authorityFrom'[h] = authorityFrom[h]  BY Zenon, <3>6
      <4> QED  BY Zenon, <3>1, <3>8, <4>1 DEF HasAuthority
    <3> QED  BY Zenon, <3>2, <3>6, <3>7, <3>8
  <2>6. CASE UNCHANGED durable  BY Zenon, <2>2, <2>6 DEF durable
  <2>7. ASSUME NEW m \in Messages, NEW c \in Commands, PrepareRecorded(m, c)  PROVE Step
    BY Zenon, <2>2, <2>7 DEF PrepareRecorded
  <2>8. CASE \/ \E t \in TxTimes, w \in Workers, g \in Generations : ClaimDueAssignments(w, g, t)
             \/ \E t \in TxTimes, c \in claims : RenewAssignmentLease(c, t)
             \/ \E t \in TxTimes, c \in claims, next \in NextTimes :
                  DeferAssignmentEvaluation(c, next, t)
    BY Zenon, <2>2, <2>8 DEF ClaimDueAssignments, RenewAssignmentLease, DeferAssignmentEvaluation
  <2>9. CASE Committing
    BY Zenon, <2>2, <2>9 DEF Committing, CommitEvaluation, CommitHistoricalEvaluation
  <2> HIDE DEF Step
  <2> QED  BY Zenon, <2>3, <2>4, <2>5, <2>6, <2>7, <2>8, <2>9, StepShape
<1> QED  BY <1>1, AuthorityCorrect, PTL DEF Spec, AuthorityNeverReopens

-----------------------------------------------------------------------------
(* Evidence and records                                                    *)

(* All of a checkpoint's causal range lies in its generation's interval.    *)
EvidenceInAuthority ==
  \A k \in checkpoints :
    /\ HasAuthority(k.generation)
    /\ authorityFrom[k.generation] <= k.causalFrom
    /\ k.causalFrom <= k.observedAt
    /\ k.observedAt < authorityUntil[k.generation]

(* evaluation_revision counts the checkpoints of a generation.              *)
RevisionsInUse ==
  /\ \A k \in checkpoints : 1 <= k.revision /\ k.revision <= revision[k.generation]
  /\ \A g \in Generations : revision[g] # 0 =>
       \E k \in checkpoints : k.generation = g /\ k.revision = revision[g]
  /\ \A k, l \in checkpoints :
       k.generation = l.generation /\ k.revision = l.revision => k = l

(* Later revisions never have earlier cursors.                              *)
CursorOrder ==
  \A k, l \in checkpoints :
    k.generation = l.generation /\ k.revision < l.revision => ~CursorBefore(l, k)

(* The summary is the newest checkpoint's.                                  *)
SummaryIsNewest ==
  \A k \in checkpoints :
    k.revision = revision[k.generation] => summary[k.generation].observedAt = k.observedAt

EvidenceInv == EvidenceInAuthority /\ RevisionsInUse /\ CursorOrder /\ SummaryIsNewest

(* There is no evidence at first.                                           *)
LEMMA EvidenceInit == Init => EvidenceInv
BY Zenon DEF Init, EvidenceInv, EvidenceInAuthority, RevisionsInUse, CursorOrder, SummaryIsNewest

(* Cursors of checkpoints are numbers, and `not before' is transitive.      *)
LEMMA CheckpointTypes ==
  ASSUME TypeOK, NEW k \in checkpoints
  PROVE  /\ k.generation \in Generations /\ k.revision \in Nat /\ k.causalFrom \in Nat
         /\ k.observedAt \in Nat /\ k.frame \in Nat
         /\ k.lease \in Generations \X Nat
BY Zenon DEF TypeOK, Checkpoints

(* Cursors are ordered: not being before is transitive.                     *)
LEMMA CursorTransitive ==
  ASSUME NEW a, NEW b, NEW c,
         a.observedAt \in Nat, b.observedAt \in Nat, c.observedAt \in Nat,
         a.frame \in Nat, b.frame \in Nat, c.frame \in Nat,
         ~CursorBefore(a, b), ~CursorBefore(b, c)
  PROVE  ~CursorBefore(a, c)
BY DEF CursorBefore

(* The watermark bounds every event time committed for a generation.        *)
LEMMA WatermarkBounds ==
  ASSUME TypeOK, EvidenceInv, NEW k \in checkpoints
  PROVE  k.observedAt <= summary[k.generation].observedAt
<1> DEFINE g == k.generation
<1>1. g \in Generations /\ k.revision \in Nat /\ k.observedAt \in Nat  BY Zenon, CheckpointTypes
<1>2. 1 <= k.revision /\ k.revision <= revision[g] /\ revision[g] \in Nat
  BY Zenon, <1>1 DEF EvidenceInv, RevisionsInUse, TypeOK
<1>3. PICK n \in checkpoints : n.generation = g /\ n.revision = revision[g]
  BY <1>1, <1>2 DEF EvidenceInv, RevisionsInUse
<1>4. n.observedAt \in Nat  BY Zenon, CheckpointTypes
<1>5. summary[g].observedAt = n.observedAt  BY Zenon, <1>3 DEF EvidenceInv, SummaryIsNewest
<1>6. CASE k.revision = revision[g]
  BY <1>1, <1>6 DEF EvidenceInv, SummaryIsNewest
<1>7. CASE k.revision < revision[g]
  <2>1. ~CursorBefore(n, k)  BY Zenon, <1>3, <1>7 DEF EvidenceInv, CursorOrder
  <2> QED  BY <1>1, <1>4, <1>5, <2>1 DEF CursorBefore
<1> QED  BY <1>1, <1>2, <1>6, <1>7

(* The row writeEvaluation compares with is the one of the last revision.   *)
LEMMA NewestIsLastRevision ==
  ASSUME TypeOK, EvidenceInv, NEW k \in checkpoints, k.revision = revision[k.generation]
  PROVE  k \in NewestCheckpoint(k.generation)
BY DEF EvidenceInv, RevisionsInUse, NewestCheckpoint, CheckpointsOf

(* Evidence written behind the cursor fence keeps the invariant.            *)
LEMMA EvidenceWritten ==
  ASSUME TypeOK, EvidenceInv, NEW g \in Generations, NEW e \in Evaluations,
         NEW lease \in Generations \X Nat, NEW equal \in BOOLEAN, NEW live \in BOOLEAN,
         EvaluationWithinAuthority(g, e), writeEvaluation(g, e, lease, equal, live),
         UNCHANGED authorityVars
  PROVE  EvidenceInv'
<1> DEFINE new == [generation |-> g, revision |-> revision[g] + 1,
                   causalFrom |-> e.causalFrom, observedAt |-> e.observedAt,
                   frame |-> e.frame, lease |-> lease]
<1>1. /\ checkpoints' = checkpoints \cup {new}
      /\ revision' = [revision EXCEPT ![g] = @ + 1]
      /\ summary' = [summary EXCEPT ![g] = [revision |-> revision[g] + 1,
                                            observedAt |-> e.observedAt]]
  BY Zenon DEF writeEvaluation
<1>2. /\ authorityFrom' = authorityFrom /\ authorityUntil' = authorityUntil
      /\ \A h : HasAuthority(h)' <=> HasAuthority(h)
  BY Zenon DEF authorityVars, HasAuthority
<1>3. /\ e.causalFrom \in Nat /\ e.observedAt \in Nat /\ e.frame \in Nat
      /\ revision[g] \in Nat
  BY Zenon, EvaluationsAssumption DEF TypeOK
<1>4. \A h \in Generations : revision'[h] = IF h = g THEN revision[g] + 1 ELSE revision[h]
  BY Zenon, <1>1 DEF TypeOK
<1>5. /\ new.generation = g /\ new.revision = revision[g] + 1
      /\ new.causalFrom = e.causalFrom /\ new.observedAt = e.observedAt
      /\ new.frame = e.frame
  BY Zenon
<1> HIDE DEF new
<1>6. EvidenceInAuthority'
  BY Zenon, <1>1, <1>2, <1>5
  DEF EvidenceInv, EvidenceInAuthority, EvaluationWithinAuthority, WithinAuthority
<1>7. \A k \in checkpoints : k.generation = g => k.revision < new.revision
  BY <1>3, <1>5, CheckpointTypes DEF EvidenceInv, RevisionsInUse
<1>8. RevisionsInUse'
  <2>1. \A k \in checkpoints' : 1 <= k.revision /\ k.revision <= revision'[k.generation]
    BY <1>1, <1>3, <1>4, <1>5, CheckpointTypes DEF EvidenceInv, RevisionsInUse
  <2>2. \A h \in Generations : revision'[h] # 0 =>
          \E k \in checkpoints' : k.generation = h /\ k.revision = revision'[h]
    BY <1>1, <1>4, <1>5 DEF EvidenceInv, RevisionsInUse
  <2>3. \A k, l \in checkpoints' :
          k.generation = l.generation /\ k.revision = l.revision => k = l
    BY <1>1, <1>3, <1>5, <1>7, CheckpointTypes DEF EvidenceInv, RevisionsInUse
  <2> QED  BY Zenon, <2>1, <2>2, <2>3 DEF RevisionsInUse
<1>9. \A k \in checkpoints : k.generation = g => ~CursorBefore(new, k)
  <2> SUFFICES ASSUME NEW k \in checkpoints, k.generation = g  PROVE ~CursorBefore(new, k)
    BY Zenon
  <2>1. 1 <= k.revision /\ k.revision <= revision[g] /\ k.revision \in Nat
    BY Zenon, CheckpointTypes DEF EvidenceInv, RevisionsInUse
  <2>2. PICK n \in checkpoints : n.generation = g /\ n.revision = revision[g]
    BY <1>3, <2>1 DEF EvidenceInv, RevisionsInUse
  <2>3. n \in NewestCheckpoint(g)  BY Zenon, <2>2, NewestIsLastRevision
  <2>4. /\ n.observedAt \in Nat /\ n.frame \in Nat /\ k.observedAt \in Nat /\ k.frame \in Nat
        /\ n.revision \in Nat
    BY Zenon, CheckpointTypes
  <2>5. ~CursorBefore(new, n)
    <3>1. IF equal THEN ~CursorBefore(e, n) ELSE CursorBefore(n, e)
      BY Zenon, <2>3 DEF writeEvaluation, StaleEvaluation
    <3> QED  BY <1>3, <1>5, <2>4, <3>1 DEF CursorBefore
  <2>6. CASE k.revision = n.revision
    BY <2>2, <2>5, <2>6 DEF EvidenceInv, RevisionsInUse
  <2>7. CASE k.revision < n.revision
    <3>1. ~CursorBefore(n, k)  BY Zenon, <2>2, <2>7 DEF EvidenceInv, CursorOrder
    <3> QED  BY Zenon, <1>3, <1>5, <2>4, <2>5, <3>1, CursorTransitive
  <2> QED  BY <2>1, <2>2, <2>4, <2>6, <2>7
<1>10. CursorOrder'
  <2> SUFFICES ASSUME NEW k \in checkpoints', NEW l \in checkpoints',
                      k.generation = l.generation, k.revision < l.revision
               PROVE  ~CursorBefore(l, k)
    BY Zenon DEF CursorOrder, CursorBefore
  <2>1. CASE k \in checkpoints /\ l \in checkpoints  BY Zenon, <2>1 DEF EvidenceInv, CursorOrder
  <2>2. CASE k \in checkpoints /\ l = new  BY Zenon, <1>5, <1>9, <2>2
  <2>3. CASE k = new /\ l \in checkpoints
    BY <1>3, <1>5, <1>7, <2>3, CheckpointTypes
  <2>4. CASE k = new /\ l = new  BY <1>3, <1>5, <2>4
  <2> QED  BY Zenon, <1>1, <2>1, <2>2, <2>3, <2>4
<1>11. SummaryIsNewest'
  <2> SUFFICES ASSUME NEW k \in checkpoints', k.revision = revision'[k.generation]
               PROVE  summary'[k.generation].observedAt = k.observedAt
    BY Zenon DEF SummaryIsNewest
  <2>1. CASE k = new  BY Zenon, <1>1, <1>5, <2>1 DEF TypeOK
  <2>2. CASE k \in checkpoints /\ k.generation = g
    BY <1>3, <1>4, <1>5, <1>7, <2>2, CheckpointTypes
  <2>3. CASE k \in checkpoints /\ k.generation # g
    <3>1. k.generation \in Generations  BY Zenon, <2>3, CheckpointTypes
    <3>2. k.revision = revision[k.generation]  BY Zenon, <1>4, <2>3, <3>1
    <3> QED  BY Zenon, <1>1, <2>3, <3>1, <3>2 DEF EvidenceInv, SummaryIsNewest, TypeOK
  <2> QED  BY Zenon, <1>1, <2>1, <2>2, <2>3
<1> QED  BY Zenon, <1>6, <1>8, <1>10, <1>11 DEF EvidenceInv

(* The watermark check keeps all committed evidence before the boundary, so *)
(* truncating the old interval loses none of it.                            *)
LEMMA EvidenceCutover ==
  ASSUME TypeOK, AuthorityInv, EvidenceInv, NEW m \in Messages, NEW c \in Commands,
         NEW t \in TxTimes, c.generation \in Generations, c.effectiveAt \in Nat,
         CutoverApplied(m, c, t)
  PROVE  EvidenceInv'
<1> DEFINE g == c.generation
           at == c.effectiveAt
<1>1. UNCHANGED <<revision, checkpoints, summary>>
  BY Zenon DEF CutoverApplied, evidenceVars
<1>2. /\ state[g] = "candidate_armed"
      /\ \A h \in Current : ~BehindWatermark(h, at)
  BY Zenon, CutoverGuard DEF CutoverApplied
<1>3. ~HasAuthority(g)  BY Zenon, <1>2 DEF AuthorityInv, AuthorityShape
<1>4. \A h \in Generations : h # g =>
        /\ authorityFrom'[h] = authorityFrom[h]
        /\ authorityUntil'[h] = IF h \in Current THEN at ELSE authorityUntil[h]
  BY Zenon DEF CutoverApplied, TypeOK
<1>5. EvidenceInAuthority'
  <2> SUFFICES ASSUME NEW k \in checkpoints
               PROVE  /\ HasAuthority(k.generation)'
                      /\ authorityFrom'[k.generation] <= k.causalFrom
                      /\ k.causalFrom <= k.observedAt
                      /\ k.observedAt < authorityUntil'[k.generation]
    BY Zenon, <1>1 DEF EvidenceInAuthority
  <2> DEFINE h == k.generation
  <2>1. h \in Generations /\ k.observedAt \in Nat  BY Zenon, CheckpointTypes
  <2>2. /\ HasAuthority(h) /\ authorityFrom[h] <= k.causalFrom
        /\ k.causalFrom <= k.observedAt /\ k.observedAt < authorityUntil[h]
    BY Zenon DEF EvidenceInv, EvidenceInAuthority
  <2>3. h # g  BY Zenon, <1>3, <2>2
  <2>4. h \in Current => k.observedAt < at
    <3>1. k.observedAt <= summary[h].observedAt  BY Zenon, WatermarkBounds
    <3>2. summary[h].observedAt \in Nat \cup {NoTime}  BY Zenon, <2>1 DEF TypeOK
    <3> QED  BY <1>2, <2>1, <3>1, <3>2 DEF BehindWatermark, NoTime
  <2> QED  BY Zenon, <1>4, <2>1, <2>2, <2>3, <2>4 DEF HasAuthority
<1>6. RevisionsInUse'  BY Zenon, <1>1 DEF EvidenceInv, RevisionsInUse
<1>7. CursorOrder'  BY Zenon, <1>1 DEF EvidenceInv, CursorOrder, CursorBefore
<1>8. SummaryIsNewest'  BY Zenon, <1>1 DEF EvidenceInv, SummaryIsNewest
<1> QED  BY Zenon, <1>5, <1>6, <1>7, <1>8 DEF EvidenceInv

(* Every step keeps the evidence invariant.                                 *)
LEMMA EvidenceNext == TypeOK /\ AuthorityInv /\ EvidenceInv /\ [Next]_vars => EvidenceInv'
<1> SUFFICES ASSUME TypeOK, AuthorityInv, EvidenceInv, [Next]_vars  PROVE EvidenceInv'
  BY Zenon
<1>1. ASSUME UNCHANGED <<authorityVars, evidenceVars>>  PROVE EvidenceInv'
  <2>1. UNCHANGED <<authorityFrom, authorityUntil, revision, checkpoints, summary>>
    BY Zenon, <1>1 DEF authorityVars, evidenceVars
  <2> QED  BY Zenon, <2>1 DEF EvidenceInv, EvidenceInAuthority, RevisionsInUse, CursorOrder,
                       SummaryIsNewest, HasAuthority, CursorBefore
<1>2. CASE UNCHANGED vars  BY Zenon, <1>1, <1>2 DEF vars, durable
<1>3. CASE Next
  <2>1. CASE UNCHANGED durable  BY Zenon, <1>1, <2>1 DEF durable
  <2>2. ASSUME NEW m \in Messages, NEW c \in Commands, NEW t \in TxTimes,
               PrepareApplied(m, c, t) \/ PrepareRecorded(m, c) \/ TransitionApplied(m, c)
        PROVE  EvidenceInv'
    BY Zenon, <1>1, <2>2 DEF PrepareApplied, PrepareRecorded, TransitionApplied
  <2>3. CASE \/ \E t \in TxTimes, w \in Workers, g \in Generations : ClaimDueAssignments(w, g, t)
             \/ \E t \in TxTimes, c \in claims : RenewAssignmentLease(c, t)
             \/ \E t \in TxTimes, c \in claims, next \in NextTimes :
                  DeferAssignmentEvaluation(c, next, t)
    BY Zenon, <1>1, <2>3 DEF ClaimDueAssignments, RenewAssignmentLease, DeferAssignmentEvaluation
  <2>4. CASE Committing
    <3> PICK t \in TxTimes, c \in claims, e \in Evaluations, next \in NextTimes :
          \/ CommitEvaluation(c, e, next, t)
          \/ \E h \in Generations : CommitHistoricalEvaluation(c, h, e, next, t)
      BY Zenon, <2>4 DEF Committing
    <3>1. /\ c.generation \in Generations
          /\ <<c.generation, c.leaseGeneration>> \in Generations \X Nat
      BY Zenon DEF TypeOK, Claims
    <3>2. CASE CommitEvaluation(c, e, next, t)
      BY Zenon, <3>1, <3>2, EvidenceWritten DEF CommitEvaluation
    <3>3. CASE \E h \in Generations : CommitHistoricalEvaluation(c, h, e, next, t)
      BY Zenon, <3>1, <3>3, EvidenceWritten DEF CommitHistoricalEvaluation
    <3> QED  BY Zenon, <3>2, <3>3
  <2> QED  BY Zenon, <1>3, <2>1, <2>2, <2>3, <2>4, StepShape, EvidenceCutover
<1> QED  BY Zenon, <1>2, <1>3

(* The inductive invariant of the evidence holds in every state that        *)
(* commits and cutovers reach.                                              *)
THEOREM EvidenceCorrect == Spec => [](TypeOK /\ AuthorityInv /\ EvidenceInv)
<1>1. Init => EvidenceInv  BY Zenon, EvidenceInit
<1>2. TypeOK /\ AuthorityInv /\ EvidenceInv /\ [Next]_vars => EvidenceInv'  BY Zenon, EvidenceNext
<1> QED  BY <1>1, <1>2, AuthorityCorrect, PTL DEF Spec

(* Governed intervals have an end, so lookups and commits test the same.    *)
LEMMA AuthorizesIsWithin ==
  ASSUME TypeOK, AuthorityInv, NEW g \in Generations, NEW at
  PROVE  Authorizes(g, at) <=> WithinAuthority(g, at)
<1>1. /\ authorityFrom \in [Generations -> Nat \cup {NoTime}]
      /\ authorityUntil \in [Generations -> Nat \cup {NoTime}]
  BY Zenon DEF TypeOK
<1>2. HasAuthority(g) => authorityFrom[g] < authorityUntil[g]
  BY Zenon DEF AuthorityInv, AuthorityShape
<1>3. HasAuthority(g) => authorityUntil[g] # NoTime  BY <1>1, <1>2 DEF HasAuthority, NoTime
<1> QED  BY Zenon, <1>3 DEF Authorizes, WithinAuthority

(* Committed evidence stays attributed: ResolveAssignmentAt returns its own *)
(* generation for every event time of its causal range, after any number of *)
(* cutovers and historical commits (store.go:470-476, 515-529).             *)
THEOREM EvidenceStaysAttributedCorrect == Spec => []EvidenceStaysAttributed
<1>1. TypeOK /\ AuthorityInv /\ EvidenceInv => EvidenceStaysAttributed
  <2> SUFFICES ASSUME TypeOK, AuthorityInv, EvidenceInv, NEW k \in checkpoints,
                      NEW at \in k.causalFrom .. k.observedAt
               PROVE  ResolveAssignmentAt(at) = {k.generation}
    BY Zenon DEF EvidenceStaysAttributed
  <2> DEFINE g == k.generation
  <2>0. \A h \in Generations : authorityFrom[h] \in Int /\ authorityUntil[h] \in Int
    <3>1. /\ authorityFrom \in [Generations -> Nat \cup {NoTime}]
          /\ authorityUntil \in [Generations -> Nat \cup {NoTime}]
      BY Zenon DEF TypeOK
    <3> QED  BY <3>1 DEF NoTime
  <2>1. /\ g \in Generations /\ k.causalFrom \in Nat /\ k.observedAt \in Nat /\ at \in Int
        /\ k.causalFrom <= at /\ at <= k.observedAt
    BY CheckpointTypes
  <2>2. WithinAuthority(g, at)
    BY <2>0, <2>1 DEF EvidenceInv, EvidenceInAuthority, WithinAuthority
  <2>3. \A h \in Generations : WithinAuthority(h, at) => h = g
    <3> SUFFICES ASSUME NEW h \in Generations, WithinAuthority(h, at), h # g  PROVE FALSE
      BY Zenon
    <3>0. h \in Nat /\ g \in Nat  BY Zenon, <2>1, GenerationsAssumption
    <3>1. h < g \/ g < h  BY <3>0
    <3>2. authorityUntil[h] <= authorityFrom[g] \/ authorityUntil[g] <= authorityFrom[h]
      BY Zenon, <2>1, <2>2, <3>1 DEF AuthorityInv, AuthorityIsHandedOver, WithinAuthority
    <3> QED  BY <2>0, <2>1, <2>2, <3>2 DEF WithinAuthority
  <2>4. authorityFrom[g] <= authorityFrom[g]  BY <2>0, <2>1
  <2>5. Authorizes(g, at) /\ \A h \in Generations : Authorizes(h, at) => h = g
    BY Zenon, <2>1, <2>2, <2>3, AuthorizesIsWithin
  <2> QED  BY Zenon, <2>1, <2>4, <2>5 DEF ResolveAssignmentAt
<1> QED  BY <1>1, EvidenceCorrect, PTL

(* The rows of the assignment and checkpoint tables always satisfy the      *)
(* unique indexes and CHECK constraints of the schema, so that no           *)
(* transaction of a lifecycle command, claim or commit can fail on one      *)
(* (001_initial.sql:46-65, 91).                                             *)
THEOREM SchemaConstraintsHoldCorrect == Spec => []SchemaConstraintsHold
<1>1. TypeOK /\ AuthorityInv /\ EvidenceInv => SchemaConstraintsHold
  <2> SUFFICES ASSUME TypeOK, AuthorityInv, EvidenceInv  PROVE SchemaConstraintsHold
    BY Zenon
  <2>1. \A g, h \in Generations : {state[g], state[h]} \subseteq Candidates => g = h
    BY GenerationsAssumption DEF AuthorityInv, CandidateIsLatest, Latest, Exists, Candidates
  <2>2. \A g \in Generations :
          /\ HasAuthority(g) => authorityFrom[g] < authorityUntil[g]
          /\ ~HasAuthority(g) => authorityUntil[g] = NoTime
          /\ state[g] \in Candidates \cup {"none", "cancelled"} => ~HasAuthority(g)
          /\ g \in Current => HasAuthority(g)
    BY Zenon DEF AuthorityInv, AuthorityShape, Candidates
  <2> QED  BY Zenon, <2>1, <2>2
           DEF SchemaConstraintsHold, AuthorityInv, OneCurrent, EvidenceInv, RevisionsInUse
<1> QED  BY <1>1, EvidenceCorrect, PTL

(* Replay order is commit order, and the summary CutoverAssignment reads is *)
(* the largest event time committed (store.go:463, 999).                    *)
THEOREM WatermarkIsMonotoneCorrect == Spec => []WatermarkIsMonotone
<1>1. TypeOK /\ EvidenceInv => WatermarkIsMonotone
  BY Zenon, WatermarkBounds DEF WatermarkIsMonotone, EvidenceInv, CursorOrder
<1> QED  BY <1>1, EvidenceCorrect, PTL

-----------------------------------------------------------------------------
(* The records of the lifecycle commands *)

(* The row that `ORDER BY assignment_generation DESC LIMIT 1' returns is    *)
(* there as soon as any row is.                                             *)
LatestExists == (\E g \in Generations : Exists(g)) => \E g \in Generations : Latest(g)

IdentityInv == LatestExists /\ IdentityIsStable

(* Steps that add no generation.                                            *)
LEMMA IdentityKept ==
  ASSUME IdentityInv, spec' = spec, \A g \in Generations : Exists(g)' <=> Exists(g)
  PROVE  IdentityInv'
<1>1. \A g \in Generations : Latest(g)' <=> Latest(g)  BY Zenon DEF Latest
<1> QED  BY Zenon, <1>1 DEF IdentityInv, LatestExists, IdentityIsStable

(* A new generation is compared with the latest one, which has the identity *)
(* of all.                                                                  *)
LEMMA IdentityPrepare ==
  ASSUME TypeOK, IdentityInv, NEW m \in Messages, NEW c \in Commands, NEW t \in TxTimes,
         c.generation \in Generations, PrepareApplied(m, c, t)
  PROVE  IdentityInv'
<1> DEFINE g == c.generation
<1>1. /\ \A h \in Generations : Exists(h) => h < g
      /\ SameIdentity(c)
      /\ spec' = [spec EXCEPT ![g] = c.spec]
      /\ state' = [h \in Generations |->
                     IF h = g THEN "candidate_received"
                     ELSE IF h \in Replaced THEN "superseded" ELSE state[h]]
  BY Zenon DEF PrepareApplied
<1>2. g \in Nat /\ \A h \in Generations : h \in Nat  BY Zenon, GenerationsAssumption
<1>3. \A h \in Generations : Exists(h)' <=> Exists(h) \/ h = g
  BY Zenon, <1>1 DEF Exists, Replaced, Candidates
<1>4. Latest(g)'
  <2>1. \A h \in Generations : (h < g \/ h = g) => h <= g
    <3> HIDE DEF g
    <3> QED  BY <1>2
  <2> QED  BY Zenon, <1>1, <1>3, <2>1 DEF Latest
<1>5. ASSUME NEW h \in Generations, Exists(h)  PROVE spec[h].identity = c.spec.identity
  <2>1. PICK l \in Generations : Latest(l)  BY Zenon, <1>5 DEF IdentityInv, LatestExists
  <2>2. spec[l].identity = c.spec.identity  BY Zenon, <1>1, <2>1 DEF SameIdentity
  <2>3. Exists(l)  BY Zenon, <2>1 DEF Latest
  <2> QED  BY Zenon, <1>5, <2>2, <2>3 DEF IdentityInv, IdentityIsStable
<1>6. \A h \in Generations : Exists(h)' => spec'[h].identity = c.spec.identity
  BY Zenon, <1>1, <1>3, <1>5 DEF TypeOK
<1> QED  BY Zenon, <1>4, <1>6 DEF IdentityInv, LatestExists, IdentityIsStable

(* The rows of one generation form a path from no row to its state.         *)
Path(g) ==
  {r.to : r \in {r \in transitions : r.generation = g}} \cup {"none"}
    = {r.from : r \in {r \in transitions : r.generation = g}} \cup {state[g]}

AuditInv ==
  /\ \A g \in Generations : Path(g)
  /\ apiOutbox = {m \in Messages : inbox[m].disposition = "applied"}
  /\ apiOutbox = {r.message : r \in transitions}

(* A command that is applied writes a row for every generation it moves,    *)
(* from the state it was in, next to its inbox row and its receipt.         *)
LEMMA AuditApplied ==
  ASSUME TypeOK, AuditInv, NEW m \in Messages, NEW c \in Commands, NEW moved \in SUBSET Generations,
         NEW rows, rows = {TransitionRow(m, g, state[g], state'[g]) : g \in moved},
         moved # {}, \A g \in Generations \ moved : state'[g] = state[g],
         Record(m, c, "applied"), transitions' = transitions \cup rows,
         apiOutbox' = apiOutbox \cup {m}
  PROVE  AuditInv'
<1>1. ASSUME NEW g \in Generations  PROVE Path(g)'
  <2>1. CASE g \notin moved
    <3>1. {r \in transitions' : r.generation = g} = {r \in transitions : r.generation = g}
      BY <2>1 DEF TransitionRow
    <3> QED  BY Zenon, <2>1, <3>1 DEF AuditInv, Path
  <2>2. CASE g \in moved
    <3> DEFINE new == TransitionRow(m, g, state[g], state'[g])
    <3>1. {r \in transitions' : r.generation = g}
            = {r \in transitions : r.generation = g} \cup {new}
      BY <2>2 DEF TransitionRow
    <3>2. new.from = state[g] /\ new.to = state'[g]  BY Zenon DEF TransitionRow
    <3> HIDE DEF new
    <3>3. {r.to : r \in {r \in transitions' : r.generation = g}}
            = {r.to : r \in {r \in transitions : r.generation = g}} \cup {state'[g]}
      BY <3>1, <3>2
    <3>4. {r.from : r \in {r \in transitions' : r.generation = g}}
            = {r.from : r \in {r \in transitions : r.generation = g}} \cup {state[g]}
      BY <3>1, <3>2
    <3>5. Path(g)  BY Zenon DEF AuditInv
    <3> QED  BY Zenon, <3>3, <3>4, <3>5 DEF Path
  <2> QED  BY Zenon, <2>1, <2>2
<1>2. apiOutbox' = {n \in Messages : inbox'[n].disposition = "applied"}
  BY DEF AuditInv, Record, TypeOK
<1>3. apiOutbox' = {r.message : r \in transitions'}
  <2>1. \A r \in rows : r.message = m  BY DEF TransitionRow
  <2>2. rows # {}  BY Zenon
  <2> QED  BY Zenon, <2>1, <2>2 DEF AuditInv
<1> QED  BY Zenon, <1>1, <1>2, <1>3 DEF AuditInv

(* Every lifecycle command keeps both invariants.                           *)
LEMMA AuditLifecycle ==
  ASSUME TypeOK, AuditInv, IdentityInv, NEW m \in Messages, NEW c \in Commands, NEW t \in TxTimes,
         c.generation \in Generations, ~Delivered(m)
  PROVE  /\ PrepareApplied(m, c, t) => AuditInv' /\ IdentityInv'
         /\ PrepareRecorded(m, c) => AuditInv' /\ IdentityInv'
         /\ TransitionApplied(m, c) => AuditInv' /\ IdentityInv'
         /\ CutoverApplied(m, c, t) => AuditInv' /\ IdentityInv'
<1> DEFINE g == c.generation
<1>1. ASSUME PrepareApplied(m, c, t)  PROVE AuditInv' /\ IdentityInv'
  <2>1. state[g] = "none"
    <3>1. g \in Nat  BY Zenon, GenerationsAssumption
    <3> QED  BY <1>1, <3>1 DEF PrepareApplied, Exists
  <2>2. /\ state' = [h \in Generations |->
                       IF h = g THEN "candidate_received"
                       ELSE IF h \in Replaced THEN "superseded" ELSE state[h]]
        /\ Record(m, c, "applied") /\ apiOutbox' = apiOutbox \cup {m}
        /\ transitions' = transitions
             \cup {TransitionRow(m, g, "none", "candidate_received")}
             \cup SupersededRows(m, Replaced)
    BY Zenon, <1>1 DEF PrepareApplied
  <2>3. g \notin Replaced /\ Replaced \subseteq Generations  BY Zenon, <2>1 DEF Replaced, Candidates
  <2>4. {TransitionRow(m, g, "none", "candidate_received")} \cup SupersededRows(m, Replaced)
          = {TransitionRow(m, h, state[h], state'[h]) : h \in {g} \cup Replaced}
    BY Zenon, <2>1, <2>2, <2>3 DEF SupersededRows
  <2> DEFINE moved == {g} \cup Replaced
             rows == {TransitionRow(m, h, state[h], state'[h]) : h \in moved}
  <2>5. /\ transitions' = transitions \cup rows
        /\ moved \in SUBSET Generations /\ moved # {}
        /\ \A h \in Generations \ moved : state'[h] = state[h]
    BY Zenon, <2>2, <2>3, <2>4
  <2>6. AuditInv'
    <3> HIDE DEF moved
    <3> QED  BY Zenon, <2>2, <2>5, AuditApplied
  <2> QED  BY Zenon, <1>1, <2>6, IdentityPrepare
<1>2. ASSUME PrepareRecorded(m, c)  PROVE AuditInv' /\ IdentityInv'
  <2>1. /\ UNCHANGED <<state, spec, transitions, apiOutbox>>
        /\ \E d \in {"stale", "idempotent"} : Record(m, c, d)
    BY Zenon, <1>2 DEF PrepareRecorded, rowVars
  <2>2. inbox[m].disposition # "applied"  BY DEF Delivered, NotDelivered
  <2>3. \A n \in Messages :
          inbox'[n].disposition = "applied" <=> inbox[n].disposition = "applied"
    BY <2>1, <2>2 DEF Record, TypeOK
  <2>4. {n \in Messages : inbox'[n].disposition = "applied"}
          = {n \in Messages : inbox[n].disposition = "applied"}
    BY Zenon, <2>3
  <2>5. \A h \in Generations : Path(h)' <=> Path(h)  BY Zenon, <2>1 DEF Path
  <2>6. AuditInv'  BY Zenon, <2>1, <2>4, <2>5 DEF AuditInv
  <2> QED  BY Zenon, <2>1, <2>6, IdentityKept DEF Exists
<1>3. ASSUME TransitionApplied(m, c)  PROVE AuditInv' /\ IdentityInv'
  <2>1. /\ Exists(g) /\ state' = [state EXCEPT ![g] = Target(c)] /\ spec' = spec
        /\ Record(m, c, "applied") /\ apiOutbox' = apiOutbox \cup {m}
        /\ transitions' = transitions \cup {TransitionRow(m, g, state[g], Target(c))}
    BY Zenon, <1>3 DEF TransitionApplied, recordLifecycleCommand, Latest
  <2>2. /\ state'[g] = Target(c) /\ Target(c) # "none"
        /\ \A h \in Generations \ {g} : state'[h] = state[h]
    BY Zenon, <2>1 DEF TypeOK, Target
  <2>3. {TransitionRow(m, g, state[g], Target(c))}
          = {TransitionRow(m, h, state[h], state'[h]) : h \in {g}}
    BY <2>2
  <2>4. AuditInv'  BY Zenon, <2>1, <2>2, <2>3, AuditApplied
  <2> QED  BY Zenon, <2>1, <2>2, <2>4, IdentityKept DEF Exists
<1>4. ASSUME CutoverApplied(m, c, t)  PROVE AuditInv' /\ IdentityInv'
  <2>1. state[g] = "candidate_armed"  BY Zenon, <1>4, CutoverGuard DEF CutoverApplied
  <2>2. /\ state' = [h \in Generations |->
                       IF h = g THEN "active"
                       ELSE IF h \in Current THEN "superseded" ELSE state[h]]
        /\ spec' = spec
        /\ Record(m, c, "applied") /\ apiOutbox' = apiOutbox \cup {m}
        /\ transitions' = transitions
             \cup ({TransitionRow(m, g, "candidate_armed", "active")} \cup SupersededRows(m, Current))
    BY Zenon, <1>4 DEF CutoverApplied, recordLifecycleCommand
  <2>3. g \notin Current /\ Current \subseteq Generations  BY Zenon, <2>1 DEF Current
  <2>4. {TransitionRow(m, g, "candidate_armed", "active")} \cup SupersededRows(m, Current)
          = {TransitionRow(m, h, state[h], state'[h]) : h \in {g} \cup Current}
    BY Zenon, <2>1, <2>2, <2>3 DEF SupersededRows
  <2> DEFINE moved == {g} \cup Current
             rows == {TransitionRow(m, h, state[h], state'[h]) : h \in moved}
  <2>5. /\ transitions' = transitions \cup rows
        /\ moved \in SUBSET Generations /\ moved # {}
        /\ \A h \in Generations \ moved : state'[h] = state[h]
    BY Zenon, <2>2, <2>3, <2>4
  <2>6. AuditInv'
    <3> HIDE DEF moved
    <3> QED  BY Zenon, <2>2, <2>5, AuditApplied
  <2>7. \A h \in Generations : Exists(h)' <=> Exists(h)
    BY Zenon, <2>1, <2>2 DEF Exists, Current
  <2> QED  BY Zenon, <2>2, <2>6, <2>7, IdentityKept
<1> QED  BY Zenon, <1>1, <1>2, <1>3, <1>4

(* Every step keeps both invariants.                                        *)
LEMMA AuditNext ==
  TypeOK /\ AuditInv /\ IdentityInv /\ [Next]_vars => AuditInv' /\ IdentityInv'
<1> SUFFICES ASSUME TypeOK, AuditInv, IdentityInv, [Next]_vars  PROVE AuditInv' /\ IdentityInv'
  BY Zenon
<1>1. ASSUME UNCHANGED <<rowVars, commandVars>>  PROVE AuditInv' /\ IdentityInv'
  <2>1. UNCHANGED <<state, spec, inbox, transitions, apiOutbox>>
    BY Zenon, <1>1 DEF rowVars, commandVars
  <2> QED  BY Zenon, <2>1, IdentityKept DEF AuditInv, Path, Exists
<1>2. CASE UNCHANGED vars  BY Zenon, <1>1, <1>2 DEF vars, durable
<1>3. CASE Next
  <2>1. CASE UNCHANGED durable  BY Zenon, <1>1, <2>1 DEF durable
  <2>2. CASE \/ \E t \in TxTimes, w \in Workers, g \in Generations : ClaimDueAssignments(w, g, t)
             \/ \E t \in TxTimes, c \in claims : RenewAssignmentLease(c, t)
             \/ \E t \in TxTimes, c \in claims, next \in NextTimes :
                  DeferAssignmentEvaluation(c, next, t)
    BY Zenon, <1>1, <2>2 DEF ClaimDueAssignments, RenewAssignmentLease, DeferAssignmentEvaluation
  <2>3. CASE Committing
    BY Zenon, <1>1, <2>3 DEF Committing, CommitEvaluation, CommitHistoricalEvaluation
  <2> QED  BY Zenon, <1>3, <2>1, <2>2, <2>3, StepShape, AuditLifecycle
<1> QED  BY Zenon, <1>2, <1>3

(* The inductive invariant of the records holds in every state that the     *)
(* lifecycle commands reach.                                                *)
THEOREM AuditCorrect == Spec => [](AuditInv /\ IdentityInv)
<1>1. Init => AuditInv /\ IdentityInv
  <2> SUFFICES ASSUME Init  PROVE AuditInv /\ IdentityInv
    BY Zenon
  <2>1. \A g \in Generations : state[g] = "none"  BY Zenon DEF Init
  <2>2. transitions = {} /\ apiOutbox = {} /\ \A m \in Messages : inbox[m].disposition = "none"
    BY Zenon DEF Init, NotDelivered
  <2>3. AuditInv  BY Zenon, <2>1, <2>2 DEF AuditInv, Path
  <2> QED  BY Zenon, <2>1, <2>3 DEF IdentityInv, LatestExists, IdentityIsStable, Exists
<1> QED  BY <1>1, AuditNext, TypeCorrect, PTL DEF Spec

(* All generations of an assignment monitor the same aircraft, flight and   *)
(* intent, although a new one is compared with the latest row only          *)
(* (store.go:194-199).                                                      *)
THEOREM IdentityIsStableCorrect == Spec => []IdentityIsStable
<1>1. IdentityInv => IdentityIsStable  BY Zenon DEF IdentityInv
<1> QED  BY <1>1, AuditCorrect, PTL

(* The transition history explains the state of every row, and each applied *)
(* command wrote it together with its inbox row and its receipt             *)
(* (store.go:216-240, 484-492, 621-638).                                    *)
THEOREM AuditTrailIsCompleteCorrect == Spec => []AuditTrailIsComplete
<1>1. AuditInv => AuditTrailIsComplete  BY Zenon DEF AuditInv, Path, AuditTrailIsComplete
<1> QED  BY <1>1, AuditCorrect, PTL

=============================================================================
