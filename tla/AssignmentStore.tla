---------------------------- MODULE AssignmentStore ----------------------------
(***************************************************************************)
(* The PostgreSQL store of one logical assignment: the blue-green         *)
(* lifecycle of its generations, the evaluation leases, and the evidence  *)
(* that evaluation commits behind them (internal/store/postgres/store.go, *)
(* migrations/001_initial.sql).                                           *)
(*                                                                         *)
(* One action is one transaction.  Lifecycle commands of an assignment    *)
(* are serialised by its advisory lock, every other transaction is a      *)
(* single UPDATE of the assignment row or starts with one, and the row    *)
(* lock holds until commit, so a transaction takes effect at one point.   *)
(* Its now() was read when it BEGAN: a transaction that waited for a lock *)
(* works with a clock up to MaxLag behind (TxTimes).                      *)
(*                                                                         *)
(* Abstractions: a payload hash is the command itself (SHA-256 taken as   *)
(* injective); a telemetry cursor is an event time and the position       *)
(* `frame' of (wal_id, wal_sequence, frame_id) among the frames of that   *)
(* time; a source and message ID pair is one message; SQL NULL is NoTime, *)
(* NoSpec or NoWorker; timestamps are small naturals.  The incident and   *)
(* event rows that writeEvaluation derives from the transitions of an     *)
(* evaluation are not part of this module: see IncidentHistory.           *)
(***************************************************************************)
EXTENDS Integers

CONSTANTS
  Generations,        \* assignment generations that may be delivered
  Specs,              \* immutable specifications: identity and effective window
  Messages,           \* (source, message_id) pairs
  Deliveries,         \* <<message, command>> pairs the API may deliver, and redeliver
  Workers,            \* evaluator replicas
  Evaluations,        \* evaluations a worker may try to commit
  LeaseDuration,      \* lease length, PostgreSQL clock
  FinalizationGrace,  \* how long an ended interval stays claimable
  NextTimes,          \* next_evaluation_at values workers may ask for
  MaxTime,            \* bound on the clock
  MaxLag,             \* bound on how far a transaction's now() is behind at commit
  MaxLeases,          \* bound on lease_generation
  NoSpec, NoWorker    \* NULL specification and NULL lease_owner

NoTime == -1

Candidates == {"candidate_received", "candidate_armed"}
Lifecycles == Candidates \cup {"active", "ending", "completed", "cancelled", "superseded"}

PrepareCommands ==
  [type : {"assignment_prepared"}, generation : Generations, spec : Specs]
CandidateCommands ==
  [type : {"assignment_armed", "assignment_cancelled"}, generation : Generations]
CutoverCommands ==
  [type : {"assignment_cutover"}, generation : Generations, effectiveAt : Nat]
Commands == PrepareCommands \cup CandidateCommands \cup CutoverCommands

ASSUME GenerationsAssumption == Generations \subseteq Nat \ {0}
ASSUME SpecsAssumption ==
  /\ \A s \in Specs : s.effectiveFrom \in Nat /\ s.effectiveUntil \in Nat
  /\ NoSpec \notin Specs
ASSUME DeliveriesAssumption == Deliveries \subseteq Messages \X Commands
ASSUME WorkersAssumption == NoWorker \notin Workers
ASSUME EvaluationsAssumption ==
  Evaluations \subseteq [causalFrom : Nat, observedAt : Nat, frame : Nat]
ASSUME BoundsAssumption ==
  /\ LeaseDuration \in Nat \ {0}
  /\ FinalizationGrace \in Nat
  /\ NextTimes \subseteq Nat
  /\ MaxTime \in Nat
  /\ MaxLag \in Nat
  /\ MaxLeases \in Nat

VARIABLES
  now,               \* the PostgreSQL clock
  state,             \* lifecycle_state of each generation; "none" is no row
  spec,              \* specification
  authorityFrom,     \* authority_from_unix_ns
  authorityUntil,    \* authority_until_unix_ns
  leaseOwner,        \* lease_owner
  leaseGeneration,   \* lease_generation
  leaseUntil,        \* lease_until
  nextEvaluationAt,  \* next_evaluation_at
  revision,          \* evaluation_revision
  inbox,             \* conformance_inbox
  transitions,       \* conformance_assignment_transitions
  apiOutbox,         \* conformance_outbox rows for destination 'api'
  checkpoints,       \* conformance_checkpoints, with the lease each commit consumed
  summary,           \* conformance_summaries
  registryOutbox,    \* conformance_outbox rows for destination 'registry'
  claims,            \* every Claim handed out: workers may use one late, or twice
  reply              \* what the last lifecycle command answered

clockVars == <<now>>
rowVars == <<state, spec>>
authorityVars == <<authorityFrom, authorityUntil>>
leaseVars == <<leaseOwner, leaseGeneration, leaseUntil, nextEvaluationAt>>
commandVars == <<inbox, transitions, apiOutbox>>
evidenceVars == <<revision, checkpoints, summary, registryOutbox>>
durable == <<rowVars, authorityVars, leaseVars, commandVars, evidenceVars, claims>>
vars == <<clockVars, durable, reply>>

-----------------------------------------------------------------------------
(* Types                                                                   *)

Dispositions == {"applied", "idempotent", "stale"}
NotDelivered == [disposition |-> "none"]
InboxEntries == [command : Commands, disposition : Dispositions]

TransitionRows ==
  [message : Messages, generation : Generations,
   from : Lifecycles \cup {"none"}, to : Lifecycles]

Checkpoints ==
  [generation : Generations, revision : Nat, causalFrom : Nat, observedAt : Nat,
   frame : Nat, lease : Generations \X Nat]

Claims ==
  [worker : Workers, generation : Generations, leaseGeneration : Nat, revision : Nat]

NoReply == [disposition |-> "none"]
Replies ==
  [command : Commands, disposition : Dispositions, lifecycle : Lifecycles \cup {"none"}]
    \cup [command : Commands,
          disposition : {"message_conflict", "stale_assignment", "invalid_transition"}]

(* Every column holds a value of its SQL type.                              *)
TypeOK ==
  /\ now \in Nat
  /\ state \in [Generations -> Lifecycles \cup {"none"}]
  /\ spec \in [Generations -> Specs \cup {NoSpec}]
  /\ \A g \in Generations : state[g] # "none" => spec[g] \in Specs
  /\ authorityFrom \in [Generations -> Nat \cup {NoTime}]
  /\ authorityUntil \in [Generations -> Nat \cup {NoTime}]
  /\ leaseOwner \in [Generations -> Workers \cup {NoWorker}]
  /\ leaseGeneration \in [Generations -> Nat]
  /\ leaseUntil \in [Generations -> Nat \cup {NoTime}]
  /\ nextEvaluationAt \in [Generations -> Nat]
  /\ revision \in [Generations -> Nat]
  /\ inbox \in [Messages -> InboxEntries \cup {NotDelivered}]
  /\ transitions \subseteq TransitionRows
  /\ apiOutbox \subseteq Messages
  /\ checkpoints \subseteq Checkpoints
  /\ summary \in [Generations -> [revision : Nat, observedAt : Nat \cup {NoTime}]]
  /\ registryOutbox \subseteq [generation : Generations, revision : Nat]
  /\ claims \subseteq Claims
  /\ reply \in Replies \cup {NoReply}

-----------------------------------------------------------------------------
(* Reads                                                                   *)

(* The values now() may have in a transaction that commits at this instant. *)
TxTimes == {t \in 0..now : now - t <= MaxLag}

Exists(g) == state[g] # "none"
Current == {g \in Generations : state[g] \in {"active", "ending"}}
HasAuthority(g) == authorityFrom[g] # NoTime

(* The row `ORDER BY assignment_generation DESC LIMIT 1' returns.           *)
Latest(g) == Exists(g) /\ \A h \in Generations : Exists(h) => h <= g

(* Half-open authority as lookups test it: an interval without an end is    *)
(* open.                                                                    *)
Authorizes(g, at) ==
  /\ HasAuthority(g) /\ authorityFrom[g] <= at
  /\ authorityUntil[g] = NoTime \/ at < authorityUntil[g]

(* The generations ResolveAssignmentAt may return for an event time.        *)
ResolveAssignmentAt(at) ==
  {g \in Generations :
     /\ Authorizes(g, at)
     /\ \A h \in Generations : Authorizes(h, at) => authorityFrom[h] <= authorityFrom[g]}

CheckpointsOf(g) == {k \in checkpoints : k.generation = g}

(* compareEvaluationCursor: k sorts strictly before e.                      *)
CursorBefore(k, e) ==
  \/ k.observedAt < e.observedAt
  \/ k.observedAt = e.observedAt /\ k.frame < e.frame

(* The checkpoint with the highest evaluation_revision, if there is one.    *)
NewestCheckpoint(g) ==
  {k \in CheckpointsOf(g) : \A l \in CheckpointsOf(g) : l.revision <= k.revision}

(* The checkpoint GetReplayCheckpoint finds: the highest cursor.            *)
GetReplayCheckpoint(g, atOrBefore) ==
  LET eligible == {k \in CheckpointsOf(g) : k.observedAt <= atOrBefore}
  IN  {k \in eligible : \A l \in eligible : ~CursorBefore(k, l)}

-----------------------------------------------------------------------------
(* Lifecycle commands                                                      *)

Init ==
  /\ now = 0
  /\ state = [g \in Generations |-> "none"]
  /\ spec = [g \in Generations |-> NoSpec]
  /\ authorityFrom = [g \in Generations |-> NoTime]
  /\ authorityUntil = [g \in Generations |-> NoTime]
  /\ leaseOwner = [g \in Generations |-> NoWorker]
  /\ leaseGeneration = [g \in Generations |-> 0]
  /\ leaseUntil = [g \in Generations |-> NoTime]
  /\ nextEvaluationAt = [g \in Generations |-> 0]
  /\ revision = [g \in Generations |-> 0]
  /\ inbox = [m \in Messages |-> NotDelivered]
  /\ transitions = {}
  /\ apiOutbox = {}
  /\ checkpoints = {}
  /\ summary = [g \in Generations |-> [revision |-> 0, observedAt |-> NoTime]]
  /\ registryOutbox = {}
  /\ claims = {}
  /\ reply = NoReply

Delivered(m) == inbox[m] # NotDelivered

(* Mutant: the outcome of the command is not recorded.                      *)
Record_NoOutcome(m, c, disposition) ==
  inbox' = [inbox EXCEPT ![m] = [command |-> c, disposition |-> "none"]]

Record(m, c, disposition) ==
  inbox' = [inbox EXCEPT ![m] = [command |-> c, disposition |-> disposition]]

(* LifecycleResult carries the record as it is when the transaction         *)
(* commits; ApplyResult carries no lifecycle.                               *)
Answer(c, disposition) ==
  reply' = [command |-> c, disposition |-> disposition,
            lifecycle |-> IF c.type = "assignment_prepared" THEN "none"
                          ELSE state'[c.generation]]

(* An error rolls the transaction back.                                     *)
Reject(c, error) ==
  /\ reply' = [command |-> c, disposition |-> error]
  /\ UNCHANGED <<clockVars, durable>>

TransitionRow(m, g, from, to) ==
  [message |-> m, generation |-> g, from |-> from, to |-> to]

(* A message ID seen before: the same content is answered from the inbox,   *)
(* any other content is a conflict.                                         *)
Redeliver(m, c) ==
  /\ Delivered(m)
  /\ \/ /\ inbox[m].command = c
        /\ UNCHANGED <<clockVars, durable>>
        /\ Answer(c, IF inbox[m].disposition = "stale" THEN "stale" ELSE "idempotent")
     \/ /\ inbox[m].command # c
        /\ Reject(c, "message_conflict")

(* Mutant: an armed candidate is not replaced.                              *)
Replaced_ReceivedOnly == {h \in Generations : state[h] = "candidate_received"}

(* The candidate rows a newer candidate replaces.                           *)
Replaced == {h \in Generations : state[h] \in Candidates}

(* Mutant: the superseded generation gets no transition row.                *)
SupersededRows_Missing(m, hs) == {}

(* The rows that tell a generation was superseded, and from which state.    *)
SupersededRows(m, hs) == {TransitionRow(m, h, state[h], "superseded") : h \in hs}

(* Mutant: a generation is compared with the current row.                   *)
SameIdentity_CurrentRow(c) == \A h \in Current : spec[h].identity = c.spec.identity

(* The identity of a generation is compared with the latest row's.          *)
SameIdentity(c) == \A h \in Generations : Latest(h) => spec[h].identity = c.spec.identity

PrepareApplied(m, c, t) ==
  /\ \A h \in Generations : Exists(h) => h < c.generation
  /\ SameIdentity(c)
  /\ state' = [h \in Generations |->
                 IF h = c.generation THEN "candidate_received"
                 ELSE IF h \in Replaced THEN "superseded" ELSE state[h]]
  /\ spec' = [spec EXCEPT ![c.generation] = c.spec]
  /\ leaseOwner' = [h \in Generations |-> IF h \in Replaced THEN NoWorker ELSE leaseOwner[h]]
  /\ leaseUntil' = [h \in Generations |-> IF h \in Replaced THEN NoTime ELSE leaseUntil[h]]
  /\ nextEvaluationAt' = [nextEvaluationAt EXCEPT ![c.generation] = t]
  /\ Record(m, c, "applied")
  /\ transitions' = transitions
       \cup {TransitionRow(m, c.generation, "none", "candidate_received")}
       \cup SupersededRows(m, Replaced)
  /\ apiOutbox' = apiOutbox \cup {m}
  /\ Answer(c, "applied")
  /\ UNCHANGED <<clockVars, authorityVars, leaseGeneration, evidenceVars, claims>>

(* Recorded in the inbox only: an older generation is stale, and the newest *)
(* one delivered again under another message ID is idempotent.              *)
PrepareRecorded(m, c) ==
  /\ \/ /\ \E h \in Generations : Exists(h) /\ c.generation < h
        /\ Record(m, c, "stale")
        /\ Answer(c, "stale")
     \/ /\ Latest(c.generation)
        /\ spec[c.generation] = c.spec
        /\ Record(m, c, "idempotent")
        /\ Answer(c, "idempotent")
  /\ UNCHANGED <<clockVars, rowVars, authorityVars, leaseVars, transitions, apiOutbox,
                 evidenceVars, claims>>

PrepareConflict(c) ==
  /\ \/ Latest(c.generation) /\ spec[c.generation] # c.spec
     \/ /\ \A h \in Generations : Exists(h) => h < c.generation
        /\ ~SameIdentity(c)
  /\ Reject(c, "message_conflict")

PrepareAssignment(m, c, t) ==
  /\ c.type = "assignment_prepared"
  /\ c.spec.effectiveFrom < c.spec.effectiveUntil
  /\ \/ Redeliver(m, c)
     \/ /\ ~Delivered(m)
        /\ PrepareApplied(m, c, t) \/ PrepareRecorded(m, c) \/ PrepareConflict(c)

Target(c) == IF c.type = "assignment_armed" THEN "candidate_armed" ELSE "cancelled"

ValidTransition(from, to) ==
  \/ from = "candidate_received" /\ to = "candidate_armed"
  \/ from \in Candidates /\ to = "cancelled"

(* The inbox, transition and receipt rows every lifecycle command writes.   *)
recordLifecycleCommand(m, c, rows) ==
  /\ Record(m, c, "applied")
  /\ transitions' = transitions \cup rows
  /\ apiOutbox' = apiOutbox \cup {m}

TransitionApplied(m, c) ==
  LET g == c.generation IN
  /\ Latest(g)
  /\ ValidTransition(state[g], Target(c))
  /\ state' = [state EXCEPT ![g] = Target(c)]
  /\ leaseOwner' = [leaseOwner EXCEPT ![g] = IF Target(c) = "cancelled" THEN NoWorker ELSE @]
  /\ leaseUntil' = [leaseUntil EXCEPT ![g] = IF Target(c) = "cancelled" THEN NoTime ELSE @]
  /\ recordLifecycleCommand(m, c, {TransitionRow(m, g, state[g], Target(c))})
  /\ Answer(c, "applied")
  /\ UNCHANGED <<clockVars, spec, authorityVars, leaseGeneration, nextEvaluationAt,
                 evidenceVars, claims>>

TransitionRefused(c) ==
  LET g == c.generation IN
  \/ ~Exists(g) /\ Reject(c, "invalid_transition")
  \/ Exists(g) /\ ~Latest(g) /\ Reject(c, "stale_assignment")
  \/ Latest(g) /\ ~ValidTransition(state[g], Target(c)) /\ Reject(c, "invalid_transition")

(* ArmAssignment and CancelCandidate.                                       *)
transitionCandidate(m, c) ==
  /\ c.type \in {"assignment_armed", "assignment_cancelled"}
  /\ \/ Redeliver(m, c)
     \/ ~Delivered(m) /\ (TransitionApplied(m, c) \/ TransitionRefused(c))

(* Mutant: the effective window includes its end.                           *)
OutsideWindow_ClosedEnd(g, at) == at < spec[g].effectiveFrom \/ at > spec[g].effectiveUntil

OutsideWindow(g, at) == at < spec[g].effectiveFrom \/ at >= spec[g].effectiveUntil

(* Mutant: the start of the current interval is not checked.                *)
StaleBoundary_NoStart(h, g, at) == h >= g \/ at > authorityUntil[h]
(* Mutant: the end of the current interval is not checked.                  *)
StaleBoundary_NoEnd(h, g, at) == h >= g \/ at <= authorityFrom[h]

(* The boundary must fall inside the current interval, and not empty it.    *)
StaleBoundary(h, g, at) == h >= g \/ at <= authorityFrom[h] \/ at > authorityUntil[h]

(* Mutant: evidence exactly at the boundary is let through.                 *)
BehindWatermark_Strict(h, at) == summary[h].observedAt > at

(* Mutant: the watermark is read before the lock, and misses the commit     *)
(* that held it.                                                            *)
BehindWatermark_BeforeLock(h, at) ==
  \E k \in CheckpointsOf(h) : k.revision < revision[h] /\ k.observedAt >= at

(* Evidence committed at or after the boundary cannot be reassigned.        *)
BehindWatermark(h, at) == summary[h].observedAt >= at

(* The first check of a cutover that fails, in the order of the code.       *)
CutoverRefusal(c, t) ==
  LET g == c.generation
      at == c.effectiveAt
  IN  IF at > t \/ state[g] # "candidate_armed" \/ OutsideWindow(g, at)
      THEN "invalid_transition"
      ELSE IF \E h \in Current : StaleBoundary(h, g, at) THEN "stale_assignment"
      ELSE IF \E h \in Current : BehindWatermark(h, at) THEN "invalid_transition"
      ELSE "none"

(* Mutant: the replaced generation keeps its lease.                         *)
Revoked_CandidateOnly(g) == {g}

(* The rows whose lease the cutover to g clears.                            *)
Revoked(g) == {g} \cup Current

CutoverApplied(m, c, t) ==
  LET g == c.generation IN
  /\ CutoverRefusal(c, t) = "none"
  /\ state' = [h \in Generations |->
                 IF h = g THEN "active" ELSE IF h \in Current THEN "superseded" ELSE state[h]]
  /\ authorityFrom' = [authorityFrom EXCEPT ![g] = c.effectiveAt]
  /\ authorityUntil' = [h \in Generations |->
                          IF h = g THEN spec[g].effectiveUntil
                          ELSE IF h \in Current THEN c.effectiveAt ELSE authorityUntil[h]]
  /\ leaseOwner' = [h \in Generations |-> IF h \in Revoked(g) THEN NoWorker ELSE leaseOwner[h]]
  /\ leaseUntil' = [h \in Generations |-> IF h \in Revoked(g) THEN NoTime ELSE leaseUntil[h]]
  /\ nextEvaluationAt' = [nextEvaluationAt EXCEPT ![g] = t]
  /\ recordLifecycleCommand(m, c,
       {TransitionRow(m, g, "candidate_armed", "active")} \cup SupersededRows(m, Current))
  /\ Answer(c, "applied")
  /\ UNCHANGED <<clockVars, spec, leaseGeneration, evidenceVars, claims>>

CutoverAssignment(m, c, t) ==
  /\ c.type = "assignment_cutover"
  /\ \/ Redeliver(m, c)
     \/ ~Delivered(m) /\ CutoverApplied(m, c, t)
     \/ /\ ~Delivered(m)
        /\ CutoverRefusal(c, t) # "none"
        /\ Reject(c, CutoverRefusal(c, t))

-----------------------------------------------------------------------------
(* Evaluation leases                                                       *)

(* An ended interval stays claimable and renewable for the grace period.    *)
WithinGrace(g, t) == authorityUntil[g] + FinalizationGrace >= t

ClaimDueAssignments(w, g, t) ==
  /\ g \in Current
  /\ WithinGrace(g, t)
  /\ nextEvaluationAt[g] <= t
  /\ leaseUntil[g] = NoTime \/ leaseUntil[g] < t
  /\ leaseGeneration[g] < MaxLeases
  /\ leaseOwner' = [leaseOwner EXCEPT ![g] = w]
  /\ leaseGeneration' = [leaseGeneration EXCEPT ![g] = @ + 1]
  /\ leaseUntil' = [leaseUntil EXCEPT ![g] = t + LeaseDuration]
  /\ claims' = claims \cup {[worker |-> w, generation |-> g,
                             leaseGeneration |-> leaseGeneration[g] + 1,
                             revision |-> revision[g]]}
  /\ reply' = NoReply
  /\ UNCHANGED <<clockVars, rowVars, authorityVars, nextEvaluationAt, commandVars, evidenceVars>>

(* The fence every use of a claim repeats: owner, lease generation, expiry  *)
(* and a live lifecycle.                                                    *)
HoldsLease(c, t) ==
  /\ c.generation \in Current
  /\ leaseOwner[c.generation] = c.worker
  /\ leaseGeneration[c.generation] = c.leaseGeneration
  /\ leaseUntil[c.generation] > t

(* Mutant: the lease outlives the commit.                                   *)
ReleaseLease_KeepsLease(g, next) ==
  /\ nextEvaluationAt' = [nextEvaluationAt EXCEPT ![g] = next]
  /\ UNCHANGED <<leaseOwner, leaseUntil, leaseGeneration>>

ReleaseLease(g, next) ==
  /\ leaseOwner' = [leaseOwner EXCEPT ![g] = NoWorker]
  /\ leaseUntil' = [leaseUntil EXCEPT ![g] = NoTime]
  /\ nextEvaluationAt' = [nextEvaluationAt EXCEPT ![g] = next]
  /\ UNCHANGED leaseGeneration

RenewAssignmentLease(c, t) ==
  /\ HoldsLease(c, t)
  /\ WithinGrace(c.generation, t)
  /\ leaseUntil' = [leaseUntil EXCEPT ![c.generation] = t + LeaseDuration]
  /\ reply' = NoReply
  /\ UNCHANGED <<clockVars, rowVars, authorityVars, leaseOwner, leaseGeneration,
                 nextEvaluationAt, commandVars, evidenceVars, claims>>

DeferAssignmentEvaluation(c, next, t) ==
  /\ HoldsLease(c, t)
  /\ revision[c.generation] = c.revision
  /\ WithinGrace(c.generation, t)
  /\ ReleaseLease(c.generation, next)
  /\ reply' = NoReply
  /\ UNCHANGED <<clockVars, rowVars, authorityVars, commandVars, evidenceVars, claims>>

-----------------------------------------------------------------------------
(* Evidence                                                                *)

(* Half-open authority as commits test it: both ends are stored, and a      *)
(* comparison with NULL is never true.                                      *)
WithinAuthority(g, at) ==
  HasAuthority(g) /\ authorityFrom[g] <= at /\ at < authorityUntil[g]

(* validateEvaluationCommit and validateEvaluationWithinAuthority: the      *)
(* whole causal range of the evaluation lies in the stored interval.        *)
EvaluationWithinAuthority(g, e) ==
  /\ e.causalFrom <= e.observedAt
  /\ WithinAuthority(g, e.observedAt)
  /\ WithinAuthority(g, e.causalFrom)

(* Mutant: live commits may repeat a cursor.                                *)
StaleEvaluation_EqualAllowed(g, e, allowEqualWatermark) ==
  \E k \in NewestCheckpoint(g) : CursorBefore(e, k)
(* Mutant: historical commits are not fenced by the cursor.                 *)
StaleEvaluation_LiveOnly(g, e, allowEqualWatermark) ==
  ~allowEqualWatermark /\ \E k \in NewestCheckpoint(g) : ~CursorBefore(k, e)

(* The cursor fence: behind the newest checkpoint, or at it unless equal    *)
(* cursors are allowed.                                                     *)
StaleEvaluation(g, e, allowEqualWatermark) ==
  \E k \in NewestCheckpoint(g) :
    IF allowEqualWatermark THEN CursorBefore(e, k) ELSE ~CursorBefore(k, e)

(* Mutant: historical evidence is published to Registry.                    *)
writeEvaluation_AlwaysPublishes(g, e, lease, allowEqualWatermark, publishLive) ==
  /\ ~StaleEvaluation(g, e, allowEqualWatermark)
  /\ revision' = [revision EXCEPT ![g] = @ + 1]
  /\ checkpoints' = checkpoints \cup
       {[generation |-> g, revision |-> revision[g] + 1, causalFrom |-> e.causalFrom,
         observedAt |-> e.observedAt, frame |-> e.frame, lease |-> lease]}
  /\ summary' = [summary EXCEPT ![g] = [revision |-> revision[g] + 1,
                                        observedAt |-> e.observedAt]]
  /\ registryOutbox' = registryOutbox \cup {[generation |-> g, revision |-> revision[g] + 1]}

writeEvaluation(g, e, lease, allowEqualWatermark, publishLive) ==
  /\ ~StaleEvaluation(g, e, allowEqualWatermark)
  /\ revision' = [revision EXCEPT ![g] = @ + 1]
  /\ checkpoints' = checkpoints \cup
       {[generation |-> g, revision |-> revision[g] + 1, causalFrom |-> e.causalFrom,
         observedAt |-> e.observedAt, frame |-> e.frame, lease |-> lease]}
  /\ summary' = [summary EXCEPT ![g] = [revision |-> revision[g] + 1,
                                        observedAt |-> e.observedAt]]
  /\ registryOutbox' = registryOutbox \cup
       (IF publishLive THEN {[generation |-> g, revision |-> revision[g] + 1]} ELSE {})

CommitEvaluation(c, e, next, t) ==
  LET g == c.generation IN
  /\ HoldsLease(c, t)
  /\ revision[g] = c.revision
  /\ EvaluationWithinAuthority(g, e)
  /\ ReleaseLease(g, next)
  /\ writeEvaluation(g, e, <<g, c.leaseGeneration>>, FALSE, TRUE)
  /\ reply' = NoReply
  /\ UNCHANGED <<clockVars, rowVars, authorityVars, commandVars, claims>>

(* Evidence for a superseded generation h, behind the current lease.  The   *)
(* current revision does not move and no Registry row is written.           *)
CommitHistoricalEvaluation(c, h, e, next, t) ==
  LET g == c.generation IN
  /\ h < g
  /\ HoldsLease(c, t)
  /\ revision[g] = c.revision
  /\ authorityUntil[g] > t
  /\ ReleaseLease(g, next)
  /\ state[h] = "superseded"
  /\ EvaluationWithinAuthority(h, e)
  /\ writeEvaluation(h, e, <<g, c.leaseGeneration>>, TRUE, FALSE)
  /\ reply' = NoReply
  /\ UNCHANGED <<clockVars, rowVars, authorityVars, commandVars, claims>>

-----------------------------------------------------------------------------

Tick ==
  /\ now < MaxTime
  /\ now' = now + 1
  /\ reply' = NoReply
  /\ UNCHANGED durable

Lifecycle ==
  \E d \in Deliveries, t \in TxTimes :
    \/ PrepareAssignment(d[1], d[2], t)
    \/ transitionCandidate(d[1], d[2])
    \/ CutoverAssignment(d[1], d[2], t)

Leasing ==
  \E t \in TxTimes :
    \/ \E w \in Workers, g \in Generations : ClaimDueAssignments(w, g, t)
    \/ \E c \in claims : RenewAssignmentLease(c, t)
    \/ \E c \in claims, next \in NextTimes : DeferAssignmentEvaluation(c, next, t)

Committing ==
  \E t \in TxTimes, c \in claims, e \in Evaluations, next \in NextTimes :
    \/ CommitEvaluation(c, e, next, t)
    \/ \E h \in Generations : CommitHistoricalEvaluation(c, h, e, next, t)

Next == Tick \/ Lifecycle \/ Leasing \/ Committing

Spec == Init /\ [][Next]_vars

-----------------------------------------------------------------------------
(* Properties                                                              *)

(* No transaction can fail on a constraint of the schema: one current and   *)
(* one candidate row (partial unique indexes, 001_initial.sql:59-65),       *)
(* authority present exactly in the states the CHECK allows and never empty *)
(* (46-56), one checkpoint per revision (primary key, 86).                  *)
SchemaConstraintsHold ==
  /\ \A g, h \in Current : g = h
  /\ \A g, h \in Generations : {state[g], state[h]} \subseteq Candidates => g = h
  /\ \A g \in Generations :
       /\ HasAuthority(g) => authorityFrom[g] < authorityUntil[g]
       /\ ~HasAuthority(g) => authorityUntil[g] = NoTime
       /\ state[g] \in Candidates \cup {"none", "cancelled"} => ~HasAuthority(g)
       /\ g \in Current => HasAuthority(g)
  /\ \A k, l \in checkpoints :
       k.generation = l.generation /\ k.revision = l.revision => k = l

(* All generations of the assignment monitor the same aircraft, flight and  *)
(* intent, although PrepareAssignment compares a new one with the latest    *)
(* row only (store.go:194-199).                                             *)
IdentityIsStable ==
  \A g, h \in Generations : Exists(g) /\ Exists(h) => spec[g].identity = spec[h].identity

(* CutoverAssignment never asks whether its candidate is the newest         *)
(* generation (store.go:440-446); it need not, because a candidate always   *)
(* is, and it is always newer than the generation in authority.             *)
CandidateIsNewest ==
  \A g \in Generations : state[g] \in Candidates =>
    Latest(g) /\ \A h \in Generations : HasAuthority(h) => h < g

(* Authority is handed over without gap or overlap: intervals follow the    *)
(* order of the generations, a superseded interval ends exactly where a     *)
(* later one begins, and the last one is the current row's                  *)
(* (store.go:455-483, docs/assignment-cutover.md "Event-time routing").     *)
AuthorityIsHandedOver ==
  \A g \in Generations : HasAuthority(g) =>
    /\ \A h \in Generations : HasAuthority(h) /\ g < h => authorityUntil[g] <= authorityFrom[h]
    /\ \/ g \in Current
       \/ \E h \in Generations :
            g < h /\ HasAuthority(h) /\ authorityUntil[g] = authorityFrom[h]

(* Committed evidence stays with the generation that was authoritative: for *)
(* every event time of its causal range ResolveAssignmentAt still returns   *)
(* the generation it was evaluated for, whatever cutovers came later        *)
(* (store.go:470-476, 515-529, 934-978).                                    *)
EvidenceStaysAttributed ==
  \A k \in checkpoints : \A at \in k.causalFrom .. k.observedAt :
    ResolveAssignmentAt(at) = {k.generation}

(* The snapshot a takeover restores is the one of the claimed revision:     *)
(* GetReplayCheckpoint orders by cursor and the claim carries a revision,   *)
(* and for the current generation they agree once the watermark is asked    *)
(* for, so processClaim takes its checkpoint-mismatch branch only when its  *)
(* own clock is behind it (store.go:804, worker/evaluation.go:225; see      *)
(* EvaluationWorker).                                                       *)
ReplayCheckpointIsCurrent ==
  \A g \in Current :
    /\ CheckpointsOf(g) = {} <=> revision[g] = 0
    /\ \A k \in GetReplayCheckpoint(g, summary[g].observedAt) : k.revision = revision[g]

(* Replay order is commit order in every generation: a later revision never *)
(* has an earlier cursor, so the summary watermark that CutoverAssignment   *)
(* compares with is the largest event time committed (store.go:463, 999).   *)
WatermarkIsMonotone ==
  /\ \A k, l \in checkpoints :
       k.generation = l.generation /\ k.revision < l.revision => ~CursorBefore(l, k)
  /\ \A k \in checkpoints : k.observedAt <= summary[k.generation].observedAt

(* A lease is good for one commit: no two checkpoints, live or historical,  *)
(* were written behind the same lease, however late, often or concurrently  *)
(* its claim is used (store.go:840, 885-888).                               *)
OneCommitPerLease == \A k, l \in checkpoints : k.lease = l.lease => k = l

(* Only the current generation is leased: cutover, cancellation and         *)
(* replacement revoke the lease with the authority (store.go:361, 477).     *)
OnlyCurrentIsLeased ==
  \A g \in Generations :
    /\ leaseOwner[g] # NoWorker => g \in Current
    /\ leaseOwner[g] = NoWorker <=> leaseUntil[g] = NoTime

(* The transition history explains every row: it leads from no row to the   *)
(* lifecycle the row has, step by step, and each applied command wrote it   *)
(* together with its inbox row and its API receipt                          *)
(* (docs/assignment-cutover.md "Failure behavior", store.go:216-240,        *)
(* 484-492, 621-638).                                                       *)
AuditTrailIsComplete ==
  /\ \A g \in Generations :
       LET rows == {r \in transitions : r.generation = g}
           reached == {r.to : r \in rows}
           left == {r.from : r \in rows}
       IN  reached \cup {"none"} = left \cup {state[g]}
  /\ apiOutbox = {m \in Messages : inbox[m].disposition = "applied"}
  /\ apiOutbox = {r.message : r \in transitions}

(* Authority is never reopened: an interval's start is final, its end only  *)
(* moves back, cancelled and superseded generations keep their state, and   *)
(* only an armed candidate becomes authoritative (store.go:477-481).        *)
AuthorityNeverReopens ==
  [][\A g \in Generations :
       /\ HasAuthority(g) =>
            authorityFrom'[g] = authorityFrom[g] /\ authorityUntil'[g] <= authorityUntil[g]
       /\ state[g] \in {"cancelled", "superseded"} => state'[g] = state[g]
       /\ ~HasAuthority(g) /\ HasAuthority(g)' => state[g] = "candidate_armed"]_vars

(* Registry rows are enqueued in the order of their cursors: a new row's    *)
(* (generation, revision) is above every one enqueued before, also across   *)
(* cutovers and historical commits, which is what the head-of-line claim of *)
(* ClaimOutbox relies on (store.go:1088-1093, 1154-1158).                   *)
RegistryCursorAdvances ==
  [][\A new \in registryOutbox' \ registryOutbox, old \in registryOutbox :
       \/ old.generation < new.generation
       \/ old.generation = new.generation /\ old.revision < new.revision]_vars

(* An Arm or Cutover that is not rejected answers with the record the       *)
(* comments promise: "contains the armed record" (store.go:286), "contains  *)
(* the newly active record" (store.go:393).                                 *)
LifecycleReplyShowsTarget ==
  reply.disposition \in {"applied", "idempotent"} =>
    /\ reply.command.type = "assignment_armed" => reply.lifecycle = "candidate_armed"
    /\ reply.command.type = "assignment_cutover" => reply.lifecycle = "active"

-----------------------------------------------------------------------------
(* Refinement                                                              *)

(* The event times some specification covers.                               *)
EventTimes == UNION {s.effectiveFrom .. (s.effectiveUntil - 1) : s \in Specs}

(* The generation a capture time is routed to; 0 when none is.              *)
Governor(at) ==
  LET routed == ResolveAssignmentAt(at)
  IN  IF routed = {} THEN 0 ELSE CHOOSE g \in routed : TRUE

Routes == [at \in EventTimes |-> Governor(at)]

(* The causal range of every evaluation committed, with its generation.     *)
Attributions ==
  {[generation |-> k.generation, causalFrom |-> k.causalFrom,
    observedAt |-> k.observedAt] : k \in checkpoints}

Routing == INSTANCE Authority WITH
  Times <- EventTimes, governor <- Routes, evidence <- Attributions

(* The store routes event time as Authority promises: seen through          *)
(* ResolveAssignmentAt, every transaction of a lifecycle command, lease or  *)
(* commit is a gapless handover to a newer generation, an attribution to    *)
(* the generation that governs the whole causal range, or invisible         *)
(* (docs/assignment-cutover.md "Event-time routing", store.go:447-481,      *)
(* 515-529, 934-978).                                                       *)
RoutesAsPromised == Routing!Spec

=============================================================================
