---------------------- MODULE AssignmentStore_lease_proofs ---------------------
(***************************************************************************)
(* Proofs about AssignmentStore, second part: a lease is good for one      *)
(* commit, the checkpoint a takeover restores is the one of the claimed    *)
(* revision, Registry rows are enqueued in the order of their cursors, and *)
(* the store implements Authority.                                         *)
(***************************************************************************)
EXTENDS AssignmentStore_proofs

(* A commit belongs to a lease that was handed out, and not to the one that *)
(* is held now.                                                             *)
LeasesAreSpent ==
  \A k \in checkpoints :
    /\ k.lease[2] <= leaseGeneration[k.lease[1]]
    /\ leaseOwner[k.lease[1]] # NoWorker => k.lease[2] < leaseGeneration[k.lease[1]]

LeaseInv == OnlyCurrentIsLeased /\ LeasesAreSpent /\ OneCommitPerLease

(* There is no lease at first.                                              *)
LEMMA LeaseInit == Init => LeaseInv
BY DEF Init, LeaseInv, OnlyCurrentIsLeased, LeasesAreSpent, OneCommitPerLease, NoTime

(* Taking leases away from rows, those that leave the current set included, *)
(* keeps the invariant.                                                     *)
LEMMA LeaseTaken ==
  ASSUME TypeOK, LeaseInv, UNCHANGED <<leaseGeneration, checkpoints>>,
         leaseOwner' \in [Generations -> Workers \cup {NoWorker}],
         \A g \in Generations :
           \/ leaseOwner'[g] = NoWorker /\ leaseUntil'[g] = NoTime
           \/ /\ leaseOwner'[g] = leaseOwner[g] /\ leaseUntil'[g] = leaseUntil[g]
              /\ g \in Current => g \in Current'
  PROVE  LeaseInv'
<1>1. OnlyCurrentIsLeased'
  BY Zenon DEF LeaseInv, OnlyCurrentIsLeased
<1>2. LeasesAreSpent'
  <2> SUFFICES ASSUME NEW k \in checkpoints
               PROVE  /\ k.lease[2] <= leaseGeneration[k.lease[1]]
                      /\ leaseOwner'[k.lease[1]] # NoWorker =>
                           k.lease[2] < leaseGeneration[k.lease[1]]
    BY Zenon DEF LeasesAreSpent
  <2>1. k.lease[1] \in Generations  BY Zenon, CheckpointTypes
  <2> QED  BY Zenon, <2>1 DEF LeaseInv, LeasesAreSpent
<1>3. OneCommitPerLease'
  BY Zenon DEF LeaseInv, OneCommitPerLease
<1> QED  BY Zenon, <1>1, <1>2, <1>3 DEF LeaseInv

(* Lifecycle commands revoke the leases of the rows they end.               *)
LEMMA LeaseLifecycle ==
  ASSUME TypeOK, LeaseInv, NEW m \in Messages, NEW c \in Commands, NEW t \in TxTimes,
         c.generation \in Generations,
         \/ PrepareApplied(m, c, t) \/ PrepareRecorded(m, c)
         \/ TransitionApplied(m, c) \/ CutoverApplied(m, c, t)
  PROVE  LeaseInv'
<1> DEFINE g == c.generation
<1>1. CASE PrepareApplied(m, c, t)
  <2>1. /\ leaseOwner' = [h \in Generations |-> IF h \in Replaced THEN NoWorker ELSE leaseOwner[h]]
        /\ leaseUntil' = [h \in Generations |-> IF h \in Replaced THEN NoTime ELSE leaseUntil[h]]
        /\ UNCHANGED <<leaseGeneration, checkpoints>>
    BY Zenon, <1>1 DEF PrepareApplied, evidenceVars
  <2>2. ~Exists(g)
    <3>1. g \in Nat  BY Zenon, GenerationsAssumption
    <3> QED  BY <1>1, <3>1 DEF PrepareApplied
  <2>3. \A h \in Generations : h \in Current => h \in Current'
    BY Zenon, <1>1, <2>2 DEF PrepareApplied, Current, Exists, Replaced, Candidates
  <2>4. leaseOwner' \in [Generations -> Workers \cup {NoWorker}]  BY Zenon, <2>1 DEF TypeOK
  <2> QED  BY Zenon, <2>1, <2>3, <2>4, LeaseTaken
<1>2. CASE PrepareRecorded(m, c)
  <2>1. UNCHANGED <<state, leaseOwner, leaseUntil, leaseGeneration, checkpoints>>
    BY Zenon, <1>2 DEF PrepareRecorded, rowVars, leaseVars, evidenceVars
  <2>2. leaseOwner' \in [Generations -> Workers \cup {NoWorker}]  BY Zenon, <2>1 DEF TypeOK
  <2> QED  BY Zenon, <2>1, <2>2, LeaseTaken DEF Current
<1>3. CASE TransitionApplied(m, c)
  <2>1. /\ leaseOwner' = [leaseOwner EXCEPT ![g] = IF Target(c) = "cancelled" THEN NoWorker ELSE @]
        /\ leaseUntil' = [leaseUntil EXCEPT ![g] = IF Target(c) = "cancelled" THEN NoTime ELSE @]
        /\ state' = [state EXCEPT ![g] = Target(c)] /\ state[g] \in Candidates
        /\ UNCHANGED <<leaseGeneration, checkpoints>>
    BY Zenon, <1>3 DEF TransitionApplied, evidenceVars, ValidTransition, Candidates
  <2>2. leaseOwner' \in [Generations -> Workers \cup {NoWorker}]  BY Zenon, <2>1 DEF TypeOK
  <2>3. \A h \in Generations : h \in Current => h \in Current'
    BY Zenon, <2>1 DEF TypeOK, Current, Candidates
  <2>4. \A h \in Generations :
          \/ leaseOwner'[h] = NoWorker /\ leaseUntil'[h] = NoTime
          \/ leaseOwner'[h] = leaseOwner[h] /\ leaseUntil'[h] = leaseUntil[h]
    BY Zenon, <2>1 DEF TypeOK
  <2> QED  BY Zenon, <2>1, <2>2, <2>3, <2>4, LeaseTaken
<1>4. CASE CutoverApplied(m, c, t)
  <2>1. /\ leaseOwner' = [h \in Generations |-> IF h \in Revoked(g) THEN NoWorker ELSE leaseOwner[h]]
        /\ leaseUntil' = [h \in Generations |-> IF h \in Revoked(g) THEN NoTime ELSE leaseUntil[h]]
        /\ UNCHANGED <<leaseGeneration, checkpoints>>
    BY Zenon, <1>4 DEF CutoverApplied, evidenceVars
  <2>2. leaseOwner' \in [Generations -> Workers \cup {NoWorker}]  BY Zenon, <2>1 DEF TypeOK
  <2>3. \A h \in Generations : h \notin Revoked(g) => h \notin Current  BY Zenon DEF Revoked
  <2> QED  BY Zenon, <2>1, <2>2, <2>3, LeaseTaken
<1> QED  BY Zenon, <1>1, <1>2, <1>3, <1>4

(* A claim takes a lease that nobody committed behind.                      *)
LEMMA LeaseClaimed ==
  ASSUME TypeOK, LeaseInv, NEW t \in TxTimes, NEW w \in Workers, NEW g \in Generations,
         ClaimDueAssignments(w, g, t)
  PROVE  LeaseInv'
<1>1. /\ leaseOwner' = [leaseOwner EXCEPT ![g] = w]
      /\ leaseGeneration' = [leaseGeneration EXCEPT ![g] = @ + 1]
      /\ leaseUntil' = [leaseUntil EXCEPT ![g] = t + LeaseDuration]
      /\ g \in Current /\ UNCHANGED <<state, checkpoints>>
  BY Zenon DEF ClaimDueAssignments, rowVars, evidenceVars
<1>2. w # NoWorker /\ t + LeaseDuration # NoTime
  BY WorkersAssumption, BoundsAssumption DEF TxTimes, NoTime, TypeOK
<1>3. OnlyCurrentIsLeased'
  BY Zenon, <1>1, <1>2 DEF LeaseInv, OnlyCurrentIsLeased, Current, TypeOK
<1>4. LeasesAreSpent'
  <2> SUFFICES ASSUME NEW k \in checkpoints
               PROVE  /\ k.lease[2] <= leaseGeneration'[k.lease[1]]
                      /\ leaseOwner'[k.lease[1]] # NoWorker =>
                           k.lease[2] < leaseGeneration'[k.lease[1]]
    BY Zenon, <1>1 DEF LeasesAreSpent
  <2>1. /\ k.lease[1] \in Generations /\ k.lease[2] \in Nat
        /\ leaseGeneration[k.lease[1]] \in Nat
    BY Zenon, CheckpointTypes DEF TypeOK
  <2>2. CASE k.lease[1] = g
    BY <1>1, <2>1, <2>2 DEF LeaseInv, LeasesAreSpent, TypeOK
  <2>3. CASE k.lease[1] # g
    BY Zenon, <1>1, <2>1, <2>3 DEF LeaseInv, LeasesAreSpent, TypeOK
  <2> QED  BY Zenon, <2>2, <2>3
<1>5. OneCommitPerLease'
  BY Zenon, <1>1 DEF LeaseInv, OneCommitPerLease
<1> QED  BY Zenon, <1>3, <1>4, <1>5 DEF LeaseInv

(* A lease that is held may be renewed or released.                         *)
LEMMA LeaseUsed ==
  ASSUME TypeOK, LeaseInv, NEW t \in TxTimes, NEW c \in claims
  PROVE  /\ RenewAssignmentLease(c, t) => LeaseInv'
         /\ \A next \in NextTimes : DeferAssignmentEvaluation(c, next, t) => LeaseInv'
<1> DEFINE g == c.generation
<1>0. g \in Generations /\ c.worker \in Workers  BY Zenon DEF TypeOK, Claims
<1>1. ASSUME RenewAssignmentLease(c, t)  PROVE LeaseInv'
  <2>1. /\ leaseUntil' = [leaseUntil EXCEPT ![g] = t + LeaseDuration]
        /\ leaseOwner[g] # NoWorker /\ g \in Current
        /\ UNCHANGED <<state, leaseOwner, leaseGeneration, checkpoints>>
    BY Zenon, <1>0, <1>1, WorkersAssumption DEF RenewAssignmentLease, HoldsLease, rowVars, evidenceVars
  <2>2. t + LeaseDuration # NoTime  BY BoundsAssumption DEF TxTimes, NoTime, TypeOK
  <2>3. OnlyCurrentIsLeased'
    BY Zenon, <2>1, <2>2 DEF LeaseInv, OnlyCurrentIsLeased, Current, TypeOK
  <2>4. LeasesAreSpent' /\ OneCommitPerLease'
    BY Zenon, <2>1 DEF LeaseInv, LeasesAreSpent, OneCommitPerLease
  <2> QED  BY Zenon, <2>3, <2>4 DEF LeaseInv
<1>2. ASSUME NEW next \in NextTimes, DeferAssignmentEvaluation(c, next, t)  PROVE LeaseInv'
  <2>1. /\ leaseOwner' = [leaseOwner EXCEPT ![g] = NoWorker]
        /\ leaseUntil' = [leaseUntil EXCEPT ![g] = NoTime]
        /\ UNCHANGED <<state, leaseGeneration, checkpoints>>
    BY Zenon, <1>2 DEF DeferAssignmentEvaluation, ReleaseLease, rowVars, evidenceVars
  <2>2. leaseOwner' \in [Generations -> Workers \cup {NoWorker}]  BY Zenon, <2>1 DEF TypeOK
  <2>3. \A h \in Generations :
          \/ leaseOwner'[h] = NoWorker /\ leaseUntil'[h] = NoTime
          \/ leaseOwner'[h] = leaseOwner[h] /\ leaseUntil'[h] = leaseUntil[h]
    BY Zenon, <2>1 DEF TypeOK
  <2> QED  BY Zenon, <2>1, <2>2, <2>3, LeaseTaken DEF Current
<1> QED  BY Zenon, <1>1, <1>2

(* A commit, live or historical, spends the lease it is made behind.        *)
LEMMA LeaseSpent ==
  ASSUME TypeOK, LeaseInv, NEW t \in TxTimes, NEW c \in claims, NEW e \in Evaluations,
         NEW next \in NextTimes, NEW h \in Generations, NEW equal \in BOOLEAN,
         NEW live \in BOOLEAN, HoldsLease(c, t), ReleaseLease(c.generation, next),
         writeEvaluation(h, e, <<c.generation, c.leaseGeneration>>, equal, live),
         UNCHANGED rowVars
  PROVE  LeaseInv'
<1> DEFINE g == c.generation
           n == c.leaseGeneration
           new == [generation |-> h, revision |-> revision[h] + 1,
                   causalFrom |-> e.causalFrom, observedAt |-> e.observedAt,
                   frame |-> e.frame, lease |-> <<g, n>>]
<1>1. g \in Generations /\ n \in Nat /\ c.worker # NoWorker
  BY Zenon, WorkersAssumption DEF TypeOK, Claims
<1>2. /\ leaseOwner' = [leaseOwner EXCEPT ![g] = NoWorker]
      /\ leaseUntil' = [leaseUntil EXCEPT ![g] = NoTime]
      /\ UNCHANGED <<state, leaseGeneration>>
      /\ checkpoints' = checkpoints \cup {new}
      /\ leaseOwner[g] # NoWorker /\ leaseGeneration[g] = n
  BY Zenon, <1>1 DEF ReleaseLease, HoldsLease, writeEvaluation, rowVars
<1>3. new.lease = <<g, n>> /\ new.lease[1] = g /\ new.lease[2] = n
  BY Zenon
<1> HIDE DEF new
<1>4. OnlyCurrentIsLeased'
  BY Zenon, <1>1, <1>2 DEF LeaseInv, OnlyCurrentIsLeased, Current, TypeOK
<1>5. LeasesAreSpent'
  <2> SUFFICES ASSUME NEW k \in checkpoints'
               PROVE  /\ k.lease[2] <= leaseGeneration[k.lease[1]]
                      /\ leaseOwner'[k.lease[1]] # NoWorker =>
                           k.lease[2] < leaseGeneration[k.lease[1]]
    BY Zenon, <1>2 DEF LeasesAreSpent
  <2>1. CASE k = new
    BY <1>1, <1>2, <1>3, <2>1 DEF TypeOK
  <2>2. CASE k \in checkpoints
    <3>1. k.lease[1] \in Generations  BY Zenon, <2>2, CheckpointTypes
    <3>2. leaseOwner'[k.lease[1]] # NoWorker => leaseOwner[k.lease[1]] # NoWorker
      BY Zenon, <1>1, <1>2, <3>1 DEF TypeOK
    <3> QED  BY Zenon, <2>2, <3>2 DEF LeaseInv, LeasesAreSpent
  <2> QED  BY Zenon, <1>2, <2>1, <2>2
<1>6. \A k \in checkpoints : k.lease # new.lease
  <2> SUFFICES ASSUME NEW k \in checkpoints, k.lease = <<g, n>>  PROVE FALSE
    BY Zenon, <1>3
  <2>1. n < n  BY <1>2 DEF LeaseInv, LeasesAreSpent
  <2> QED  BY <1>1, <2>1
<1>7. OneCommitPerLease'
  BY Zenon, <1>2, <1>6 DEF LeaseInv, OneCommitPerLease
<1> QED  BY Zenon, <1>4, <1>5, <1>7 DEF LeaseInv

(* Every step keeps the invariant of the leases.                            *)
LEMMA LeaseNext == TypeOK /\ LeaseInv /\ [Next]_vars => LeaseInv'
<1> SUFFICES ASSUME TypeOK, LeaseInv, [Next]_vars  PROVE LeaseInv'
  BY Zenon
<1>1. ASSUME UNCHANGED durable  PROVE LeaseInv'
  <2>1. UNCHANGED <<state, leaseOwner, leaseUntil, leaseGeneration, checkpoints>>
    BY Zenon, <1>1 DEF durable, rowVars, leaseVars, evidenceVars
  <2> QED  BY Zenon, <2>1 DEF LeaseInv, OnlyCurrentIsLeased, LeasesAreSpent, OneCommitPerLease, Current
<1>2. CASE UNCHANGED vars  BY Zenon, <1>1, <1>2 DEF vars
<1>3. CASE Next
  <2>1. CASE Committing
    <3> PICK t \in TxTimes, c \in claims, e \in Evaluations, next \in NextTimes :
          \/ CommitEvaluation(c, e, next, t)
          \/ \E h \in Generations : CommitHistoricalEvaluation(c, h, e, next, t)
      BY Zenon, <2>1 DEF Committing
    <3>1. c.generation \in Generations  BY Zenon DEF TypeOK, Claims
    <3>2. CASE CommitEvaluation(c, e, next, t)
      BY Zenon, <3>1, <3>2, LeaseSpent DEF CommitEvaluation
    <3>3. ASSUME NEW h \in Generations, CommitHistoricalEvaluation(c, h, e, next, t)
          PROVE  LeaseInv'
      BY Zenon, <3>1, <3>3, LeaseSpent DEF CommitHistoricalEvaluation
    <3> QED  BY Zenon, <3>2, <3>3
  <2> QED  BY Zenon, <1>1, <1>3, <2>1, StepShape, LeaseLifecycle, LeaseClaimed, LeaseUsed
<1> QED  BY Zenon, <1>2, <1>3

(* The inductive invariant of the leases holds in every state: only current *)
(* rows are leased, and no commit was made behind a lease that is held.     *)
THEOREM LeaseCorrect == Spec => []LeaseInv
BY LeaseInit, LeaseNext, TypeCorrect, PTL DEF Spec

(* A lease is good for one commit, live or historical, however late and     *)
(* often its claim is used (store.go:840, 885-888).                         *)
THEOREM OneCommitPerLeaseCorrect == Spec => []OneCommitPerLease
<1>1. LeaseInv => OneCommitPerLease  BY Zenon DEF LeaseInv
<1> QED  BY <1>1, LeaseCorrect, PTL

(* Cutover, cancellation and replacement revoke the lease together with the *)
(* authority (store.go:206, 361, 477).                                      *)
THEOREM OnlyCurrentIsLeasedCorrect == Spec => []OnlyCurrentIsLeased
<1>1. LeaseInv => OnlyCurrentIsLeased  BY Zenon DEF LeaseInv
<1> QED  BY <1>1, LeaseCorrect, PTL

-----------------------------------------------------------------------------
(* Cursors                                                                 *)

(* Equal cursors are left to superseded generations.                        *)
LiveCursorsAdvance ==
  \A k, l \in checkpoints :
    k.generation = l.generation /\ k.revision < l.revision
      /\ state[k.generation] # "superseded" => CursorBefore(k, l)

(* What was published is of a generation that had authority.                *)
PublishedIsBehind ==
  \A r \in registryOutbox : HasAuthority(r.generation) /\ r.revision <= revision[r.generation]

CursorInv == LiveCursorsAdvance /\ PublishedIsBehind

EvidenceFacts == TypeOK /\ AuthorityInv /\ EvidenceInv

(* A superseded row stays superseded, and authority is not taken back.      *)
LEMMA RowsMoveOn ==
  ASSUME TypeOK, AuthorityInv, NEW m \in Messages, NEW c \in Commands, NEW t \in TxTimes,
         c.generation \in Generations,
         \/ PrepareApplied(m, c, t) \/ PrepareRecorded(m, c)
         \/ TransitionApplied(m, c) \/ (CutoverApplied(m, c, t) /\ c.effectiveAt \in Nat)
  PROVE  /\ \A g \in Generations : state[g] = "superseded" => state'[g] = "superseded"
         /\ \A g \in Generations : HasAuthority(g) => HasAuthority(g)'
         /\ UNCHANGED evidenceVars
<1>1. CASE PrepareApplied(m, c, t)
  <2>1. ~Exists(c.generation)
    <3>1. c.generation \in Nat  BY Zenon, GenerationsAssumption
    <3> QED  BY <1>1, <3>1 DEF PrepareApplied
  <2> QED  BY Zenon, <1>1, <2>1
           DEF PrepareApplied, Exists, Replaced, Candidates, HasAuthority, authorityVars
<1>2. CASE PrepareRecorded(m, c)
  BY Zenon, <1>2 DEF PrepareRecorded, rowVars, authorityVars, HasAuthority
<1>3. CASE TransitionApplied(m, c)
  BY Zenon, <1>3 DEF TransitionApplied, ValidTransition, Candidates, TypeOK, authorityVars, HasAuthority
<1>4. CASE CutoverApplied(m, c, t) /\ c.effectiveAt \in Nat
  <2>1. state[c.generation] = "candidate_armed"  BY Zenon, <1>4, CutoverGuard DEF CutoverApplied
  <2>2. /\ state' = [h \in Generations |->
               IF h = c.generation THEN "active"
               ELSE IF h \in Current THEN "superseded" ELSE state[h]]
        /\ authorityFrom' = [authorityFrom EXCEPT ![c.generation] = c.effectiveAt]
        /\ UNCHANGED evidenceVars
    BY Zenon, <1>4 DEF CutoverApplied
  <2>3. c.effectiveAt # NoTime  BY <1>4 DEF NoTime
  <2> QED  BY Zenon, <2>1, <2>2, <2>3 DEF HasAuthority, TypeOK
<1> QED  BY Zenon, <1>1, <1>2, <1>3, <1>4

(* Steps that write no evidence keep the order of cursors.                  *)
LEMMA CursorsKept ==
  ASSUME TypeOK, CursorInv, UNCHANGED evidenceVars,
         \A g \in Generations : state[g] = "superseded" => state'[g] = "superseded",
         \A g \in Generations : HasAuthority(g) => HasAuthority(g)'
  PROVE  CursorInv'
<1>1. UNCHANGED <<revision, checkpoints, registryOutbox>>  BY Zenon DEF evidenceVars
<1>2. LiveCursorsAdvance'
  BY Zenon, <1>1, CheckpointTypes DEF CursorInv, LiveCursorsAdvance, CursorBefore
<1>3. PublishedIsBehind'
  BY Zenon, <1>1 DEF CursorInv, PublishedIsBehind, TypeOK
<1> QED  BY Zenon, <1>2, <1>3 DEF CursorInv

(* Evidence for a generation that is not superseded is written strictly     *)
(* after all there is.                                                      *)
LEMMA CursorsWritten ==
  ASSUME EvidenceFacts, CursorInv, NEW g \in Generations, NEW e \in Evaluations,
         NEW lease \in Generations \X Nat, NEW live \in BOOLEAN,
         state[g] = "superseded" <=> ~live,
         HasAuthority(g), writeEvaluation(g, e, lease, ~live, live),
         UNCHANGED <<rowVars, authorityVars>>
  PROVE  CursorInv'
<1> DEFINE new == [generation |-> g, revision |-> revision[g] + 1,
                   causalFrom |-> e.causalFrom, observedAt |-> e.observedAt,
                   frame |-> e.frame, lease |-> lease]
           row == [generation |-> g, revision |-> revision[g] + 1]
<1>1. /\ checkpoints' = checkpoints \cup {new}
      /\ revision' = [revision EXCEPT ![g] = @ + 1]
      /\ registryOutbox' = registryOutbox \cup (IF live THEN {row} ELSE {})
      /\ ~StaleEvaluation(g, e, ~live)
      /\ state' = state /\ authorityFrom' = authorityFrom
  BY Zenon DEF writeEvaluation, rowVars, authorityVars
<1>2. /\ new.generation = g /\ new.revision = revision[g] + 1
      /\ new.observedAt = e.observedAt /\ new.frame = e.frame
      /\ row.generation = g /\ row.revision = revision[g] + 1
  BY Zenon
<1> HIDE DEF new, row
<1>3. /\ e.observedAt \in Nat /\ e.frame \in Nat /\ revision[g] \in Nat /\ TypeOK
      /\ RevisionsInUse /\ CursorOrder
  BY Zenon, EvaluationsAssumption DEF EvidenceFacts, EvidenceInv, TypeOK
<1>4. ASSUME NEW k \in checkpoints, k.generation = g  PROVE k.revision <= revision[g]
  BY Zenon, <1>3, <1>4 DEF RevisionsInUse
<1>5. ASSUME NEW k \in checkpoints, k.generation = g, live  PROVE CursorBefore(k, new)
  <2>1. k.revision \in Nat /\ 1 <= k.revision /\ k.revision <= revision[g]
    BY Zenon, <1>3, <1>5, CheckpointTypes DEF RevisionsInUse
  <2>2. PICK n \in checkpoints : n.generation = g /\ n.revision = revision[g]
    BY <1>3, <2>1 DEF RevisionsInUse
  <2>3. n \in NewestCheckpoint(g)
    BY Zenon, <2>2, NewestIsLastRevision DEF EvidenceFacts
  <2>4. CursorBefore(n, new)
    BY Zenon, <1>1, <1>2, <1>5, <2>3 DEF StaleEvaluation, CursorBefore
  <2>5. /\ n.observedAt \in Nat /\ n.frame \in Nat /\ k.observedAt \in Nat /\ k.frame \in Nat
    BY Zenon, <1>3, CheckpointTypes
  <2>6. CASE k.revision = n.revision
    <3>1. k = n  BY <1>3, <1>5, <2>2, <2>6 DEF RevisionsInUse
    <3> QED  BY Zenon, <2>4, <3>1
  <2>7. CASE k.revision < n.revision
    <3>1. ~CursorBefore(n, k)  BY Zenon, <1>3, <1>5, <2>2, <2>7 DEF CursorOrder
    <3> QED  BY <1>2, <1>3, <2>4, <2>5, <3>1 DEF CursorBefore
  <2> QED  BY <1>3, <2>1, <2>2, <2>6, <2>7
<1>6. LiveCursorsAdvance'
  <2> SUFFICES ASSUME NEW k \in checkpoints', NEW l \in checkpoints',
                      k.generation = l.generation, k.revision < l.revision,
                      state[k.generation] # "superseded"
               PROVE  CursorBefore(k, l)
    BY Zenon, <1>1 DEF LiveCursorsAdvance, CursorBefore
  <2>1. CASE k \in checkpoints /\ l \in checkpoints
    BY Zenon, <2>1 DEF CursorInv, LiveCursorsAdvance
  <2>2. CASE k \in checkpoints /\ l = new
    BY Zenon, <1>2, <1>5, <2>2
  <2>3. CASE k = new /\ l \in checkpoints
    <3>1. l.revision <= revision[g] /\ l.revision \in Nat  BY Zenon, <1>2, <1>3, <1>4, <2>3, CheckpointTypes
    <3> QED  BY <1>2, <1>3, <2>3, <3>1
  <2>4. CASE k = new /\ l = new  BY <1>2, <1>3, <2>4
  <2> QED  BY Zenon, <1>1, <2>1, <2>2, <2>3, <2>4
<1>7. PublishedIsBehind'
  <2> SUFFICES ASSUME NEW r \in registryOutbox'
               PROVE  HasAuthority(r.generation)' /\ r.revision <= revision'[r.generation]
    BY Zenon DEF PublishedIsBehind
  <2>1. CASE r = row
    BY <1>1, <1>2, <1>3, <2>1 DEF HasAuthority, TypeOK
  <2>2. CASE r \in registryOutbox
    <3>1. /\ r.generation \in Generations /\ r.revision \in Nat
          /\ revision[r.generation] \in Nat /\ r.revision <= revision[r.generation]
          /\ HasAuthority(r.generation)
      BY Zenon, <1>3, <2>2 DEF CursorInv, PublishedIsBehind, TypeOK
    <3>2. revision'[r.generation] \in {revision[r.generation], revision[r.generation] + 1}
      BY Zenon, <1>1, <1>3, <3>1 DEF TypeOK
    <3> QED  BY <1>1, <3>1, <3>2 DEF HasAuthority
  <2> QED  BY Zenon, <1>1, <2>1, <2>2
<1> QED  BY Zenon, <1>6, <1>7 DEF CursorInv

(* A commit writes for the current generation, or behind its lease for a    *)
(* superseded one.                                                          *)
LEMMA CommitShape ==
  ASSUME TypeOK, AuthorityInv, Committing
  PROVE  \E g \in Generations, e \in Evaluations, lease \in Generations \X Nat,
            live \in BOOLEAN :
           /\ live => g \in Current
           /\ state[g] = "superseded" <=> ~live
           /\ HasAuthority(g)
           /\ writeEvaluation(g, e, lease, ~live, live)
           /\ UNCHANGED <<rowVars, authorityVars>>
<1> PICK t \in TxTimes, c \in claims, e \in Evaluations, next \in NextTimes :
      \/ CommitEvaluation(c, e, next, t)
      \/ \E h \in Generations : CommitHistoricalEvaluation(c, h, e, next, t)
  BY Zenon DEF Committing
<1> DEFINE lease == <<c.generation, c.leaseGeneration>>
<1>1. c.generation \in Generations /\ lease \in Generations \X Nat
  BY Zenon DEF TypeOK, Claims
<1>2. CASE CommitEvaluation(c, e, next, t)
  <2>1. /\ c.generation \in Current
        /\ HasAuthority(c.generation)
        /\ writeEvaluation(c.generation, e, lease, FALSE, TRUE)
        /\ UNCHANGED <<rowVars, authorityVars>>
    BY Zenon, <1>2 DEF CommitEvaluation, HoldsLease, EvaluationWithinAuthority, WithinAuthority
  <2>2. state[c.generation] # "superseded"  BY Zenon, <2>1 DEF Current
  <2>3. writeEvaluation(c.generation, e, lease, ~TRUE, TRUE)  BY Zenon, <2>1
  <2> QED  BY Zenon, <1>1, <2>1, <2>2, <2>3
<1>3. ASSUME NEW h \in Generations, CommitHistoricalEvaluation(c, h, e, next, t)
      PROVE  /\ state[h] = "superseded" /\ HasAuthority(h)
             /\ writeEvaluation(h, e, lease, ~FALSE, FALSE)
             /\ UNCHANGED <<rowVars, authorityVars>>
  BY Zenon, <1>3 DEF CommitHistoricalEvaluation, EvaluationWithinAuthority, WithinAuthority
<1> QED  BY Zenon, <1>1, <1>2, <1>3

(* Every step keeps the order of cursors.                                   *)
LEMMA CursorNext == EvidenceFacts /\ CursorInv /\ [Next]_vars => CursorInv'
<1> SUFFICES ASSUME EvidenceFacts, CursorInv, [Next]_vars  PROVE CursorInv'
  BY Zenon
<1>0. TypeOK /\ AuthorityInv  BY Zenon DEF EvidenceFacts
<1>1. ASSUME UNCHANGED <<rowVars, authorityVars, evidenceVars>>  PROVE CursorInv'
  BY Zenon, <1>0, <1>1, CursorsKept DEF rowVars, authorityVars, HasAuthority
<1>2. CASE UNCHANGED vars  BY Zenon, <1>1, <1>2 DEF vars, durable
<1>3. CASE Next
  <2>1. CASE UNCHANGED durable  BY Zenon, <1>1, <2>1 DEF durable
  <2>2. ASSUME NEW m \in Messages, NEW c \in Commands, NEW t \in TxTimes,
               c.generation \in Generations
        PROVE  /\ PrepareApplied(m, c, t) \/ PrepareRecorded(m, c) => CursorInv'
               /\ TransitionApplied(m, c) => CursorInv'
               /\ c.effectiveAt \in Nat /\ CutoverApplied(m, c, t) => CursorInv'
    BY Zenon, <1>0, <2>2, RowsMoveOn, CursorsKept
  <2>3. CASE \/ \E t \in TxTimes, w \in Workers, g \in Generations : ClaimDueAssignments(w, g, t)
             \/ \E t \in TxTimes, c \in claims : RenewAssignmentLease(c, t)
             \/ \E t \in TxTimes, c \in claims, next \in NextTimes :
                  DeferAssignmentEvaluation(c, next, t)
    BY Zenon, <1>1, <2>3 DEF ClaimDueAssignments, RenewAssignmentLease, DeferAssignmentEvaluation
  <2>4. CASE Committing
    BY Zenon, <1>0, <2>4, CommitShape, CursorsWritten
  <2> QED  BY Zenon, <1>0, <1>3, <2>1, <2>2, <2>3, <2>4, StepShape
<1> QED  BY Zenon, <1>2, <1>3

(* The inductive invariant of the cursors holds in every state.             *)
THEOREM CursorCorrect == Spec => [](EvidenceFacts /\ CursorInv)
<1>1. Init => CursorInv
  BY Zenon DEF Init, CursorInv, LiveCursorsAdvance, PublishedIsBehind
<1>2. EvidenceFacts <=> TypeOK /\ AuthorityInv /\ EvidenceInv  BY Zenon DEF EvidenceFacts
<1> QED  BY <1>1, <1>2, CursorNext, EvidenceCorrect, PTL DEF Spec

(* The snapshot a takeover restores is the one of the revision it claimed:  *)
(* of the current generation, the checkpoint with the highest cursor is the *)
(* newest (store.go:804, worker/evaluation.go:225).                         *)
THEOREM ReplayCheckpointIsCurrentCorrect == Spec => []ReplayCheckpointIsCurrent
<1>1. EvidenceFacts /\ CursorInv => ReplayCheckpointIsCurrent
  <2> SUFFICES ASSUME EvidenceFacts, CursorInv, NEW g \in Current
               PROVE  /\ CheckpointsOf(g) = {} <=> revision[g] = 0
                      /\ \A k \in GetReplayCheckpoint(g, summary[g].observedAt) :
                           k.revision = revision[g]
    BY Zenon DEF ReplayCheckpointIsCurrent
  <2>1. /\ g \in Generations /\ state[g] # "superseded" /\ TypeOK /\ EvidenceInv
        /\ revision[g] \in Nat
    BY Zenon DEF Current, EvidenceFacts, TypeOK
  <2>2. \A k \in CheckpointsOf(g) :
          /\ k \in checkpoints /\ k.generation = g /\ k.revision \in Nat
          /\ 1 <= k.revision /\ k.revision <= revision[g]
    BY Zenon, <2>1, CheckpointTypes DEF CheckpointsOf, EvidenceInv, RevisionsInUse
  <2>3. CheckpointsOf(g) = {} <=> revision[g] = 0
    BY <2>1, <2>2 DEF CheckpointsOf, EvidenceInv, RevisionsInUse
  <2>4. ASSUME NEW k \in GetReplayCheckpoint(g, summary[g].observedAt)
        PROVE  k.revision = revision[g]
    <3>1. k \in CheckpointsOf(g)  BY Zenon, <2>4 DEF GetReplayCheckpoint
    <3>2. PICK n \in checkpoints : n.generation = g /\ n.revision = revision[g]
      BY <2>1, <2>2, <3>1 DEF EvidenceInv, RevisionsInUse
    <3>3. n.observedAt <= summary[g].observedAt
      BY Zenon, <2>1, <3>2, WatermarkBounds
    <3>4. ~CursorBefore(k, n)
      BY Zenon, <2>4, <3>2, <3>3 DEF GetReplayCheckpoint, CheckpointsOf
    <3>5. ~(k.revision < n.revision)
      BY Zenon, <2>1, <2>2, <3>1, <3>2, <3>4 DEF CursorInv, LiveCursorsAdvance
    <3> QED  BY <2>1, <2>2, <3>1, <3>2, <3>5
  <2> QED  BY Zenon, <2>3, <2>4
<1> QED  BY <1>1, CursorCorrect, PTL

(* Registry rows are enqueued in the order of their cursors, across         *)
(* cutovers and historical commits, which is what ClaimOutbox relies on     *)
(* when it hands out the head of a line (store.go:1088-1093, 1154-1158).    *)
THEOREM RegistryCursorAdvancesCorrect == Spec => RegistryCursorAdvances
<1> DEFINE Step ==
      \A new \in registryOutbox' \ registryOutbox, old \in registryOutbox :
        \/ old.generation < new.generation
        \/ old.generation = new.generation /\ old.revision < new.revision
<1>1. EvidenceFacts /\ CursorInv /\ [Next]_vars => [Step]_vars
  <2> SUFFICES ASSUME EvidenceFacts, CursorInv, Next  PROVE Step
    BY Zenon
  <2>0. TypeOK /\ AuthorityInv  BY Zenon DEF EvidenceFacts
  <2>1. ASSUME UNCHANGED evidenceVars  PROVE Step
    BY Zenon, <2>1 DEF evidenceVars
  <2>2. CASE Committing
    <3> PICK g \in Generations, e \in Evaluations, lease \in Generations \X Nat,
             live \in BOOLEAN :
          /\ live => g \in Current
          /\ writeEvaluation(g, e, lease, ~live, live)
      BY Zenon, <2>0, <2>2, CommitShape
    <3> SUFFICES ASSUME NEW new \in registryOutbox' \ registryOutbox, NEW old \in registryOutbox
                 PROVE  \/ old.generation < new.generation
                        \/ old.generation = new.generation /\ old.revision < new.revision
      BY Zenon
    <3>1. live /\ new.generation = g /\ new.revision = revision[g] + 1
      BY DEF writeEvaluation
    <3>2. /\ old.generation \in Generations /\ old.revision \in Nat
          /\ HasAuthority(old.generation) /\ old.revision <= revision[old.generation]
          /\ revision[g] \in Nat
      BY Zenon, <2>0 DEF CursorInv, PublishedIsBehind, TypeOK
    <3>3. old.generation <= g
      BY Zenon, <2>0, <3>1, <3>2 DEF AuthorityInv, CurrentIsLast, OneCurrent
    <3>4. old.generation \in Nat /\ g \in Nat  BY Zenon, <3>2, GenerationsAssumption
    <3> QED  BY <3>1, <3>2, <3>3, <3>4
  <2>3. CASE UNCHANGED durable  BY Zenon, <2>1, <2>3 DEF durable
  <2>4. ASSUME NEW m \in Messages, NEW c \in Commands, NEW t \in TxTimes,
               \/ PrepareApplied(m, c, t) \/ PrepareRecorded(m, c)
               \/ TransitionApplied(m, c) \/ CutoverApplied(m, c, t)
        PROVE  Step
    BY Zenon, <2>1, <2>4 DEF PrepareApplied, PrepareRecorded, TransitionApplied, CutoverApplied
  <2>5. CASE \/ \E t \in TxTimes, w \in Workers, g \in Generations : ClaimDueAssignments(w, g, t)
             \/ \E t \in TxTimes, c \in claims : RenewAssignmentLease(c, t)
             \/ \E t \in TxTimes, c \in claims, next \in NextTimes :
                  DeferAssignmentEvaluation(c, next, t)
    BY Zenon, <2>1, <2>5 DEF ClaimDueAssignments, RenewAssignmentLease, DeferAssignmentEvaluation
  <2> HIDE DEF Step
  <2> QED  BY Zenon, <2>0, <2>2, <2>3, <2>4, <2>5, StepShape
<1> QED  BY <1>1, CursorCorrect, PTL DEF Spec, RegistryCursorAdvances

-----------------------------------------------------------------------------
(* The refinement of Authority                                             *)

(* A generation governs no time outside the window it was prepared with.    *)
AuthorityInWindow ==
  \A g \in Generations : HasAuthority(g) =>
    /\ spec[g] \in Specs
    /\ spec[g].effectiveFrom <= authorityFrom[g]
    /\ authorityUntil[g] <= spec[g].effectiveUntil

RoutingInv == TypeOK /\ AuthorityInv /\ EvidenceInv /\ AuthorityInWindow

(* Interval bounds are integers, and a governed interval is not empty.      *)
LEMMA IntervalTypes ==
  ASSUME TypeOK, NEW g \in Generations
  PROVE  /\ g \in Nat /\ g # 0
         /\ authorityFrom[g] \in Int /\ authorityUntil[g] \in Int
         /\ HasAuthority(g) => authorityFrom[g] \in Nat
<1>1. /\ authorityFrom \in [Generations -> Nat \cup {NoTime}]
      /\ authorityUntil \in [Generations -> Nat \cup {NoTime}]
  BY Zenon DEF TypeOK
<1> QED  BY <1>1, GenerationsAssumption DEF NoTime, HasAuthority

(* A specification's window consists of event times.                        *)
LEMMA WindowIsEventTimes ==
  ASSUME NEW s \in Specs, NEW at \in Int, s.effectiveFrom <= at, at < s.effectiveUntil
  PROVE  at \in EventTimes /\ EventTimes \subseteq Int
<1>1. \A r \in Specs : r.effectiveFrom \in Nat /\ r.effectiveUntil \in Nat
  BY Zenon, SpecsAssumption
<1>2. at \in s.effectiveFrom .. (s.effectiveUntil - 1)  BY <1>1
<1> QED  BY <1>1, <1>2 DEF EventTimes

(* Event times are integers.                                                *)
LEMMA EventTimesAreInt == EventTimes \subseteq Int
BY SpecsAssumption DEF EventTimes

(* At most one generation governs a time.                                   *)
LEMMA OneGovernor ==
  ASSUME TypeOK, AuthorityInv, NEW at \in Int, NEW g \in Generations, NEW h \in Generations,
         WithinAuthority(g, at), WithinAuthority(h, at)
  PROVE  g = h
<1> SUFFICES ASSUME g # h  PROVE FALSE
  BY Zenon
<1>1. g < h \/ h < g  BY IntervalTypes
<1>2. authorityUntil[h] <= authorityFrom[g] \/ authorityUntil[g] <= authorityFrom[h]
  BY Zenon, <1>1 DEF AuthorityInv, AuthorityIsHandedOver, WithinAuthority
<1> QED  BY <1>2, IntervalTypes DEF WithinAuthority

(* Governor returns the generation whose interval holds the time.           *)
LEMMA GovernorIs ==
  ASSUME TypeOK, AuthorityInv, NEW at \in Int, NEW g \in Generations, WithinAuthority(g, at)
  PROVE  Governor(at) = g
<1>1. \A h \in Generations : WithinAuthority(h, at) => h = g  BY Zenon, OneGovernor
<1>2. authorityFrom[g] <= authorityFrom[g]  BY IntervalTypes
<1>3. Authorizes(g, at) /\ \A h \in Generations : Authorizes(h, at) => h = g
  BY Zenon, <1>1, AuthorizesIsWithin
<1>4. ResolveAssignmentAt(at) = {g}  BY Zenon, <1>2, <1>3 DEF ResolveAssignmentAt
<1> QED  BY Zenon, <1>4 DEF Governor

(* Governor returns 0 when no interval holds the time.                      *)
LEMMA GovernorNone ==
  ASSUME NEW at, \A g \in Generations : ~Authorizes(g, at)
  PROVE  Governor(at) = 0
<1>1. ResolveAssignmentAt(at) = {}  BY Zenon DEF ResolveAssignmentAt
<1> QED  BY Zenon, <1>1 DEF Governor

(* ResolveAssignmentAt finds the one interval that holds a time, if any.    *)
GovernorCorrect ==
  \A at \in Int :
    /\ \A g \in Generations : WithinAuthority(g, at) => Governor(at) = g
    /\ (\A g \in Generations : ~WithinAuthority(g, at)) => Governor(at) = 0

(* Lookups are exact while intervals are handed over.                       *)
LEMMA GovernorLookup == TypeOK /\ AuthorityInv => GovernorCorrect
BY Zenon, GovernorIs, GovernorNone, AuthorizesIsWithin DEF GovernorCorrect

(* What an applied cutover at `at' to g does to the intervals.              *)
LEMMA CutoverEffect ==
  ASSUME RoutingInv, AuthorityInv', NEW m \in Messages, NEW c \in Commands, NEW t \in TxTimes,
         c.generation \in Generations, c.effectiveAt \in Nat, CutoverApplied(m, c, t)
  PROVE  LET g == c.generation
             at == c.effectiveAt
         IN  /\ state[g] = "candidate_armed" /\ spec[g] \in Specs
             /\ spec[g].effectiveFrom <= at /\ at < spec[g].effectiveUntil
             /\ \A h \in Current : authorityFrom[h] < at /\ at <= authorityUntil[h]
             /\ ~HasAuthority(g) /\ HasAuthority(g)'
             /\ authorityFrom'[g] = at /\ authorityUntil'[g] = spec[g].effectiveUntil
             /\ \A h \in Generations \ {g} :
                  /\ authorityFrom'[h] = authorityFrom[h]
                  /\ HasAuthority(h)' <=> HasAuthority(h)
                  /\ authorityUntil'[h] = IF h \in Current THEN at ELSE authorityUntil[h]
                  /\ HasAuthority(h) => h < g /\ authorityUntil'[h] <= at
<1> DEFINE g == c.generation
           at == c.effectiveAt
<1>1. TypeOK /\ AuthorityInv  BY Zenon DEF RoutingInv
<1>2. /\ state[g] = "candidate_armed" /\ ~OutsideWindow(g, at)
      /\ \A h \in Current : ~StaleBoundary(h, g, at)
  BY Zenon, CutoverGuard DEF CutoverApplied
<1>3. /\ spec[g] \in Specs /\ spec[g].effectiveFrom <= at /\ at < spec[g].effectiveUntil
  <2>1. spec[g] \in Specs  BY Zenon, <1>1, <1>2 DEF TypeOK
  <2> QED  BY <1>2, <2>1, SpecsAssumption DEF OutsideWindow
<1>4. \A h \in Current : authorityFrom[h] < at /\ at <= authorityUntil[h]
  <2>1. \A h \in Current : h \in Generations  BY Zenon DEF Current
  <2> QED  BY <1>1, <1>2, <2>1, IntervalTypes DEF StaleBoundary
<1>5. ~HasAuthority(g)  BY Zenon, <1>1, <1>2 DEF AuthorityInv, AuthorityShape
<1>6. authorityFrom'[g] = at /\ authorityUntil'[g] = spec[g].effectiveUntil /\ state'[g] = "active"
  BY Zenon, <1>1 DEF CutoverApplied, TypeOK
<1>7. HasAuthority(g)'  BY <1>6 DEF HasAuthority, NoTime
<1>8. \A h \in Generations \ {g} :
        /\ authorityFrom'[h] = authorityFrom[h]
        /\ authorityUntil'[h] = IF h \in Current THEN at ELSE authorityUntil[h]
        /\ HasAuthority(h)' <=> HasAuthority(h)
  BY Zenon, <1>1 DEF CutoverApplied, TypeOK, HasAuthority
<1>9. Current' = {g}  BY Zenon, <1>1 DEF CutoverApplied, TypeOK, Current
<1>10. \A h \in Generations \ {g} : HasAuthority(h) => h < g /\ authorityUntil'[h] <= at
  <2> SUFFICES ASSUME NEW h \in Generations \ {g}, HasAuthority(h)
               PROVE  h < g /\ authorityUntil'[h] <= at
    BY Zenon
  <2>1. HasAuthority(h)'  BY Zenon, <1>8
  <2>2. h <= g  BY Zenon, <1>9, <2>1 DEF AuthorityInv, CurrentIsLast
  <2>3. h < g  BY <1>1, <2>2, IntervalTypes
  <2>4. authorityUntil'[h] <= authorityFrom'[g]
    BY Zenon, <1>7, <2>1, <2>3 DEF AuthorityInv, AuthorityIsHandedOver
  <2> QED  BY Zenon, <1>6, <2>3, <2>4
<1> QED  BY Zenon, <1>2, <1>3, <1>4, <1>5, <1>6, <1>7, <1>8, <1>10

(* A cutover leaves the routes before its boundary alone, gives the new     *)
(* generation its window from there on, and nobody what follows.            *)
LEMMA CutoverRoutes ==
  ASSUME RoutingInv, RoutingInv', NEW m \in Messages, NEW c \in Commands, NEW t \in TxTimes,
         c.generation \in Generations, c.effectiveAt \in Nat, CutoverApplied(m, c, t),
         NEW u \in Int
  PROVE  Governor(u)' = IF u < c.effectiveAt THEN Governor(u)
                        ELSE IF u <= spec[c.generation].effectiveUntil - 1
                        THEN c.generation ELSE 0
<1> DEFINE g == c.generation
           at == c.effectiveAt
<1>1. TypeOK /\ AuthorityInv /\ AuthorityInv'  BY Zenon DEF RoutingInv
<1>2. GovernorCorrect  BY Zenon, <1>1, GovernorLookup
<1>3. GovernorCorrect'
  <2>1. (TypeOK /\ AuthorityInv)'  BY Zenon DEF RoutingInv
  <2> QED  BY <2>1, GovernorLookup, PTL
<1>4. /\ spec[g] \in Specs /\ spec[g].effectiveUntil \in Nat /\ ~HasAuthority(g)
      /\ \A h \in Current : authorityFrom[h] < at /\ at <= authorityUntil[h]
      /\ HasAuthority(g)' /\ authorityFrom'[g] = at
      /\ authorityUntil'[g] = spec[g].effectiveUntil
      /\ \A h \in Generations \ {g} :
           /\ authorityFrom'[h] = authorityFrom[h]
           /\ HasAuthority(h)' <=> HasAuthority(h)
           /\ authorityUntil'[h] = IF h \in Current THEN at ELSE authorityUntil[h]
           /\ HasAuthority(h) => authorityUntil'[h] <= at
  BY Zenon, <1>1, CutoverEffect, SpecsAssumption
<1>5. \A h \in Generations : authorityFrom[h] \in Int /\ authorityUntil[h] \in Int
  BY Zenon, <1>1, IntervalTypes
<1>6. CASE u < at
  <2>1. \A h \in Generations : WithinAuthority(h, u)' <=> WithinAuthority(h, u)
    <3> SUFFICES ASSUME NEW h \in Generations  PROVE WithinAuthority(h, u)' <=> WithinAuthority(h, u)
      BY Zenon
    <3>1. CASE h = g  BY <1>4, <1>6, <3>1 DEF WithinAuthority
    <3>2. CASE h # g /\ h \in Current
      <4>1. /\ authorityFrom'[h] = authorityFrom[h] /\ authorityUntil'[h] = at
            /\ HasAuthority(h)' <=> HasAuthority(h)
        BY Zenon, <1>4, <3>2
      <4> QED  BY <1>4, <1>5, <1>6, <3>2, <4>1 DEF WithinAuthority
    <3>3. CASE h # g /\ h \notin Current
      BY Zenon, <1>4, <1>5, <1>6, <3>3 DEF WithinAuthority
    <3> QED  BY Zenon, <3>1, <3>2, <3>3
  <2>2. CASE \E h \in Generations : WithinAuthority(h, u)
    BY Zenon, <1>2, <1>3, <1>6, <2>1, <2>2 DEF GovernorCorrect
  <2>3. CASE \A h \in Generations : ~WithinAuthority(h, u)
    BY Zenon, <1>2, <1>3, <1>6, <2>1, <2>3 DEF GovernorCorrect
  <2> QED  BY Zenon, <2>2, <2>3
<1>7. CASE at <= u /\ u <= spec[g].effectiveUntil - 1
  <2>1. WithinAuthority(g, u)'  BY <1>4, <1>7 DEF WithinAuthority
  <2> QED  BY <1>3, <1>7, <2>1 DEF GovernorCorrect
<1>8. CASE at <= u /\ spec[g].effectiveUntil <= u
  <2>1. \A h \in Generations : ~WithinAuthority(h, u)'
    <3> SUFFICES ASSUME NEW h \in Generations, WithinAuthority(h, u)'  PROVE FALSE
      BY Zenon
    <3>1. CASE h = g  BY <1>4, <1>8, <3>1 DEF WithinAuthority
    <3>2. CASE h # g
      <4>1. authorityUntil'[h] <= at /\ authorityUntil'[h] \in Int
        BY <1>4, <1>5, <3>2 DEF WithinAuthority
      <4> QED  BY <1>8, <4>1 DEF WithinAuthority
    <3> QED  BY Zenon, <3>1, <3>2
  <2> QED  BY <1>3, <1>4, <1>8, <2>1 DEF GovernorCorrect
<1> QED  BY <1>4, <1>6, <1>7, <1>8

(* Every applied cutover is a handover of the abstract specification.       *)
LEMMA CutoverHandsOver ==
  ASSUME RoutingInv, RoutingInv', NEW m \in Messages, NEW c \in Commands, NEW t \in TxTimes,
         c.generation \in Generations, c.effectiveAt \in Nat, CutoverApplied(m, c, t)
  PROVE  [Routing!Next]_<<Routes, Attributions>>
<1> DEFINE g == c.generation
           at == c.effectiveAt
           last == spec[g].effectiveUntil - 1
<1>1. /\ TypeOK /\ AuthorityInv /\ AuthorityInv' /\ EvidenceInv' /\ AuthorityInWindow
      /\ EventTimes \subseteq Int
  BY Zenon, EventTimesAreInt DEF RoutingInv
<1>2. /\ spec[g] \in Specs /\ spec[g].effectiveFrom <= at /\ at < spec[g].effectiveUntil
      /\ \A h \in Current : authorityFrom[h] < at /\ at <= authorityUntil[h]
      /\ ~HasAuthority(g)
      /\ \A h \in Generations \ {g} : HasAuthority(h) => h < g /\ authorityUntil'[h] <= at
  BY Zenon, <1>1, CutoverEffect
<1>3. spec[g].effectiveFrom \in Nat /\ spec[g].effectiveUntil \in Nat /\ last \in Int
  BY <1>2, SpecsAssumption
<1>4. at \in EventTimes /\ last \in EventTimes /\ at <= last
  BY <1>2, <1>3, WindowIsEventTimes
<1>5. GovernorCorrect  BY Zenon, <1>1, GovernorLookup
<1>6. Attributions' = Attributions
  BY Zenon DEF CutoverApplied, evidenceVars, Attributions
<1>7. \A u \in EventTimes : Routes[u] < g
  <2> SUFFICES ASSUME NEW u \in EventTimes  PROVE Governor(u) < g
    BY Zenon DEF Routes
  <2>1. u \in Int /\ g \in Nat /\ g # 0  BY Zenon, <1>1, IntervalTypes
  <2>2. CASE \A h \in Generations : ~WithinAuthority(h, u)
    BY <1>5, <2>1, <2>2 DEF GovernorCorrect
  <2>3. ASSUME NEW h \in Generations, WithinAuthority(h, u)  PROVE Governor(u) < g
    <3>1. HasAuthority(h) /\ h # g  BY Zenon, <1>2, <2>3 DEF WithinAuthority
    <3> QED  BY Zenon, <1>2, <1>5, <2>1, <2>3, <3>1 DEF GovernorCorrect
  <2> QED  BY Zenon, <2>2, <2>3
<1>8. ASSUME NEW v \in EventTimes, Routes[v] # 0
      PROVE  \E u \in EventTimes : u = at - 1 /\ Routes[u] # 0
  <2>1. v \in Int /\ Governor(v) # 0  BY Zenon, <1>1, <1>8 DEF Routes
  <2>2. PICK h \in Generations : HasAuthority(h)
    BY Zenon, <1>5, <2>1 DEF GovernorCorrect, WithinAuthority
  <2>3. PICK k \in Current : TRUE  BY Zenon, <1>1, <2>2 DEF AuthorityInv, CurrentIsLast
  <2>4. k \in Generations /\ HasAuthority(k)
    BY Zenon, <1>1 DEF Current, AuthorityInv, AuthorityShape
  <2>5. /\ spec[k] \in Specs /\ spec[k].effectiveFrom <= authorityFrom[k]
        /\ authorityUntil[k] <= spec[k].effectiveUntil
        /\ spec[k].effectiveFrom \in Nat /\ spec[k].effectiveUntil \in Nat
        /\ authorityFrom[k] \in Int /\ authorityUntil[k] \in Int
    BY Zenon, <1>1, <2>4, SpecsAssumption, IntervalTypes DEF AuthorityInWindow
  <2>6. /\ at - 1 \in Int /\ authorityFrom[k] <= at - 1 /\ at - 1 < authorityUntil[k]
        /\ spec[k].effectiveFrom <= at - 1 /\ at - 1 < spec[k].effectiveUntil
    BY <1>2, <2>5
  <2>7. at - 1 \in EventTimes  BY Zenon, <2>5, <2>6, WindowIsEventTimes
  <2>8. Governor(at - 1) = k
    BY Zenon, <1>5, <2>4, <2>6 DEF GovernorCorrect, WithinAuthority
  <2>9. k # 0  BY Zenon, <1>1, <2>4, IntervalTypes
  <2> QED  BY Zenon, <2>7, <2>8, <2>9 DEF Routes
<1>9. \A e \in Attributions : e.observedAt < at
  <2> SUFFICES ASSUME NEW k \in checkpoints  PROVE k.observedAt < at
    BY DEF Attributions
  <2>1. k.generation \in Generations /\ k.observedAt \in Nat  BY Zenon, <1>1, CheckpointTypes
  <2>2. k \in checkpoints'  BY Zenon DEF CutoverApplied, evidenceVars
  <2>3. k.observedAt < authorityUntil'[k.generation] /\ HasAuthority(k.generation)
    <3>1. HasAuthority(k.generation)
      BY Zenon DEF RoutingInv, EvidenceInv, EvidenceInAuthority
    <3> QED  BY Zenon, <1>1, <2>2, <3>1 DEF EvidenceInv, EvidenceInAuthority
  <2>4. k.generation # g  BY Zenon, <1>2, <2>3
  <2>5. authorityUntil'[k.generation] <= at  BY Zenon, <1>2, <2>1, <2>3, <2>4
  <2>6. authorityUntil'[k.generation] \in Int
    <3>1. authorityUntil' \in [Generations -> Nat \cup {NoTime}]  BY Zenon DEF RoutingInv, TypeOK
    <3> QED  BY <2>1, <3>1 DEF NoTime
  <2> QED  BY <2>1, <2>3, <2>5, <2>6
<1>10. Routes' = [u \in EventTimes |-> IF u < at THEN Routes[u]
                                       ELSE IF u <= last THEN g ELSE 0]
  <2>1. \A u \in EventTimes :
          Governor(u)' = IF u < at THEN Governor(u) ELSE IF u <= last THEN g ELSE 0
    BY Zenon, <1>1, CutoverRoutes
  <2>2. Routes' = [u \in EventTimes |-> Governor(u)']  BY Zenon DEF Routes
  <2>3. \A u \in EventTimes : Routes[u] = Governor(u)  BY Zenon DEF Routes
  <2> QED  BY Zenon, <2>1, <2>2, <2>3
<1>11. Routing!HandOver(g, at, last)
  BY Zenon, <1>4, <1>6, <1>7, <1>8, <1>9, <1>10 DEF Routing!HandOver, Routing!Nobody
<1> QED  BY Zenon, <1>4, <1>6, <1>11 DEF Routing!Next

(* Every commit, live or historical, attributes evidence.                   *)
LEMMA CommitAttributes ==
  ASSUME RoutingInv, NEW g \in Generations, NEW e \in Evaluations, NEW lease,
         NEW equal, NEW live, EvaluationWithinAuthority(g, e),
         writeEvaluation(g, e, lease, equal, live), UNCHANGED authorityVars
  PROVE  [Routing!Next]_<<Routes, Attributions>>
<1>1. TypeOK /\ AuthorityInv /\ AuthorityInWindow /\ EventTimes \subseteq Int
  BY Zenon, EventTimesAreInt DEF RoutingInv
<1>2. GovernorCorrect  BY Zenon, <1>1, GovernorLookup
<1>3. /\ e.causalFrom \in Nat /\ e.observedAt \in Nat /\ e.causalFrom <= e.observedAt
      /\ WithinAuthority(g, e.causalFrom) /\ WithinAuthority(g, e.observedAt)
  BY Zenon, EvaluationsAssumption DEF EvaluationWithinAuthority
<1>4. authorityFrom[g] \in Int /\ authorityUntil[g] \in Int  BY Zenon, <1>1, IntervalTypes
<1>5. e.causalFrom \in EventTimes /\ e.observedAt \in EventTimes
  <2>1. /\ spec[g] \in Specs /\ spec[g].effectiveFrom <= authorityFrom[g]
        /\ authorityUntil[g] <= spec[g].effectiveUntil
        /\ spec[g].effectiveFrom \in Nat /\ spec[g].effectiveUntil \in Nat
    BY Zenon, <1>1, <1>3, SpecsAssumption DEF AuthorityInWindow, WithinAuthority
  <2> QED  BY <1>3, <1>4, <2>1, WindowIsEventTimes DEF WithinAuthority
<1>6. \A u \in EventTimes : e.causalFrom <= u /\ u <= e.observedAt => Routes[u] = g
  <2> SUFFICES ASSUME NEW u \in EventTimes, e.causalFrom <= u, u <= e.observedAt
               PROVE  Governor(u) = g
    BY Zenon DEF Routes
  <2>1. u \in Int  BY Zenon, <1>1
  <2>2. WithinAuthority(g, u)  BY <1>3, <1>4, <2>1 DEF WithinAuthority
  <2> QED  BY Zenon, <1>2, <2>1, <2>2 DEF GovernorCorrect
<1>7. Attributions' = Attributions \cup {[generation |-> g, causalFrom |-> e.causalFrom,
                                         observedAt |-> e.observedAt]}
  <2> DEFINE new == [generation |-> g, revision |-> revision[g] + 1,
                     causalFrom |-> e.causalFrom, observedAt |-> e.observedAt,
                     frame |-> e.frame, lease |-> lease]
             Range(k) == [generation |-> k.generation, causalFrom |-> k.causalFrom,
                          observedAt |-> k.observedAt]
  <2>1. checkpoints' = checkpoints \cup {new}  BY Zenon DEF writeEvaluation
  <2>2. Range(new) = [generation |-> g, causalFrom |-> e.causalFrom,
                      observedAt |-> e.observedAt]
    BY Zenon
  <2>3. Attributions = {Range(k) : k \in checkpoints}  BY Zenon DEF Attributions
  <2>4. Attributions' = {Range(k) : k \in checkpoints'}  BY Zenon DEF Attributions
  <2> HIDE DEF new, Range
  <2> QED  BY Zenon, <2>1, <2>2, <2>3, <2>4
<1>8. Routes' = Routes
  BY DEF authorityVars, Routes, Governor, ResolveAssignmentAt, Authorizes, HasAuthority
<1>9. Routing!Attribute(g, e.causalFrom, e.observedAt)
  BY Zenon, <1>3, <1>6, <1>7, <1>8 DEF Routing!Attribute
<1> QED  BY Zenon, <1>5, <1>8, <1>9 DEF Routing!Next

(* Steps that touch neither intervals nor evidence are not seen.            *)
LEMMA RoutingUnseen ==
  ASSUME UNCHANGED <<authorityVars, evidenceVars>>
  PROVE  [Routing!Next]_<<Routes, Attributions>>
<1>1. UNCHANGED <<authorityFrom, authorityUntil, checkpoints>>
  BY Zenon DEF authorityVars, evidenceVars
<1>2. Routes' = Routes
  BY <1>1 DEF Routes, Governor, ResolveAssignmentAt, Authorizes, HasAuthority
<1>3. Attributions' = Attributions  BY Zenon, <1>1 DEF Attributions
<1> QED  BY Zenon, <1>2, <1>3

(* Every step is a step of the abstract specification, or unseen.           *)
LEMMA RoutingStep ==
  RoutingInv /\ RoutingInv' /\ [Next]_vars => [Routing!Next]_<<Routes, Attributions>>
<1> SUFFICES ASSUME RoutingInv, RoutingInv', [Next]_vars
             PROVE  [Routing!Next]_<<Routes, Attributions>>
  BY Zenon
<1>1. CASE UNCHANGED vars  BY Zenon, <1>1, RoutingUnseen DEF vars, durable
<1>2. CASE Next
  <2>0. TypeOK  BY Zenon DEF RoutingInv
  <2>1. CASE UNCHANGED durable  BY Zenon, <2>1, RoutingUnseen DEF durable
  <2>2. ASSUME NEW m \in Messages, NEW c \in Commands, NEW t \in TxTimes,
               PrepareApplied(m, c, t) \/ PrepareRecorded(m, c) \/ TransitionApplied(m, c)
        PROVE  [Routing!Next]_<<Routes, Attributions>>
    BY Zenon, <2>2, RoutingUnseen DEF PrepareApplied, PrepareRecorded, TransitionApplied
  <2>3. CASE \/ \E t \in TxTimes, w \in Workers, g \in Generations : ClaimDueAssignments(w, g, t)
             \/ \E t \in TxTimes, c \in claims : RenewAssignmentLease(c, t)
             \/ \E t \in TxTimes, c \in claims, next \in NextTimes :
                  DeferAssignmentEvaluation(c, next, t)
    BY Zenon, <2>3, RoutingUnseen
    DEF ClaimDueAssignments, RenewAssignmentLease, DeferAssignmentEvaluation
  <2>4. CASE Committing
    <3> PICK t \in TxTimes, c \in claims, e \in Evaluations, next \in NextTimes :
          \/ CommitEvaluation(c, e, next, t)
          \/ \E h \in Generations : CommitHistoricalEvaluation(c, h, e, next, t)
      BY Zenon, <2>4 DEF Committing
    <3>1. c.generation \in Generations  BY Zenon, <2>0 DEF TypeOK, Claims
    <3>2. CASE CommitEvaluation(c, e, next, t)
      BY Zenon, <3>1, <3>2, CommitAttributes DEF CommitEvaluation
    <3>3. CASE \E h \in Generations : CommitHistoricalEvaluation(c, h, e, next, t)
      BY Zenon, <3>1, <3>3, CommitAttributes DEF CommitHistoricalEvaluation
    <3> QED  BY Zenon, <3>2, <3>3
  <2>5. ASSUME NEW m \in Messages, NEW c \in Commands, NEW t \in TxTimes,
               c.generation \in Generations, c.effectiveAt \in Nat, CutoverApplied(m, c, t)
        PROVE  [Routing!Next]_<<Routes, Attributions>>
    BY Zenon, <2>5, CutoverHandsOver
  <2> QED  BY Zenon, <1>2, <2>0, <2>1, <2>2, <2>3, <2>4, <2>5, StepShape
<1> QED  BY Zenon, <1>1, <1>2

(* Cutovers open an interval inside the candidate's window and only ever    *)
(* shorten one; the specification of a generation with authority is final.  *)
LEMMA WindowNext ==
  TypeOK /\ AuthorityInv /\ EvidenceInv /\ AuthorityInv' /\ AuthorityInWindow /\ [Next]_vars
    => AuthorityInWindow'
<1> SUFFICES ASSUME TypeOK, AuthorityInv, EvidenceInv, AuthorityInv', AuthorityInWindow, [Next]_vars
             PROVE  AuthorityInWindow'
  BY Zenon
<1>1. ASSUME UNCHANGED authorityVars,
             \A g \in Generations : HasAuthority(g) => spec'[g] = spec[g]
      PROVE  AuthorityInWindow'
  BY Zenon, <1>1 DEF authorityVars, AuthorityInWindow, HasAuthority
<1>2. CASE UNCHANGED vars  BY Zenon, <1>1, <1>2 DEF vars, durable, rowVars
<1>3. CASE Next
  <2>1. CASE UNCHANGED durable  BY Zenon, <1>1, <2>1 DEF durable, rowVars
  <2>2. ASSUME NEW m \in Messages, NEW c \in Commands, NEW t \in TxTimes,
               c.generation \in Generations, PrepareApplied(m, c, t)
        PROVE  AuthorityInWindow'
    <3>0. c.generation \in Nat  BY Zenon, <2>2, GenerationsAssumption
    <3>1. ~Exists(c.generation)  BY <2>2, <3>0 DEF PrepareApplied
    <3>2. ~HasAuthority(c.generation)
      BY Zenon, <2>2, <3>1 DEF AuthorityInv, AuthorityShape, Exists
    <3>3. \A g \in Generations : HasAuthority(g) => spec'[g] = spec[g]
      BY Zenon, <2>2, <3>2 DEF PrepareApplied, TypeOK
    <3> QED  BY Zenon, <1>1, <2>2, <3>3 DEF PrepareApplied
  <2>3. ASSUME NEW m \in Messages, NEW c \in Commands,
               PrepareRecorded(m, c) \/ TransitionApplied(m, c)
        PROVE  AuthorityInWindow'
    BY Zenon, <1>1, <2>3 DEF PrepareRecorded, TransitionApplied, rowVars
  <2>4. CASE \/ \E t \in TxTimes, w \in Workers, g \in Generations : ClaimDueAssignments(w, g, t)
             \/ \E t \in TxTimes, c \in claims : RenewAssignmentLease(c, t)
             \/ \E t \in TxTimes, c \in claims, next \in NextTimes :
                  DeferAssignmentEvaluation(c, next, t)
    BY Zenon, <1>1, <2>4
    DEF ClaimDueAssignments, RenewAssignmentLease, DeferAssignmentEvaluation, rowVars
  <2>5. CASE Committing
    BY Zenon, <1>1, <2>5 DEF Committing, CommitEvaluation, CommitHistoricalEvaluation, rowVars
  <2>6. ASSUME NEW m \in Messages, NEW c \in Commands, NEW t \in TxTimes,
               c.generation \in Generations, c.effectiveAt \in Nat, CutoverApplied(m, c, t)
        PROVE  AuthorityInWindow'
    <3> DEFINE g == c.generation
               at == c.effectiveAt
    <3>1. /\ spec[g] \in Specs /\ spec[g].effectiveFrom <= at
          /\ \A h \in Current : at <= authorityUntil[h]
          /\ authorityFrom'[g] = at /\ authorityUntil'[g] = spec[g].effectiveUntil
          /\ \A h \in Generations \ {g} :
               /\ authorityFrom'[h] = authorityFrom[h]
               /\ HasAuthority(h)' <=> HasAuthority(h)
               /\ authorityUntil'[h] = IF h \in Current THEN at ELSE authorityUntil[h]
      BY Zenon, <2>6, CutoverEffect DEF RoutingInv
    <3>2. spec' = spec  BY Zenon, <2>6 DEF CutoverApplied
    <3>3. \A h \in Generations : authorityUntil[h] \in Int  BY Zenon, IntervalTypes
    <3>4. \A s \in Specs : s.effectiveUntil \in Nat  BY Zenon, SpecsAssumption
    <3> SUFFICES ASSUME NEW h \in Generations, HasAuthority(h)'
                 PROVE  /\ spec[h] \in Specs
                        /\ spec[h].effectiveFrom <= authorityFrom'[h]
                        /\ authorityUntil'[h] <= spec[h].effectiveUntil
      BY Zenon, <3>2 DEF AuthorityInWindow
    <3>5. CASE h = g  BY <3>1, <3>4, <3>5
    <3>6. CASE h # g
      <4>1. /\ spec[h] \in Specs /\ spec[h].effectiveFrom <= authorityFrom[h]
            /\ authorityUntil[h] <= spec[h].effectiveUntil
        BY Zenon, <3>1, <3>6 DEF AuthorityInWindow
      <4> QED  BY <2>6, <3>1, <3>3, <3>4, <3>6, <4>1
    <3> QED  BY Zenon, <3>5, <3>6
  <2> QED  BY Zenon, <1>3, <2>1, <2>2, <2>3, <2>4, <2>5, <2>6, StepShape
<1> QED  BY Zenon, <1>2, <1>3

(* Every interval stays inside the effective window of its specification,   *)
(* whatever boundary a cutover asks for (store.go:447-452, 477-481).        *)
THEOREM RoutingCorrect == Spec => []RoutingInv
<1>1. Init => AuthorityInWindow  BY DEF Init, AuthorityInWindow, HasAuthority
<1>2. /\ TypeOK /\ AuthorityInv /\ EvidenceInv /\ AuthorityInv' /\ AuthorityInWindow
      /\ [Next]_vars
      => AuthorityInWindow'
  BY Zenon, WindowNext
<1> QED  BY <1>1, <1>2, EvidenceCorrect, PTL DEF Spec, RoutingInv

(* The store routes event time as Authority promises (docs/                 *)
(* assignment-cutover.md "Event-time routing"), for any set of generations, *)
(* specifications, evaluations and workers.                                 *)
THEOREM RoutesAsPromisedCorrect == Spec => RoutesAsPromised
<1>1. Init => Routing!Init
  <2> SUFFICES ASSUME Init  PROVE Routing!Init
    BY Zenon
  <2>1. \A at \in EventTimes : Governor(at) = 0
    BY Zenon, GovernorNone DEF Init, Authorizes, HasAuthority
  <2>2. Routes = [at \in EventTimes |-> 0]  BY Zenon, <2>1 DEF Routes
  <2>3. Attributions = {}  BY Zenon DEF Init, Attributions
  <2> QED  BY Zenon, <2>2, <2>3 DEF Routing!Init, Routing!Nobody
<1>2. RoutingInv /\ RoutingInv' /\ [Next]_vars => [Routing!Next]_<<Routes, Attributions>>
  BY Zenon, RoutingStep
<1> QED  BY <1>1, <1>2, RoutingCorrect, PTL DEF Spec, RoutesAsPromised, Routing!Spec

=============================================================================
