---------------------------- MODULE RegistryOutbox ----------------------------
(***************************************************************************)
(* Delivery of committed summaries to Registry: the head-of-line outbox    *)
(* lease (store.go, ClaimOutbox, MarkOutboxDelivered, RetryOutbox), the    *)
(* publisher replicas (projection/registry/publisher.go) and, external to  *)
(* the repository, Registry and the network in between.                    *)
(*                                                                         *)
(* The (generation, revision) cursors of an assignment are numbered 1, 2,  *)
(* ... in the order the evaluation commits enqueue them, which is cursor   *)
(* order (RegistryCursorAdvances of AssignmentStore).  Time is abstract: a *)
(* lease is held until Lapse says that its lease_until has passed, and a   *)
(* holder whose transaction read the clock before may still use it; a      *)
(* retry delay is a step not taken yet.                                    *)
(***************************************************************************)
EXTENDS Integers, FiniteSets

CONSTANTS
  Assignments,
  Publishers,   \* publisher replicas
  BatchSize,    \* messages claimed at once
  MaxCursor,    \* bound on the summaries committed per assignment
  MaxFaults,    \* bound on crashes, timeouts, losses and early lapses
  NoPublisher   \* NULL lease_owner

ASSUME BatchAssumption == BatchSize \in Nat \ {0}
ASSUME OutboxBoundsAssumption == MaxCursor \in Nat /\ MaxFaults \in Nat
ASSUME PublishersAssumption == NoPublisher \notin Publishers

Rows == Assignments \X (1 .. MaxCursor)

(* An OutboxClaim: the fence a delivery is completed with.                  *)
OutboxClaims == [row : Rows, worker : Publishers, leaseGeneration : Nat]

VARIABLES
  enqueued,         \* number of rows committed for each assignment
  delivered,        \* rows with delivered_at set
  leaseOwner,       \* lease_owner
  leaseGeneration,  \* lease_generation
  lapsed,           \* rows whose lease_until has passed
  sending,          \* claims a publisher has not sent yet
  waiting,          \* claims whose request is out
  acked,            \* claims with a valid acknowledgement, not marked yet
  failed,           \* claims with an error, not rescheduled yet
  requests,         \* requests in the network, also of publishers that gave up
  responses,        \* responses in the network: the projection's cursor, 0 is an error
  accepted,         \* Registry's cursor of each assignment
  faults            \* faults so far

storeVars == <<enqueued, delivered, leaseOwner, leaseGeneration, lapsed>>
publisherVars == <<sending, waiting, acked, failed>>
networkVars == <<requests, responses, accepted>>
vars == <<storeVars, publisherVars, networkVars, faults>>

TypeOK ==
  /\ enqueued \in [Assignments -> 0 .. MaxCursor]
  /\ delivered \subseteq Rows
  /\ leaseOwner \in [Rows -> Publishers \cup {NoPublisher}]
  /\ leaseGeneration \in [Rows -> Nat]
  /\ lapsed \subseteq Rows
  /\ sending \subseteq OutboxClaims
  /\ waiting \subseteq OutboxClaims
  /\ acked \subseteq OutboxClaims
  /\ failed \subseteq OutboxClaims
  /\ requests \subseteq OutboxClaims
  /\ responses \subseteq [claim : OutboxClaims, cursor : 0 .. MaxCursor]
  /\ accepted \in [Assignments -> 0 .. MaxCursor]
  /\ faults \in 0 .. MaxFaults

Init ==
  /\ enqueued = [a \in Assignments |-> 0]
  /\ delivered = {}
  /\ leaseOwner = [r \in Rows |-> NoPublisher]
  /\ leaseGeneration = [r \in Rows |-> 0]
  /\ lapsed = {}
  /\ sending = {}
  /\ waiting = {}
  /\ acked = {}
  /\ failed = {}
  /\ requests = {}
  /\ responses = {}
  /\ accepted = [a \in Assignments |-> 0]
  /\ faults = 0

-----------------------------------------------------------------------------
(* The store                                                               *)

Undelivered(r) == r[2] <= enqueued[r[1]] /\ r \notin delivered

(* An evaluation commit appends one row.                                    *)
Enqueue(a) ==
  /\ enqueued[a] < MaxCursor
  /\ enqueued' = [enqueued EXCEPT ![a] = @ + 1]
  /\ UNCHANGED <<delivered, leaseOwner, leaseGeneration, lapsed, publisherVars, networkVars,
                 faults>>

(* Mutant: an expired lease is never taken over.                            *)
Claimable_Unleased(r) == leaseOwner[r] = NoPublisher

(* Unleased, or leased and expired.                                         *)
Claimable(r) == leaseOwner[r] = NoPublisher \/ r \in lapsed

(* Mutant: any row of the assignment.                                       *)
HeadOfLine_Any(r) == TRUE

(* The oldest undelivered row of its assignment.                            *)
HeadOfLine(r) == \A n \in 1 .. r[2] - 1 : ~Undelivered(<<r[1], n>>)

Busy(p) == \E c \in sending \cup waiting \cup acked \cup failed : c.worker = p

(* Flush claims one batch, and the next only when all its claims are done.  *)
ClaimOutbox(p, rows) ==
  /\ ~Busy(p)
  /\ rows # {} /\ Cardinality(rows) <= BatchSize
  /\ \A r \in rows : Undelivered(r) /\ HeadOfLine(r) /\ Claimable(r)
  /\ leaseOwner' = [r \in Rows |-> IF r \in rows THEN p ELSE leaseOwner[r]]
  /\ leaseGeneration' = [r \in Rows |-> leaseGeneration[r] + IF r \in rows THEN 1 ELSE 0]
  /\ lapsed' = lapsed \ rows
  /\ sending' = sending \cup
       {[row |-> r, worker |-> p, leaseGeneration |-> leaseGeneration[r] + 1] : r \in rows}
  /\ UNCHANGED <<enqueued, delivered, waiting, acked, failed, networkVars, faults>>

(* The fence of MarkOutboxDelivered and RetryOutbox.                        *)
HoldsLease(c) ==
  /\ leaseOwner[c.row] = c.worker
  /\ leaseGeneration[c.row] = c.leaseGeneration
  /\ c.row \notin delivered

(* Mutant: the owner is set to an empty string, not to NULL.                *)
ReleaseLease_Empty(c) ==
  /\ leaseOwner' = [leaseOwner EXCEPT ![c.row] = ""]
  /\ lapsed' = lapsed \ {c.row}

ReleaseLease(c) ==
  /\ leaseOwner' = [leaseOwner EXCEPT ![c.row] = NoPublisher]
  /\ lapsed' = lapsed \ {c.row}

(* Time passes a lease by.  That is a fault only while its publisher is     *)
(* still at work: leases are configured to outlast a request.               *)
Lapse(r) ==
  /\ leaseOwner[r] # NoPublisher
  /\ r \notin lapsed
  /\ lapsed' = lapsed \cup {r}
  /\ LET alive == \E c \in sending \cup waiting \cup acked \cup failed :
                    c.row = r /\ HoldsLease(c)
     IN  IF alive THEN faults < MaxFaults /\ faults' = faults + 1 ELSE UNCHANGED faults
  /\ UNCHANGED <<enqueued, delivered, leaseOwner, leaseGeneration, publisherVars, networkVars>>

-----------------------------------------------------------------------------
(* The publisher                                                           *)

Send(c) ==
  /\ c \in sending
  /\ sending' = sending \ {c}
  /\ waiting' = waiting \cup {c}
  /\ requests' = requests \cup {c}
  /\ UNCHANGED <<storeVars, acked, failed, responses, accepted, faults>>

(* Mutant: any answer is an acknowledgement.                                *)
validateAcknowledgement_Any(c, cursor) == TRUE

(* The acknowledged projection must have the cursor that was sent.          *)
validateAcknowledgement(c, cursor) == cursor = c.row[2]

Receive(m) ==
  /\ m \in responses
  /\ m.claim \in waiting
  /\ waiting' = waiting \ {m.claim}
  /\ responses' = responses \ {m}
  /\ IF validateAcknowledgement(m.claim, m.cursor)
     THEN acked' = acked \cup {m.claim} /\ UNCHANGED failed
     ELSE failed' = failed \cup {m.claim} /\ UNCHANGED acked
  /\ UNCHANGED <<storeVars, sending, requests, accepted, faults>>

(* RequestTimeout.  It is a fault while the request or its response is on   *)
(* its way still, and the only way on once either is lost.                  *)
Timeout(c) ==
  /\ c \in waiting
  /\ IF c \in requests \/ \E m \in responses : m.claim = c
     THEN faults < MaxFaults /\ faults' = faults + 1
     ELSE UNCHANGED faults
  /\ waiting' = waiting \ {c}
  /\ failed' = failed \cup {c}
  /\ UNCHANGED <<storeVars, sending, acked, networkVars>>

MarkOutboxDelivered(c) ==
  /\ c \in acked
  /\ acked' = acked \ {c}
  /\ IF HoldsLease(c)
     THEN delivered' = delivered \cup {c.row} /\ ReleaseLease(c)
     ELSE UNCHANGED <<delivered, leaseOwner, lapsed>>
  /\ UNCHANGED <<enqueued, leaseGeneration, sending, waiting, failed, networkVars, faults>>

(* Mutant: a failed message is given up.                                    *)
RetryOutbox_GivesUp(c) ==
  /\ c \in failed
  /\ failed' = failed \ {c}
  /\ IF HoldsLease(c)
     THEN delivered' = delivered \cup {c.row} /\ ReleaseLease(c)
     ELSE UNCHANGED <<delivered, leaseOwner, lapsed>>
  /\ UNCHANGED <<enqueued, leaseGeneration, sending, waiting, acked, networkVars, faults>>

RetryOutbox(c) ==
  /\ c \in failed
  /\ failed' = failed \ {c}
  /\ IF HoldsLease(c) THEN ReleaseLease(c) ELSE UNCHANGED <<leaseOwner, lapsed>>
  /\ UNCHANGED <<enqueued, delivered, leaseGeneration, sending, waiting, acked, networkVars,
                 faults>>

(* The update finds the lease expired: ErrOutboxLeaseLost, the row waits    *)
(* for the next claim.                                                      *)
LoseLease(c) ==
  /\ c \in acked \cup failed
  /\ c.row \in lapsed
  /\ acked' = acked \ {c}
  /\ failed' = failed \ {c}
  /\ UNCHANGED <<storeVars, sending, waiting, networkVars, faults>>

(* A publisher stops, or its context is cancelled, between any two steps.   *)
Crash(p) ==
  /\ Busy(p)
  /\ faults < MaxFaults
  /\ faults' = faults + 1
  /\ sending' = {c \in sending : c.worker # p}
  /\ waiting' = {c \in waiting : c.worker # p}
  /\ acked' = {c \in acked : c.worker # p}
  /\ failed' = {c \in failed : c.worker # p}
  /\ UNCHANGED <<storeVars, networkVars>>

-----------------------------------------------------------------------------
(* Registry and the network (external)                                     *)

Respond(c, cursor) ==
  /\ requests' = requests \ {c}
  /\ responses' = responses \cup {[claim |-> c, cursor |-> cursor]}
  /\ UNCHANGED <<storeVars, publisherVars>>

(* Registry keeps the highest cursor.  An older one is refused, with an     *)
(* error or with the projection it has.                                     *)
PublishConformanceSummary(c) ==
  LET a == c.row[1]
      n == c.row[2]
  IN  /\ c \in requests
      /\ \/ /\ n >= accepted[a]
            /\ accepted' = [accepted EXCEPT ![a] = n]
            /\ Respond(c, n)
         \/ /\ n < accepted[a]
            /\ Respond(c, 0) \/ Respond(c, accepted[a])
            /\ UNCHANGED accepted
      /\ UNCHANGED faults

(* Registry is unavailable, or a message is lost.                           *)
Unavailable(c) ==
  /\ c \in requests
  /\ faults < MaxFaults
  /\ faults' = faults + 1
  /\ Respond(c, 0)
  /\ UNCHANGED accepted

Lose ==
  /\ faults < MaxFaults
  /\ faults' = faults + 1
  /\ \/ \E c \in requests : requests' = requests \ {c} /\ UNCHANGED responses
     \/ \E m \in responses : responses' = responses \ {m} /\ UNCHANGED requests
  /\ UNCHANGED <<storeVars, publisherVars, accepted>>

-----------------------------------------------------------------------------

PublisherStep(c) == Send(c) \/ MarkOutboxDelivered(c) \/ RetryOutbox(c) \/ LoseLease(c)

Next ==
  \/ \E a \in Assignments : Enqueue(a)
  \/ \E p \in Publishers, rows \in SUBSET Rows : ClaimOutbox(p, rows)
  \/ \E r \in Rows : Lapse(r)
  \/ \E c \in sending \cup acked \cup failed : PublisherStep(c)
  \/ \E m \in responses : Receive(m)
  \/ \E c \in waiting : Timeout(c)
  \/ \E p \in Publishers : Crash(p)
  \/ \E c \in requests : PublishConformanceSummary(c) \/ Unavailable(c)
  \/ Lose

(* The publishers keep polling and the delivery of a claimed message runs   *)
(* to its end; a lease and a request time out; Registry answers.  Faults    *)
(* are not fair: MaxFaults says that they end.                              *)
Fairness ==
  /\ WF_vars(\E p \in Publishers, rows \in SUBSET Rows : ClaimOutbox(p, rows))
  /\ WF_vars(\E c \in sending \cup acked \cup failed : PublisherStep(c))
  /\ WF_vars(\E m \in responses : Receive(m))
  /\ WF_vars(\E c \in waiting : Timeout(c))
  /\ WF_vars(\E r \in Rows : Lapse(r))
  /\ WF_vars(\E c \in requests : PublishConformanceSummary(c))

Spec == Init /\ [][Next]_vars
FairSpec == Spec /\ Fairness

-----------------------------------------------------------------------------
(* Properties                                                              *)

(* Registry never holds a cursor above one that is still to be delivered:   *)
(* it would refuse that one for ever, and with it, the row being the head   *)
(* of its line, every later summary of the assignment.  This is what the    *)
(* NOT EXISTS clause of ClaimOutbox, the exact acknowledgement and the      *)
(* lease fence protect, whatever is late, lost, or sent twice.              *)
RegistryIsNeverAhead ==
  \A r \in Rows : Undelivered(r) => accepted[r[1]] <= r[2]

(* A summary marked delivered is one that Registry has, or has a newer of:  *)
(* publish marks a row only after the acknowledgement of that very row.     *)
DeliveredIsProjected ==
  \A r \in delivered : accepted[r[1]] >= r[2]

(* Registry sees every summary of an assignment, one after the other: its   *)
(* cursor moves to the next row or not at all.  ClaimOutbox promises this   *)
(* ("publication remains ordered across batches and publisher replicas").   *)
ProjectionHasNoGaps ==
  [][\A a \in Assignments : accepted'[a] \in {accepted[a], accepted[a] + 1}]_vars

(* Every committed summary reaches Registry, across crashed publishers,     *)
(* expired leases and lost messages, as long as these come to an end.       *)
EverySummaryIsDelivered ==
  \A r \in Rows : Undelivered(r) ~> r \in delivered
=============================================================================
