------------------------ MODULE RegistryOutbox_proofs ------------------------
(***************************************************************************)
(* Ordered delivery, for any number of assignments, publishers, summaries  *)
(* and faults.                                                             *)
(***************************************************************************)
EXTENDS RegistryOutbox, TLAPS

InHand == sending \cup waiting \cup acked \cup failed

(* Every row before r has been delivered.                                   *)
LineIsClear(r) == \A n \in 1 .. r[2] - 1 : <<r[1], n>> \in delivered

(* The inductive invariant.  RegistryIsNeverAhead alone is not inductive:   *)
(* what keeps Registry from running ahead is that a claim, and a request    *)
(* that outlived its claim, exist only for a row whose line was clear.      *)
ClaimsAreClear == \A c \in InHand \cup requests : LineIsClear(c.row)
RegistryIsClear == \A r \in Rows : r[2] < accepted[r[1]] => r \in delivered
AnswersAreTrue == \A m \in responses : m.cursor <= accepted[m.claim.row[1]]
AcksAreTrue == \A c \in acked : c.row[2] <= accepted[c.row[1]]
DeliveryInv ==
  /\ ClaimsAreClear
  /\ RegistryIsClear
  /\ AnswersAreTrue
  /\ AcksAreTrue
  /\ DeliveredIsProjected

(* What an OutboxClaim is made of.                                          *)
LEMMA ClaimShape ==
  ASSUME NEW c \in OutboxClaims
  PROVE  /\ c.row \in Rows
         /\ c.worker \in Publishers
         /\ c.leaseGeneration \in Nat
         /\ c.row = <<c.row[1], c.row[2]>>
         /\ c.row[1] \in Assignments
         /\ c.row[2] \in 1 .. MaxCursor
BY DEF OutboxClaims, Rows

(* The steps of the store keep the types.                                   *)
LEMMA TypeStore ==
  ASSUME TypeOK,
         \/ \E a \in Assignments : Enqueue(a)
         \/ \E p \in Publishers, rows \in SUBSET Rows : ClaimOutbox(p, rows)
         \/ \E r \in Rows : Lapse(r)
  PROVE  TypeOK'
<1>1. ASSUME NEW a \in Assignments, Enqueue(a) PROVE TypeOK'
  BY <1>1, OutboxBoundsAssumption DEF TypeOK, Enqueue, publisherVars, networkVars
<1>2. ASSUME NEW p \in Publishers, NEW rows \in SUBSET Rows, ClaimOutbox(p, rows) PROVE TypeOK'
  <2>1. \A r \in Rows : leaseGeneration[r] \in Nat /\ leaseGeneration[r] + 1 \in Nat
    BY DEF TypeOK
  <2>2. leaseOwner' \in [Rows -> Publishers \cup {NoPublisher}]
    BY Zenon, <1>2 DEF TypeOK, ClaimOutbox
  <2>3. leaseGeneration' \in [Rows -> Nat]
    BY <1>2, <2>1 DEF ClaimOutbox
  <2>4. sending' \subseteq OutboxClaims
    BY <1>2, <2>1 DEF TypeOK, ClaimOutbox, OutboxClaims
  <2> QED
    BY Zenon, <1>2, <2>2, <2>3, <2>4 DEF TypeOK, ClaimOutbox, networkVars
<1>3. ASSUME NEW r \in Rows, Lapse(r) PROVE TypeOK'
  <2>1. faults' \in 0 .. MaxFaults
    BY <1>3, OutboxBoundsAssumption DEF TypeOK, Lapse
  <2> QED
    BY Zenon, <1>3, <2>1 DEF TypeOK, Lapse, publisherVars, networkVars
<1> QED
  BY Zenon, <1>1, <1>2, <1>3

(* The steps of the publishers keep the types.                              *)
LEMMA TypePublisher ==
  ASSUME TypeOK,
         \/ \E c \in sending \cup acked \cup failed : PublisherStep(c)
         \/ \E m \in responses : Receive(m)
         \/ \E c \in waiting : Timeout(c)
         \/ \E p \in Publishers : Crash(p)
  PROVE  TypeOK'
<1>1. ASSUME NEW c \in sending \cup acked \cup failed, PublisherStep(c) PROVE TypeOK'
  <2>1. c \in OutboxClaims /\ c.row \in Rows
    BY Zenon, ClaimShape DEF TypeOK
  <2>2. CASE Send(c)
    BY Zenon, <2>1, <2>2 DEF TypeOK, Send, storeVars
  <2>3. CASE MarkOutboxDelivered(c)
    BY Zenon, <2>1, <2>3 DEF TypeOK, MarkOutboxDelivered, ReleaseLease, networkVars
  <2>4. CASE RetryOutbox(c)
    BY Zenon, <2>1, <2>4 DEF TypeOK, RetryOutbox, ReleaseLease, networkVars
  <2>5. CASE LoseLease(c)
    BY Zenon, <2>1, <2>5 DEF TypeOK, LoseLease, storeVars, networkVars
  <2> QED
    BY Zenon, <1>1, <2>2, <2>3, <2>4, <2>5 DEF PublisherStep
<1>2. ASSUME NEW m \in responses, Receive(m) PROVE TypeOK'
  BY Zenon, <1>2 DEF TypeOK, Receive, storeVars
<1>3. ASSUME NEW c \in waiting, Timeout(c) PROVE TypeOK'
  <2>1. faults' \in 0 .. MaxFaults
    BY <1>3, OutboxBoundsAssumption DEF TypeOK, Timeout
  <2> QED
    BY Zenon, <1>3, <2>1 DEF TypeOK, Timeout, storeVars, networkVars
<1>4. ASSUME NEW p \in Publishers, Crash(p) PROVE TypeOK'
  BY <1>4, OutboxBoundsAssumption DEF TypeOK, Crash, storeVars, networkVars
<1> QED
  BY Zenon, <1>1, <1>2, <1>3, <1>4

(* The steps of Registry and of the network keep the types.                 *)
LEMMA TypeNetwork ==
  ASSUME TypeOK,
         \/ \E c \in requests : PublishConformanceSummary(c) \/ Unavailable(c)
         \/ Lose
  PROVE  TypeOK'
<1>1. ASSUME NEW c \in requests, PublishConformanceSummary(c) \/ Unavailable(c) PROVE TypeOK'
  <2>1. c \in OutboxClaims /\ c.row[1] \in Assignments /\ c.row[2] \in 1 .. MaxCursor
    BY Zenon, ClaimShape DEF TypeOK
  <2>2. c.row[2] \in 0 .. MaxCursor /\ 0 \in 0 .. MaxCursor
    BY <2>1, OutboxBoundsAssumption
  <2>3. accepted[c.row[1]] \in 0 .. MaxCursor
    BY Zenon, <2>1 DEF TypeOK
  <2>4. accepted' \in [Assignments -> 0 .. MaxCursor]
    BY Zenon, <1>1, <2>2 DEF TypeOK, PublishConformanceSummary, Unavailable
  <2>5. /\ responses' \subseteq [claim : OutboxClaims, cursor : 0 .. MaxCursor]
        /\ requests' \subseteq requests
        /\ UNCHANGED <<storeVars, publisherVars>>
    BY <1>1, <2>1, <2>2, <2>3 DEF TypeOK, PublishConformanceSummary, Unavailable, Respond
  <2>6. faults' \in 0 .. MaxFaults
    BY <1>1, OutboxBoundsAssumption DEF TypeOK, PublishConformanceSummary, Unavailable
  <2> QED
    BY Zenon, <2>4, <2>5, <2>6 DEF TypeOK, storeVars, publisherVars
<1>2. CASE Lose
  BY <1>2, OutboxBoundsAssumption DEF TypeOK, Lose, storeVars, publisherVars
<1> QED
  BY Zenon, <1>1, <1>2

(* Every state has the types of the schema and of the claims: TypeOK.       *)
THEOREM OutboxTypeCorrect == Spec => []TypeOK
<1>1. Init => TypeOK
  BY OutboxBoundsAssumption DEF Init, TypeOK
<1>2. TypeOK /\ [Next]_vars => TypeOK'
  <2> SUFFICES ASSUME TypeOK, [Next]_vars PROVE TypeOK'
    BY Zenon
  <2>1. CASE Next
    BY Zenon, <2>1, TypeStore, TypePublisher, TypeNetwork DEF Next
  <2>2. CASE UNCHANGED vars
    BY Zenon, <2>2 DEF TypeOK, vars, storeVars, publisherVars, networkVars
  <2> QED
    BY Zenon, <2>1, <2>2
<1> QED
  BY <1>1, <1>2, PTL DEF Spec

-----------------------------------------------------------------------------

(* No claim, request or answer appears, delivered only grows, and Registry  *)
(* is left alone: the invariant is kept.                                    *)
LEMMA DeliveryKept ==
  ASSUME TypeOK, DeliveryInv,
         InHand' \cup requests' \subseteq InHand \cup requests,
         acked' \subseteq acked, responses' \subseteq responses,
         delivered' = delivered, accepted' = accepted
  PROVE  DeliveryInv'
<1>1. ClaimsAreClear'
  BY Zenon DEF DeliveryInv, ClaimsAreClear, LineIsClear
<1>2. RegistryIsClear' /\ DeliveredIsProjected'
  BY Zenon DEF DeliveryInv, RegistryIsClear, DeliveredIsProjected
<1>3. AnswersAreTrue' /\ AcksAreTrue'
  BY Zenon DEF DeliveryInv, AnswersAreTrue, AcksAreTrue
<1> QED
  BY Zenon, <1>1, <1>2, <1>3 DEF DeliveryInv

(* The NOT EXISTS clause: ClaimOutbox hands out rows with a clear line.     *)
LEMMA DeliveryClaim ==
  ASSUME TypeOK, DeliveryInv,
         NEW p \in Publishers, NEW rows \in SUBSET Rows, ClaimOutbox(p, rows)
  PROVE  DeliveryInv'
<1>1. UNCHANGED <<delivered, waiting, acked, failed, requests, responses, accepted, enqueued>>
  BY Zenon DEF ClaimOutbox, networkVars
<1>2. ASSUME NEW r \in rows PROVE LineIsClear(r)
  <2>1. r[2] \in 1 .. MaxCursor /\ r[1] \in Assignments /\ enqueued[r[1]] \in Nat
    BY OutboxBoundsAssumption DEF Rows, TypeOK
  <2>2. r[2] <= enqueued[r[1]] /\ HeadOfLine(r)
    BY Zenon DEF ClaimOutbox, Undelivered
  <2>3. ASSUME NEW n \in 1 .. r[2] - 1 PROVE <<r[1], n>> \in delivered
    <3>1. n <= enqueued[r[1]]
      BY <2>1, <2>2, OutboxBoundsAssumption
    <3> QED
      BY Zenon, <2>2, <3>1 DEF HeadOfLine, Undelivered
  <2> QED
    BY Zenon, <2>3 DEF LineIsClear
<1>3. \A c \in sending' : c \in sending \/ c.row \in rows
  BY DEF ClaimOutbox
<1>4. ClaimsAreClear'
  BY Zenon, <1>1, <1>2, <1>3 DEF DeliveryInv, ClaimsAreClear, LineIsClear, InHand
<1>5. RegistryIsClear' /\ DeliveredIsProjected' /\ AnswersAreTrue' /\ AcksAreTrue'
  BY Zenon, <1>1 DEF DeliveryInv, RegistryIsClear, DeliveredIsProjected, AnswersAreTrue, AcksAreTrue
<1> QED
  BY Zenon, <1>4, <1>5 DEF DeliveryInv

(* An exact acknowledgement says that Registry has the summary.             *)
LEMMA DeliveryReceive ==
  ASSUME TypeOK, DeliveryInv, NEW m \in responses, Receive(m)
  PROVE  DeliveryInv'
<1>1. /\ InHand' \cup requests' \subseteq InHand \cup requests
      /\ responses' \subseteq responses
      /\ UNCHANGED <<delivered, accepted>>
  BY DEF Receive, InHand, storeVars
<1>2. ClaimsAreClear' /\ RegistryIsClear' /\ DeliveredIsProjected' /\ AnswersAreTrue'
  BY Zenon, <1>1 DEF DeliveryInv, ClaimsAreClear, LineIsClear, RegistryIsClear, DeliveredIsProjected,
    AnswersAreTrue
<1>3. AcksAreTrue'
  <2>1. ASSUME NEW c \in acked' PROVE c.row[2] <= accepted[c.row[1]]
    <3>1. CASE c \in acked
      BY Zenon, <3>1 DEF DeliveryInv, AcksAreTrue
    <3>2. CASE c \notin acked
      <4>1. c = m.claim /\ m.cursor = c.row[2]
        BY Zenon, <3>2 DEF Receive, validateAcknowledgement
      <4> QED
        BY Zenon, <4>1 DEF DeliveryInv, AnswersAreTrue
    <3> QED
      BY Zenon, <3>1, <3>2
  <2> QED
    BY Zenon, <1>1, <2>1 DEF AcksAreTrue
<1> QED
  BY Zenon, <1>2, <1>3 DEF DeliveryInv

(* A row is marked only when Registry has it, so marking keeps the order.   *)
LEMMA DeliveryMark ==
  ASSUME TypeOK, DeliveryInv, NEW c \in acked, MarkOutboxDelivered(c)
  PROVE  DeliveryInv'
<1>1. /\ InHand' \subseteq InHand
      /\ acked' \subseteq acked
      /\ UNCHANGED <<requests, responses, accepted>>
      /\ delivered' = delivered \/ delivered' = delivered \cup {c.row}
  BY Zenon DEF MarkOutboxDelivered, InHand, networkVars
<1>2. DeliveredIsProjected'
  <2>1. c.row[2] <= accepted[c.row[1]]
    BY Zenon DEF DeliveryInv, AcksAreTrue
  <2>2. \A r \in Rows : accepted[r[1]] \in Int /\ r[2] \in Int
    BY OutboxBoundsAssumption DEF Rows, TypeOK
  <2>3. c.row \in Rows
    BY Zenon, ClaimShape DEF TypeOK
  <2>4. accepted[c.row[1]] >= c.row[2]
    BY Zenon, <2>1, <2>2, <2>3
  <2> QED
    BY Zenon, <1>1, <2>4 DEF DeliveryInv, DeliveredIsProjected
<1>3. ClaimsAreClear' /\ RegistryIsClear'
  BY Zenon, <1>1 DEF DeliveryInv, ClaimsAreClear, LineIsClear, RegistryIsClear
<1>4. AnswersAreTrue' /\ AcksAreTrue'
  BY Zenon, <1>1 DEF DeliveryInv, AnswersAreTrue, AcksAreTrue
<1> QED
  BY Zenon, <1>2, <1>3, <1>4 DEF DeliveryInv

(* The request Registry accepts, however late, is for the row it has or for *)
(* the next one.                                                            *)
LEMMA AcceptedIsNext ==
  ASSUME TypeOK, DeliveryInv, NEW c \in requests, c.row[2] >= accepted[c.row[1]]
  PROVE  c.row[2] \in {accepted[c.row[1]], accepted[c.row[1]] + 1}
<1> DEFINE a == c.row[1]
           n == c.row[2]
<1>1. a \in Assignments /\ n \in 1 .. MaxCursor /\ accepted[a] \in 0 .. MaxCursor
  BY Zenon, ClaimShape DEF TypeOK
<1>2. n \in Nat /\ accepted[a] \in Nat /\ n >= 1 /\ n <= MaxCursor /\ MaxCursor \in Nat
  BY <1>1, OutboxBoundsAssumption
<1>3. CASE n = 1
  BY <1>2, <1>3
<1>4. CASE n > 1
  <2>1. n - 1 \in 1 .. n - 1
    BY <1>2, <1>4
  <2>2. <<a, n - 1>> \in delivered
    BY Zenon, <2>1 DEF DeliveryInv, ClaimsAreClear, LineIsClear
  <2>3. accepted[a] >= n - 1
    BY Zenon, <2>2 DEF DeliveryInv, DeliveredIsProjected
  <2> QED
    BY <1>2, <2>3
<1> QED
  BY <1>2, <1>3, <1>4

(* Registry accepts a summary, or refuses one.                              *)
LEMMA DeliveryPublish ==
  ASSUME TypeOK, DeliveryInv, NEW c \in requests,
         PublishConformanceSummary(c) \/ Unavailable(c)
  PROVE  DeliveryInv'
<1> DEFINE a == c.row[1]
           n == c.row[2]
<1>1. a \in Assignments /\ n \in 1 .. MaxCursor /\ accepted[a] \in 0 .. MaxCursor
  BY Zenon, ClaimShape DEF TypeOK
<1>2. n \in Nat /\ accepted[a] \in Nat /\ n >= 1 /\ MaxCursor \in Nat
  BY <1>1, OutboxBoundsAssumption
<1>3. /\ UNCHANGED <<delivered, sending, waiting, acked, failed>>
      /\ requests' \subseteq requests
  BY Zenon DEF PublishConformanceSummary, Unavailable, Respond, storeVars, publisherVars
<1>4. \A b \in Assignments : accepted[b] \in Nat /\ accepted'[b] \in Nat /\ accepted[b] <= accepted'[b]
  BY <1>1, <1>2 DEF TypeOK, PublishConformanceSummary, Unavailable
<1>5. ClaimsAreClear'
  BY Zenon, <1>3 DEF DeliveryInv, ClaimsAreClear, LineIsClear, InHand
<1>6. RegistryIsClear'
  <2> SUFFICES ASSUME NEW r \in Rows, r[2] < accepted'[r[1]] PROVE r \in delivered
    BY Zenon, <1>3 DEF RegistryIsClear
  <2>1. CASE r[2] < accepted[r[1]]
    BY Zenon, <2>1 DEF DeliveryInv, RegistryIsClear
  <2>2. CASE ~(r[2] < accepted[r[1]])
    <3>1. r[1] \in Assignments /\ r[2] \in 1 .. MaxCursor /\ r = <<r[1], r[2]>>
      BY DEF Rows
    <3>2. accepted'[r[1]] # accepted[r[1]]
      BY Zenon, <2>2
    <3>3. r[1] = a /\ accepted'[a] = n
      BY Zenon, <1>1, <3>1, <3>2 DEF TypeOK, PublishConformanceSummary, Unavailable
    <3>4. r[2] \in 1 .. n - 1
      BY <1>2, <3>1, <3>3
    <3> QED
      BY Zenon, <3>1, <3>3, <3>4 DEF DeliveryInv, ClaimsAreClear, LineIsClear
  <2> QED
    BY Zenon, <2>1, <2>2
<1>7. DeliveredIsProjected'
  <2>1. \A r \in Rows : r[1] \in Assignments /\ r[2] \in Nat
    BY OutboxBoundsAssumption DEF Rows
  <2>2. \A r \in delivered : accepted'[r[1]] >= r[2]
    BY <1>4, <2>1 DEF DeliveryInv, DeliveredIsProjected, TypeOK
  <2> QED
    BY Zenon, <1>3, <2>2 DEF DeliveredIsProjected
<1>8. AcksAreTrue'
  <2>1. \A k \in acked : k.row[1] \in Assignments /\ k.row[2] \in Nat
    BY ClaimShape, OutboxBoundsAssumption DEF TypeOK
  <2>2. \A k \in acked : k.row[2] <= accepted'[k.row[1]]
    BY <1>4, <2>1 DEF DeliveryInv, AcksAreTrue
  <2> QED
    BY Zenon, <1>3, <2>2 DEF AcksAreTrue
<1>9. AnswersAreTrue'
  <2> SUFFICES ASSUME NEW m \in responses' PROVE m.cursor <= accepted'[m.claim.row[1]]
    BY Zenon DEF AnswersAreTrue
  <2>1. CASE m \in responses
    <3>1. m.claim.row[1] \in Assignments /\ m.cursor \in Nat
      BY <2>1, ClaimShape, OutboxBoundsAssumption DEF TypeOK
    <3> QED
      BY <2>1, <1>4, <3>1 DEF DeliveryInv, AnswersAreTrue
  <2>2. CASE m \notin responses
    <3>1. /\ m.claim = c
          /\ m.cursor = 0 \/ m.cursor = accepted[a] \/ (m.cursor = n /\ accepted'[a] = n)
      BY <2>2, <1>1 DEF PublishConformanceSummary, Unavailable, Respond, TypeOK
    <3> QED
      BY <3>1, <1>1, <1>2, <1>4
  <2> QED
    BY Zenon, <2>1, <2>2
<1> QED
  BY Zenon, <1>5, <1>6, <1>7, <1>8, <1>9 DEF DeliveryInv

(* Every step keeps the invariant.                                          *)
LEMMA DeliveryNext ==
  ASSUME TypeOK, DeliveryInv, [Next]_vars
  PROVE  DeliveryInv'
<1>1. ASSUME NEW b \in Assignments, Enqueue(b) PROVE DeliveryInv'
  BY Zenon, <1>1, DeliveryKept DEF Enqueue, publisherVars, networkVars, InHand
<1>2. ASSUME NEW r \in Rows, Lapse(r) PROVE DeliveryInv'
  BY Zenon, <1>2, DeliveryKept DEF Lapse, publisherVars, networkVars, InHand
<1>3. ASSUME NEW c \in sending \cup acked \cup failed, PublisherStep(c) PROVE DeliveryInv'
  <2>1. CASE Send(c)
    BY Zenon, <2>1, DeliveryKept DEF Send, storeVars, InHand
  <2>2. CASE MarkOutboxDelivered(c)
    BY Zenon, <2>2, DeliveryMark DEF MarkOutboxDelivered
  <2>3. CASE RetryOutbox(c)
    BY Zenon, <2>3, DeliveryKept DEF RetryOutbox, networkVars, InHand
  <2>4. CASE LoseLease(c)
    BY Zenon, <2>4, DeliveryKept DEF LoseLease, storeVars, networkVars, InHand
  <2> QED
    BY Zenon, <1>3, <2>1, <2>2, <2>3, <2>4 DEF PublisherStep
<1>4. ASSUME NEW c \in waiting, Timeout(c) PROVE DeliveryInv'
  BY Zenon, <1>4, DeliveryKept DEF Timeout, storeVars, networkVars, InHand
<1>5. ASSUME NEW p \in Publishers, Crash(p) PROVE DeliveryInv'
  BY Zenon, <1>5, DeliveryKept DEF Crash, storeVars, networkVars, InHand
<1>6. CASE Lose
  BY Zenon, <1>6, DeliveryKept DEF Lose, storeVars, publisherVars, InHand
<1>7. CASE UNCHANGED vars
  BY Zenon, <1>7, DeliveryKept DEF vars, storeVars, publisherVars, networkVars, InHand
<1> QED
  BY Zenon, <1>1, <1>2, <1>3, <1>4, <1>5, <1>6, <1>7, DeliveryClaim, DeliveryReceive, DeliveryPublish
    DEF Next

(* The inductive invariant holds in every state.                            *)
THEOREM DeliveryCorrect == Spec => [](TypeOK /\ DeliveryInv)
<1>1. Init => DeliveryInv
  <2> SUFFICES ASSUME Init PROVE DeliveryInv
    BY Zenon
  <2>1. ClaimsAreClear /\ AnswersAreTrue /\ AcksAreTrue /\ DeliveredIsProjected
    BY Zenon DEF Init, ClaimsAreClear, InHand, AnswersAreTrue, AcksAreTrue, DeliveredIsProjected
  <2>2. RegistryIsClear
    BY OutboxBoundsAssumption DEF Init, RegistryIsClear, Rows
  <2> QED
    BY Zenon, <2>1, <2>2 DEF DeliveryInv
<1>2. TypeOK /\ DeliveryInv /\ [Next]_vars => DeliveryInv'
  BY Zenon, DeliveryNext
<1> QED
  BY <1>1, <1>2, OutboxTypeCorrect, PTL DEF Spec

(* Registry never runs ahead of a summary that is still to be delivered     *)
(* (ClaimOutbox's head-of-line clause), so no row is refused for ever.      *)
THEOREM RegistryIsNeverAheadCorrect == Spec => []RegistryIsNeverAhead
<1>1. TypeOK /\ DeliveryInv => RegistryIsNeverAhead
  <2> SUFFICES ASSUME TypeOK, DeliveryInv, NEW r \in Rows, Undelivered(r)
               PROVE  accepted[r[1]] <= r[2]
    BY Zenon DEF RegistryIsNeverAhead
  <2>1. accepted[r[1]] \in Int /\ r[2] \in Int
    BY OutboxBoundsAssumption DEF Rows, TypeOK
  <2>2. ~(r[2] < accepted[r[1]])
    BY Zenon DEF DeliveryInv, RegistryIsClear, Undelivered
  <2> QED
    BY <2>1, <2>2
<1> QED
  BY <1>1, DeliveryCorrect, PTL

(* A row marked by MarkOutboxDelivered is one Registry has.                 *)
THEOREM DeliveredIsProjectedCorrect == Spec => []DeliveredIsProjected
<1>1. DeliveryInv => DeliveredIsProjected
  BY Zenon DEF DeliveryInv
<1> QED
  BY <1>1, DeliveryCorrect, PTL

(* Registry sees every summary, in order and without a gap.                 *)
THEOREM ProjectionHasNoGapsCorrect == Spec => ProjectionHasNoGaps
<1> DEFINE Step == \A a \in Assignments : accepted'[a] \in {accepted[a], accepted[a] + 1}
<1>1. ASSUME TypeOK, DeliveryInv, [Next]_vars PROVE [Step]_vars
  <2>1. ASSUME NEW c \in requests, PublishConformanceSummary(c) PROVE Step
    <3>1. c.row[1] \in Assignments
      BY Zenon, <1>1, ClaimShape DEF TypeOK
    <3> QED
      BY Zenon, <1>1, <2>1, <3>1, AcceptedIsNext DEF PublishConformanceSummary, TypeOK
  <2>2. CASE ~\E c \in requests : PublishConformanceSummary(c)
    <3>1. CASE Next
      <4>1. accepted' = accepted
        BY Zenon, <2>2, <3>1 DEF Next, Enqueue, ClaimOutbox, Lapse, PublisherStep, Send,
          MarkOutboxDelivered, RetryOutbox, LoseLease, Receive, Timeout, Crash, Unavailable, Lose,
          networkVars
      <4> QED
        BY Zenon, <4>1
    <3> QED
      BY Zenon, <1>1, <3>1
  <2> QED
    BY Zenon, <2>1, <2>2
<1> QED
  BY <1>1, DeliveryCorrect, PTL DEF Spec, ProjectionHasNoGaps
=============================================================================
