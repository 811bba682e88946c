------------------------ MODULE EvaluationWorker_proofs ------------------------
(***************************************************************************)
(* Proofs about EvaluationWorker, for any workers, clocks, telemetry and   *)
(* query limit: the canonical order, the windows, the inductive invariant  *)
(* and the steps that keep it, and what follows from it.                   *)
(***************************************************************************)
EXTENDS EvaluationWorker, WellFoundedInduction, SequenceTheorems, TLAPS

Windows == [from : Int, until : Int]

-----------------------------------------------------------------------------
(* The canonical order *)

IsPosition(x) == x.at \in Int /\ x.pos \in Nat

(* The canonical order of the worker is a strict weak order of event time   *)
(* and WAL position.                                                        *)
LEMMA BeforeOrder ==
  ASSUME NEW x, NEW y, NEW z, IsPosition(x), IsPosition(y), IsPosition(z)
  PROVE  /\ Before(x, y) /\ Before(y, z) => Before(x, z)
         /\ ~Before(y, x) /\ Before(y, z) => Before(x, z)
         /\ Before(x, y) /\ ~Before(z, y) => Before(x, z)
         /\ ~Before(y, x) /\ ~Before(z, y) => ~Before(z, x)
         /\ Before(x, y) => ~Before(y, x)
BY DEF IsPosition, Before

(* Every row of telemetry has a place in the canonical order.               *)
LEMMA FramesHavePositions ==
  ASSUME NEW f \in Frames
  PROVE  IsPosition(f)
BY RowsAssumption DEF IsPosition

(* So has every checkpoint.                                                 *)
LEMMA CursorsHavePositions ==
  ASSUME NEW k \in Cursors
  PROVE  IsPosition(k)
BY Zenon DEF IsPosition, Cursors

LessThan == {p \in Nat \X Nat : p[1] < p[2]}

(* The order of the numbers is well founded.                                *)
LEMMA LessThanWellFounded == IsWellFoundedOn(LessThan, Nat)
BY Zenon, NatLessThanWellFounded DEF OpToRel, LessThan

(* Of the rows of a frame one is the first.                                 *)
LEMMA FirstRow ==
  ASSUME NEW rows \in SUBSET Frames, NEW g \in rows
  PROVE  \E h \in Deduplicated(rows) : h.id = g.id
<1> DEFINE same == {r \in rows : r.id = g.id}
           positions == {r.pos : r \in same}
<1>1. positions \subseteq Nat /\ positions # {}
  BY RowsAssumption
<1>2. PICK p \in positions : \A q \in positions : ~(<<q, p>> \in LessThan)
  BY Zenon, <1>1, WFMin, LessThanWellFounded
<1>3. \A q \in positions : p <= q
  <2> SUFFICES ASSUME NEW q \in positions PROVE p <= q
    BY Zenon
  <2>1. q \in Nat /\ p \in Nat
    BY Zenon, <1>1
  <2>2. <<q, p>> \notin LessThan
    BY Zenon, <1>2
  <2> HIDE DEF positions
  <2> QED BY <2>1, <2>2 DEF LessThan
<1>4. PICK h \in same : h.pos = p
  BY Zenon, <1>2
<1>5. ASSUME NEW r \in rows, r.id = h.id PROVE ~Before(r, h)
  <2>1. r \in same /\ r.pos \in positions
    BY Zenon, <1>5
  <2>2. r.at = h.at
    BY Zenon, <1>5, RowsAssumption
  <2> QED BY <2>1, <2>2, <1>3, <1>4, RowsAssumption DEF Before
<1> QED BY Zenon, <1>4, <1>5 DEF Deduplicated

-----------------------------------------------------------------------------
(* Windows *)

InQueries(qs, t) == \E i \in 1 .. Len(qs) : qs[i].from <= t /\ t < qs[i].until

(* The next query of a split read, and the queries after it.                *)
LEMMA HeadAndTail ==
  ASSUME NEW qs \in Seq(Windows), qs # <<>>
  PROVE  /\ Head(qs) \in Windows /\ Tail(qs) \in Seq(Windows)
         /\ Head(qs) = qs[1] /\ Len(qs) \in Nat \ {0}
         /\ Len(Tail(qs)) = Len(qs) - 1
         /\ \A i \in 1 .. Len(qs) - 1 : Tail(qs)[i] = qs[i + 1]
BY HeadTailProperties, LenProperties, ElementOfSeq

(* A stack with a query in it is not empty.                                 *)
LEMMA NotEmpty ==
  ASSUME NEW qs \in Seq(Windows), NEW i \in 1 .. Len(qs)
  PROVE  qs # <<>>
BY EmptySeq

(* A time the queries cover is in the next query or in one after it.        *)
LEMMA TailCovers ==
  ASSUME NEW qs \in Seq(Windows), qs # <<>>, NEW t \in Int, InQueries(qs, t)
  PROVE  \/ Head(qs).from <= t /\ t < Head(qs).until
         \/ Tail(qs) # <<>> /\ InQueries(Tail(qs), t)
<1>1. PICK i \in 1 .. Len(qs) : qs[i].from <= t /\ t < qs[i].until
  BY Zenon DEF InQueries
<1>2. CASE i = 1
  BY Zenon, <1>1, <1>2, HeadAndTail
<1>3. CASE i # 1
  <2>1. i - 1 \in 1 .. Len(qs) - 1 /\ (i - 1) + 1 = i
    BY <1>3, HeadAndTail
  <2>2. Tail(qs)[i - 1] = qs[i] /\ i - 1 \in 1 .. Len(Tail(qs))
    BY Zenon, <2>1, HeadAndTail
  <2>3. Tail(qs) # <<>>
    BY Zenon, <2>2, HeadAndTail, NotEmpty
  <2> QED BY Zenon, <1>1, <2>2, <2>3 DEF InQueries
<1> QED BY Zenon, <1>2, <1>3

(* Two windows put before the others, position by position.                 *)
LEMMA TwoBefore ==
  ASSUME NEW s \in Seq(Windows), NEW t \in Seq(Windows), Len(s) = 2
  PROVE  /\ s \o t \in Seq(Windows)
         /\ Len(s \o t) = 2 + Len(t)
         /\ \A i \in 1 .. 2 + Len(t) : (s \o t)[i] = IF i <= 2 THEN s[i] ELSE t[i - 2]
<1>1. /\ s \o t \in Seq(Windows)
      /\ Len(s \o t) = Len(s) + Len(t)
      /\ \A i \in 1 .. Len(s) + Len(t) :
           (s \o t)[i] = IF i <= Len(s) THEN s[i] ELSE t[i - Len(s)]
  BY ConcatProperties, Zenon
<1> QED BY Zenon, <1>1

(* The stack after readComplete replaced a saturated window by its halves.  *)
LEMMA SplitType ==
  ASSUME NEW qs \in Seq(Windows), qs # <<>>
  PROVE  LET split == Halves(Head(qs)) \o Tail(qs)
         IN  /\ split \in Seq(Windows) /\ split # <<>>
             /\ Len(split) = Len(qs) + 1
             /\ split[1] = Halves(Head(qs))[1] /\ split[2] = Halves(Head(qs))[2]
             /\ \A i \in 2 .. Len(qs) : split[i + 1] = qs[i]
<1> DEFINE q == Head(qs)
           halves == Halves(q)
<1>1. q.from \in Int /\ q.until \in Int /\ Middle(q) \in Int
  BY HeadAndTail DEF Windows, Middle
<1>2. halves \in Seq(Windows) /\ Len(halves) = 2
  BY <1>1 DEF Halves, Windows
<1>3. Tail(qs) \in Seq(Windows) /\ Len(Tail(qs)) = Len(qs) - 1 /\ Len(qs) \in Nat \ {0}
  BY Zenon, HeadAndTail
<1>4. /\ halves \o Tail(qs) \in Seq(Windows) 
      /\ Len(halves \o Tail(qs)) = Len(qs) + 1
      /\ \A i \in 1 .. Len(qs) + 1 :
           (halves \o Tail(qs))[i] = IF i <= 2 THEN halves[i] ELSE Tail(qs)[i - 2]
  <2> HIDE DEF halves
  <2>1. 2 + Len(Tail(qs)) = Len(qs) + 1
    BY <1>3
  <2> QED BY <1>2, <1>3, <2>1, TwoBefore, Zenon
<1>5. ASSUME NEW i \in 2 .. Len(qs) PROVE (halves \o Tail(qs))[i + 1] = qs[i]
  <2>1. i + 1 \in 1 .. Len(qs) + 1 /\ (i + 1 <= 2 => FALSE) /\ (i + 1) - 2 = i - 1
    BY <1>3
  <2>2. i - 1 \in 1 .. Len(qs) - 1 /\ (i - 1) + 1 = i
    BY <1>3
  <2> QED BY <1>4, <2>1, <2>2, HeadAndTail
<1> QED BY <1>3, <1>4, <1>5

(* Splitting a saturated window loses no time of it: the halves meet.       *)
LEMMA SplitCovers ==
  ASSUME NEW qs \in Seq(Windows), qs # <<>>, NEW t \in Int, InQueries(qs, t)
  PROVE  InQueries(Halves(Head(qs)) \o Tail(qs), t)
<1> DEFINE q == Head(qs)
           split == Halves(q) \o Tail(qs)
<1>1. q.from \in Int /\ q.until \in Int /\ Middle(q) \in Int
  BY HeadAndTail DEF Windows, Middle
<1>2. /\ split[1] = [from |-> q.from, until |-> Middle(q)]
      /\ split[2] = [from |-> Middle(q), until |-> q.until]
  BY Zenon, SplitType DEF Halves
<1>3. PICK i \in 1 .. Len(qs) : qs[i].from <= t /\ t < qs[i].until
  BY Zenon DEF InQueries
<1>4. CASE i = 1
  <2>0. q.from <= t /\ t < q.until
    BY Zenon, <1>3, <1>4, HeadAndTail
  <2> HIDE DEF q, split
  <2>1. \/ split[1].from <= t /\ t < split[1].until
        \/ split[2].from <= t /\ t < split[2].until
    BY <1>1, <1>2, <2>0
  <2> USE DEF q, split
  <2> QED BY <2>1, SplitType, HeadAndTail DEF InQueries
<1>5. CASE i # 1
  <2>1. i \in 2 .. Len(qs) /\ split[i + 1] = qs[i] /\ i + 1 \in 1 .. Len(split)
    BY <1>5, SplitType, HeadAndTail
  <2> QED BY Zenon, <1>3, <2>1 DEF InQueries
<1> QED BY Zenon, <1>4, <1>5

-----------------------------------------------------------------------------
(* Types *)

(* The configured durations and the bounds are natural numbers.             *)
LEMMA Durations ==
  /\ LeaseDuration \in Nat /\ SettleDelay \in Nat /\ OverlapWindow \in Nat
  /\ VisibilityDelay \in Nat /\ MaxTime \in Nat /\ MaxFaults \in Nat
BY Zenon, ClocksAssumption

(* A worker between claims, or stopped, has a well-formed job.              *)
LEMMA IdleType == Idle \in Jobs /\ Stopped \in Jobs
<1>1. <<>> \in Seq(Windows)
  BY Zenon, EmptySeq
<1>2. NoCursor \in Cursors /\ NoTime \in Int
  BY DEF NoCursor, NoTime, Cursors
<1> QED BY Zenon, <1>1, <1>2 DEF Idle, Stopped, Jobs, Steps, Windows

(* So has a worker that is about to defer its claim.                        *)
LEMMA DeferredType ==
  ASSUME TypeOK, NEW w \in Workers, NEW clock \in Int
  PROVE  Deferred(w, clock) \in Jobs
<1>1. Idle \in Jobs /\ job[w] \in Jobs
  BY Zenon, IdleType DEF TypeOK
<1> QED BY Zenon, <1>1 DEF Deferred, Jobs, Steps

(* A worker that has not polled yet is well formed.                         *)
LEMMA TypeInit == Init => TypeOK
<1> SUFFICES ASSUME Init PROVE TypeOK
  BY Zenon
<1>1. job \in [Workers -> Jobs]
  BY Zenon, IdleType DEF Init
<1> QED BY <1>1, ClocksAssumption DEF Init, TypeOK, NoTime

(* A step that leaves the job of a worker well formed.                      *)
LEMMA AdvanceType ==
  ASSUME TypeOK, NEW w \in Workers, NEW next \in Jobs, Advance(w, next)
  PROVE  job' \in [Workers -> Jobs]
BY Zenon DEF TypeOK, Advance

(* A worker's clock, its next tick and the end of its window are times,     *)
(* also when its clock is behind.                                           *)
LEMMA ClockType ==
  ASSUME TypeOK, NEW w \in Workers
  PROVE  now \in Nat /\ Clock(w) \in Int /\ NextTick(w) \in Int /\ WindowEnd(w) \in Int
<1>1. now \in Nat /\ Skew[w] \in Int /\ Phase[w] \in Int /\ SettleDelay \in Int
  BY ClocksAssumption DEF TypeOK
<1>2. job[w].until \in Int
  BY Zenon DEF TypeOK, Jobs
<1>3. (now - Phase[w]) % PollInterval \in Int
  BY <1>1, ClocksAssumption
<1> QED BY <1>1, <1>2, <1>3, ClocksAssumption DEF Clock, NextTick, WindowEnd, Least

(* The window of a claim starts at a time, with a checkpoint and without.   *)
LEMMA WindowStartType ==
  ASSUME NEW base \in Cursors
  PROVE  WindowStart(base) \in Int
BY ClocksAssumption DEF WindowStart, Greatest, Cursors

(* The job after the last query of a window is well formed.                 *)
LEMMA ReadDoneType ==
  ASSUME TypeOK, NEW w \in Workers, NEW rows \in SUBSET Frames
  PROVE  ReadDone(w, rows) \in Jobs
<1>1. evaluableSuffix(w, Deduplicated(rows)) \in SUBSET Frames
  BY Zenon DEF evaluableSuffix, Deduplicated
<1>2. job[w] \in Jobs /\ job[w].clock \in Int /\ <<>> \in Seq(Windows)
  BY Zenon, EmptySeq DEF TypeOK, Jobs
<1> QED BY Zenon, <1>1, <1>2, DeferredType DEF ReadDone, Jobs, Steps, Windows

(* The jobs after any query of a window are well formed.                    *)
LEMMA ReadPositionsType ==
  ASSUME TypeOK, NEW w \in Workers, ReadPositions(w), job[w].queries # <<>>
  PROVE  job' \in [Workers -> Jobs]
<1>1. job[w] \in Jobs /\ job[w].clock \in Int /\ job[w].queries \in Seq(Windows) /\ visible \subseteq Frames
  BY Zenon DEF TypeOK, Jobs, Windows
<1> DEFINE qs == job[w].queries
           q == Head(qs)
           rest == Tail(qs)
           rows == queryChunk(q)
           read == job[w].batch \cup rows
<1>2. Halves(q) \o rest \in Seq(Windows) /\ rest \in Seq(Windows)
  BY Zenon, <1>1, SplitType, HeadAndTail
<1>3. read \in SUBSET Frames
  BY Zenon, <1>1 DEF queryChunk, Jobs
<1>4. /\ [job[w] EXCEPT !.queries = Halves(q) \o rest] \in Jobs
      /\ [job[w] EXCEPT !.queries = rest, !.batch = read] \in Jobs
  <2> HIDE DEF q, rest, read
  <2> QED BY Zenon, <1>1, <1>2, <1>3 DEF Jobs, Windows
<1>5. ReadDone(w, read) \in Jobs /\ Deferred(w, job[w].clock) \in Jobs /\ Stopped \in Jobs
  BY Zenon, <1>1, <1>3, ReadDoneType, DeferredType, IdleType
<1>6. \E next \in Jobs : Advance(w, next)
  BY Zenon, <1>4, <1>5 DEF ReadPositions
<1> QED BY Zenon, <1>6, AdvanceType

(* Every step keeps the types, as long as a worker that reads has a query   *)
(* to make.                                                                 *)
LEMMA TypeStep ==
  ASSUME TypeOK, [Next]_vars,
         \A w \in Workers : job[w].step = "read" => job[w].queries # <<>>
  PROVE  TypeOK'
<1> USE DEF durable, rowVars
<1>0. \A w \in Workers : job[w] \in Jobs /\ job[w].clock \in Int /\ job[w].end \in Int /\ job[w].until \in Int
                         /\ job[w].revision \in Nat /\ job[w].lease \in Nat
  BY Zenon DEF TypeOK, Jobs
<1>1. ASSUME NEW w \in Workers, Poll(w) PROVE TypeOK'
  <2>1. tick' \in [Workers -> Int]
    BY Zenon, <1>1, ClockType DEF Poll, TypeOK
  <2>2. leaseUntil' \in Nat \cup {NoTime} /\ leaseGeneration' \in Nat /\ leaseOwner' \in Workers \cup {NoWorker}
    <3>1. now + LeaseDuration \in Nat /\ leaseGeneration \in Nat
      BY ClockType, Durations DEF TypeOK
    <3> QED BY <1>1, <3>1 DEF Poll, TypeOK
  <2>3. job' \in [Workers -> Jobs]
    <3>1. [Idle EXCEPT !.step = "claimed", !.revision = revision,
                       !.lease = leaseGeneration + 1, !.until = authorityUntil] \in Jobs
      <4>1. revision \in Nat /\ leaseGeneration + 1 \in Nat /\ authorityUntil \in Int
        BY DEF TypeOK
      <4> QED BY Zenon, <4>1, IdleType DEF Jobs, Steps
    <3> QED BY Zenon, <1>1, <3>1 DEF Poll, TypeOK
  <2> QED BY Zenon, <1>1, <2>1, <2>2, <2>3 DEF Poll, TypeOK
<1>2. ASSUME NEW w \in Workers, ChooseWindow(w) PROVE TypeOK'
  <2>1. [job[w] EXCEPT !.step = "checkpoint", !.clock = Clock(w), !.end = WindowEnd(w)] \in Jobs
    BY Zenon, <1>0, ClockType DEF Jobs, Steps
  <2>2. Deferred(w, Clock(w)) \in Jobs
    BY Zenon, ClockType, DeferredType
  <2>3. \E next \in Jobs : Advance(w, next)
    BY Zenon, <1>2, <2>1, <2>2 DEF ChooseWindow
  <2> QED BY Zenon, <1>2, <2>3, AdvanceType DEF ChooseWindow, TypeOK
<1>3. ASSUME NEW w \in Workers, RestoreCheckpoint(w) PROVE TypeOK'
  <2> DEFINE found == GetReplayCheckpoint(job[w].end)
             base == IF found = {} THEN NoCursor ELSE CHOOSE k \in found : TRUE
             queries == <<[from |-> WindowStart(base), until |-> job[w].end]>>
  <2>1. base \in Cursors
    BY DEF GetReplayCheckpoint, Newest, TypeOK, NoCursor, NoTime, Cursors
  <2>2. queries \in Seq(Windows)
    BY <1>0, <2>1, WindowStartType DEF Windows
  <2>3. [job[w] EXCEPT !.step = "read", !.base = base, !.queries = queries] \in Jobs
    <3> HIDE DEF base, queries
    <3> QED BY Zenon, <1>0, <2>1, <2>2 DEF Jobs, Steps, Windows
  <2>4. \E next \in Jobs : Advance(w, next)
    BY Zenon, <1>0, <1>3, <2>3, DeferredType DEF RestoreCheckpoint
  <2> QED BY Zenon, <1>3, <2>4, AdvanceType DEF RestoreCheckpoint, TypeOK
<1>4. ASSUME NEW w \in Workers, ReadPositions(w) PROVE TypeOK'
  <2>1. job' \in [Workers -> Jobs]
    BY Zenon, <1>4, ReadPositionsType DEF ReadPositions
  <2> QED BY Zenon, <1>0, <1>4, <2>1 DEF ReadPositions, TypeOK
<1>5. ASSUME NEW w \in Workers, CommitEvaluation(w) PROVE TypeOK'
  <2>1. job' \in [Workers -> Jobs]
    BY Zenon, <1>5, IdleType, AdvanceType DEF CommitEvaluation
  <2>2. job[w].batch \subseteq Frames
    BY Zenon, <1>0 DEF Jobs
  <2>3. PICK last \in Newest(job[w].batch) :
          IF Committable(w, last)
          THEN /\ revision' = revision + 1
               /\ checkpoints' = checkpoints \cup
                    {[revision |-> revision + 1, at |-> last.at, pos |-> last.pos]}
               /\ evaluated' = evaluated \cup
                    {[frame |-> f, revision |-> revision + 1] : f \in job[w].batch}
               /\ ReleaseLease(job[w].clock + PollInterval)
          ELSE UNCHANGED durable
    BY Zenon, <1>5 DEF CommitEvaluation
  <2>4. last \in Frames /\ last.at \in Int /\ last.pos \in Nat
    BY <2>2, RowsAssumption DEF Newest
  <2>5. checkpoints' \subseteq Cursors /\ evaluated' \subseteq [frame : Frames, revision : Nat] /\ revision' \in Nat
    BY <2>2, <2>3, <2>4 DEF TypeOK, Cursors
  <2>6. job[w].clock + PollInterval \in Int
    BY <1>0, ClocksAssumption
  <2>7. /\ leaseOwner' \in Workers \cup {NoWorker} /\ leaseUntil' \in Nat \cup {NoTime}
        /\ nextEvaluationAt' \in Int /\ UNCHANGED <<live, authorityUntil, leaseGeneration>>
    BY Zenon, <2>3, <2>6 DEF ReleaseLease, TypeOK
  <2> QED BY Zenon, <1>5, <2>1, <2>5, <2>7 DEF CommitEvaluation, TypeOK
<1>6. ASSUME NEW w \in Workers, DeferAssignmentEvaluation(w) PROVE TypeOK'
  <2>1. job' \in [Workers -> Jobs]
    BY Zenon, <1>6, IdleType, AdvanceType DEF DeferAssignmentEvaluation
  <2>2. job[w].clock + PollInterval \in Int
    BY <1>0, ClocksAssumption
  <2> QED BY Zenon, <1>6, <2>1, <2>2 DEF DeferAssignmentEvaluation, ReleaseLease, TypeOK
<1>7. ASSUME NEW w \in Workers, RenewAssignmentLease(w) PROVE TypeOK'
  <2>1. job' \in [Workers -> Jobs]
    BY Zenon, <1>7, IdleType DEF RenewAssignmentLease, TypeOK
  <2>2. now + LeaseDuration \in Nat
    BY ClockType, Durations
  <2>3. leaseUntil' \in Nat \cup {NoTime}
    BY Zenon, <1>7, <2>2 DEF RenewAssignmentLease, TypeOK
  <2> QED BY Zenon, <1>7, <2>1, <2>3 DEF RenewAssignmentLease, TypeOK
<1>8. ASSUME NEW w \in Workers, DependencyFails(w) PROVE TypeOK'
  BY <1>0, <1>8, DeferredType, AdvanceType, Durations DEF DependencyFails, TypeOK
<1>9. ASSUME NEW w \in Workers, Abandon(w) PROVE TypeOK'
  <2>1. job' \in [Workers -> Jobs]
    BY Zenon, <1>9, IdleType, AdvanceType DEF Abandon
  <2>2. tick' \in [Workers -> Int]
    BY <1>9, ClockType DEF Abandon, TypeOK
  <2> QED BY <1>9, <2>1, <2>2, Durations DEF Abandon, TypeOK
<1>10. ASSUME NEW at \in 0..MaxTime, Cutover(at) PROVE TypeOK'
  <2>1. at \in Int
    BY <1>10, Durations
  <2>2. live' \in BOOLEAN
    BY Zenon, <1>10 DEF Cutover
  <2> QED BY Zenon, <1>10, <2>1, <2>2 DEF Cutover, TypeOK
<1>11. CASE (\E f \in Frames : Ingest(f)) \/ Tick \/ UNCHANGED vars
  BY <1>11, Durations DEF Ingest, Tick, vars, TypeOK
<1> QED
  BY Zenon, <1>1, <1>2, <1>3, <1>4, <1>5, <1>6, <1>7, <1>8, <1>9, <1>10, <1>11 DEF Next, ProcessClaim

-----------------------------------------------------------------------------
(* The inductive invariant *)

Shown(f) == \E g \in visible : g.id = f.id

(* What was captured long enough ago is visible.                            *)
ClockInv == \A f \in Frames : f.kind = "own" /\ f.at + VisibilityDelay < now => Shown(f)

(* One checkpoint for every revision, in the canonical order.               *)
CheckpointInv ==
  /\ \A k \in checkpoints : 1 <= k.revision /\ k.revision <= revision
  /\ \A n \in 1 .. revision : \E k \in checkpoints : k.revision = n
  /\ \A k, l \in checkpoints : k.revision < l.revision => Before(k, l)
  /\ \A k, l \in checkpoints : k.revision = l.revision => k = l

(* A commit evaluates frames between the checkpoint before it and its own.  *)
EvidenceInv ==
  /\ \A e \in evaluated :
       /\ e.frame \in visible /\ e.frame.kind = "own"
       /\ AuthorityFrom <= e.frame.at /\ e.frame.at < authorityUntil
       /\ 1 <= e.revision /\ e.revision <= revision
       /\ \A k \in checkpoints : k.revision < e.revision <=> Before(k, e.frame)
  /\ \A a, b \in evaluated : a.frame.id = b.frame.id => a = b

(* The state in hand is that of the claimed revision.                       *)
Restored(w) ==
  IF job[w].revision = 0 THEN job[w].base = NoCursor
  ELSE job[w].base \in checkpoints /\ job[w].base.revision = job[w].revision

(* A row of the window is read or its query is still to come.               *)
Wanted(w, f) ==
  WindowStart(job[w].base) <= f.at /\ f.at < job[w].end =>
    f \in job[w].batch \/ InQueries(job[w].queries, f.at)

ClaimInv(w) ==
  /\ job[w].revision <= revision
  /\ job[w].step \in {"claimed", "checkpoint"} => job[w].batch = {}
  /\ job[w].step \in {"checkpoint", "read"} => job[w].end <= job[w].until
  /\ job[w].step = "checkpoint" /\ VisibleInTime =>
       \A f \in Frames : f.kind = "own" /\ f.at < job[w].end => Shown(f)

ReadInv(w) ==
  job[w].step = "read" =>
    /\ Restored(w)
    /\ job[w].queries # <<>>
    /\ \A i \in 1 .. Len(job[w].queries) : job[w].queries[i].until <= job[w].end
    /\ \A f \in job[w].batch : f \in visible /\ f.at < job[w].end
    /\ revision = job[w].revision => \A e \in evaluated : Wanted(w, e.frame)
    /\ VisibleInTime =>
         \A f \in Frames : f.kind = "own" /\ f.at < job[w].end =>
           \E g \in visible : g.id = f.id /\ Wanted(w, g)

CommitInv(w) ==
  job[w].step = "commit" =>
    /\ Restored(w)
    /\ \A f \in job[w].batch :
         /\ f \in visible /\ f.kind = "own"
         /\ AuthorityFrom <= f.at /\ f.at < job[w].end
         /\ job[w].base # NoCursor => Before(job[w].base, f)
    /\ \A f, g \in job[w].batch : f.id = g.id => f = g
    /\ revision = job[w].revision => \A f \in job[w].batch, e \in evaluated : e.frame.id # f.id
    /\ revision = job[w].revision /\ VisibleInTime =>
         \A f \in Frames : f.kind = "own" /\ AuthorityFrom <= f.at /\ f.at < job[w].end =>
           \/ \E g \in job[w].batch : g.id = f.id
           \/ \E e \in evaluated : e.frame.id = f.id

WorkerInv(w) == ClaimInv(w) /\ ReadInv(w) /\ CommitInv(w)

SharedInv == ClockInv /\ CheckpointInv /\ EvidenceInv /\ NothingIsSkipped

Inv == TypeOK /\ SharedInv /\ \A w \in Workers : WorkerInv(w)

(* The inductive invariant holds before the first poll.                     *)
LEMMA InvInit == Init => Inv
<1> SUFFICES ASSUME Init PROVE Inv
  BY Zenon
<1>1. TypeOK
  BY Zenon, TypeInit
<1>2. ClockInv
  BY RowsAssumption, Durations DEF Init, ClockInv
<1>3. CheckpointInv /\ EvidenceInv /\ NothingIsSkipped
  BY DEF Init, CheckpointInv, EvidenceInv, NothingIsSkipped
<1>4. ASSUME NEW w \in Workers PROVE WorkerInv(w)
  <2>1. job[w].step = "idle" /\ job[w].revision = 0 /\ revision = 0
    BY Zenon DEF Init, Idle
  <2> QED BY <2>1 DEF WorkerInv, ClaimInv, ReadInv, CommitInv
<1> QED BY Zenon, <1>1, <1>2, <1>3, <1>4 DEF Inv, SharedInv

-----------------------------------------------------------------------------
(* Steps that commit nothing *)

shared == <<checkpoints, evaluated, revision>>

(* A step that commits nothing and moves no boundary keeps what is said of  *)
(* the checkpoints and the evidence.                                        *)
LEMMA SharedUnmoved ==
  ASSUME Inv, UNCHANGED <<shared, authorityUntil>>, visible \subseteq visible', ClockInv'
  PROVE  SharedInv'
<1>2. CheckpointInv'
  BY Zenon DEF Inv, SharedInv, shared, CheckpointInv
<1>3. EvidenceInv'
  BY Zenon DEF Inv, SharedInv, shared, EvidenceInv
<1>4. NothingIsSkipped'
  BY Zenon DEF Inv, SharedInv, shared, NothingIsSkipped, VisibleInTime
<1> QED BY Zenon, <1>2, <1>3, <1>4 DEF SharedInv

(* A worker that does not move is not disturbed by telemetry that arrives.  *)
LEMMA WorkerUnmoved ==
  ASSUME Inv, NEW v \in Workers, job'[v] = job[v], UNCHANGED shared, visible \subseteq visible'
  PROVE  WorkerInv(v)'
<1>1. ClaimInv(v)'
  BY Zenon DEF Inv, WorkerInv, shared, ClaimInv, Shown, VisibleInTime
<1>2. Restored(v)' = Restored(v) /\ \A f : Wanted(v, f)' = Wanted(v, f)
  BY Zenon DEF shared, Restored, Wanted
<1>3. ReadInv(v)'
  BY Zenon, <1>2 DEF Inv, WorkerInv, shared, ReadInv, VisibleInTime
<1>4. CommitInv(v)'
  BY <1>2 DEF Inv, WorkerInv, shared, CommitInv, VisibleInTime
<1> QED BY Zenon, <1>1, <1>3, <1>4 DEF WorkerInv

(* A worker that holds no window, state or batch has nothing to answer for. *)
LEMMA NothingInHand ==
  ASSUME NEW v \in Workers, job'[v].revision <= revision',
         job'[v].step \notin {"checkpoint", "read", "commit"},
         job'[v].step = "claimed" => job'[v].batch = {}
  PROVE  WorkerInv(v)'
BY Zenon DEF WorkerInv, ClaimInv, ReadInv, CommitInv

(* A step of worker w that commits nothing.                                 *)
LEMMA OneWorkerMoves ==
  ASSUME Inv, NEW w \in Workers, UNCHANGED <<shared, now, authorityUntil, visible>>,
         \A v \in Workers \ {w} : job'[v] = job[v],
         WorkerInv(w)', TypeOK'
  PROVE  Inv'
<1>1. ASSUME NEW v \in Workers PROVE WorkerInv(v)'
  BY Zenon, WorkerUnmoved
<1>2. ClockInv'
  BY Zenon DEF Inv, SharedInv, ClockInv, Shown
<1> QED BY Zenon, <1>1, <1>2, SharedUnmoved DEF Inv

(* Letting a claim go leaves a revision that is not ahead of the row's.     *)
LEMMA IdleAndDeferred ==
  ASSUME TypeOK, NEW w \in Workers, WorkerInv(w), NEW clock
  PROVE  /\ Idle.step = "idle" /\ Stopped.step = "stopped" /\ Deferred(w, clock).step = "defer"
         /\ Idle.revision <= revision /\ Stopped.revision <= revision
         /\ Deferred(w, clock).revision <= revision
BY DEF Idle, Stopped, Deferred, WorkerInv, ClaimInv, TypeOK

(* A worker that claims, defers, fails or stops keeps the invariant.        *)
LEMMA LetGo ==
  ASSUME Inv, TypeOK', NEW w \in Workers, UNCHANGED <<shared, now, authorityUntil, visible>>,
         NEW clock,
         \/ job' = job
         \/ Advance(w, Idle) \/ Advance(w, Stopped) \/ Advance(w, Deferred(w, clock))
         \/ \E next : /\ Advance(w, next)
                      /\ next.step = "claimed" /\ next.revision = revision /\ next.batch = {}
  PROVE  Inv'
<1>1. \A v \in Workers \ {w} : job'[v] = job[v]
  BY Zenon DEF Advance, Inv, TypeOK
<1>2. CASE job' = job
  BY Zenon, <1>1, <1>2, WorkerUnmoved, OneWorkerMoves
<1>3. CASE job' # job
  <2>1. revision \in Nat /\ revision' = revision
    BY Zenon DEF Inv, TypeOK, shared
  <2>2. /\ job'[w].step \notin {"checkpoint", "read", "commit"}
        /\ job'[w].revision <= revision
        /\ job'[w].step = "claimed" => job'[w].batch = {}
    <3>1. CASE Advance(w, Idle) \/ Advance(w, Stopped) \/ Advance(w, Deferred(w, clock))
      BY Zenon, <3>1, IdleAndDeferred DEF Advance, Inv, TypeOK
    <3>2. CASE \E next : /\ Advance(w, next)
                         /\ next.step = "claimed" /\ next.revision = revision /\ next.batch = {}
      BY <2>1, <3>2 DEF Advance, Inv, TypeOK
    <3> QED BY Zenon, <1>3, <3>1, <3>2
  <2> QED BY Zenon, <1>1, <2>1, <2>2, NothingInHand, OneWorkerMoves
<1> QED BY Zenon, <1>2, <1>3

(* Choosing the window keeps the invariant: it ends where telemetry has     *)
(* settled and within the claimed authority.                                *)
LEMMA ChooseWindowKeeps ==
  ASSUME Inv, TypeOK', NEW w \in Workers, ChooseWindow(w)
  PROVE  Inv'
<1>1. CASE WindowEnd(w) > AuthorityFrom
  <2>1. /\ job'[w] = [job[w] EXCEPT !.step = "checkpoint", !.clock = Clock(w), !.end = WindowEnd(w)]
        /\ \A v \in Workers \ {w} : job'[v] = job[v]
    BY Zenon, <1>1 DEF ChooseWindow, Advance, Inv, TypeOK
  <2>2. UNCHANGED <<shared, now, authorityUntil, visible>>
    BY Zenon DEF ChooseWindow, durable, rowVars, shared
  <2>3. job[w] \in Jobs
    BY Zenon DEF Inv, TypeOK
  <2>4. /\ job'[w].step = "checkpoint" /\ job'[w].end = WindowEnd(w)
        /\ job'[w].until = job[w].until /\ job'[w].revision = job[w].revision
        /\ job'[w].batch = {}
    BY Zenon, <2>1, <2>3 DEF Jobs, ChooseWindow, Inv, WorkerInv, ClaimInv
  <2>5. WindowEnd(w) <= job[w].until /\ WindowEnd(w) <= now + Skew[w] - SettleDelay
    <3>1. job[w].until \in Int /\ Skew[w] \in Int /\ SettleDelay \in Int
      BY <2>3, ClocksAssumption, Durations DEF Jobs
    <3>2. now \in Int
      BY ClockType DEF Inv
    <3> QED BY <3>1, <3>2 DEF WindowEnd, Clock, Least
  <2>6. ASSUME VisibleInTime, NEW f \in Frames, f.kind = "own", f.at < WindowEnd(w)
        PROVE  Shown(f)
    <3>1. f.at + VisibilityDelay < now
      BY <2>5, <2>6, RowsAssumption, ClocksAssumption, Durations, ClockType DEF Inv, VisibleInTime
    <3> QED BY Zenon, <2>6, <3>1 DEF Inv, SharedInv, ClockInv
  <2>7. ClaimInv(w)'
    BY Zenon, <2>2, <2>4, <2>5, <2>6 DEF Inv, WorkerInv, ClaimInv, Shown, VisibleInTime, shared
  <2>8. WorkerInv(w)'
    BY Zenon, <2>4, <2>7 DEF WorkerInv, ReadInv, CommitInv
  <2> QED BY Zenon, <2>1, <2>2, <2>8, OneWorkerMoves
<1>2. CASE ~(WindowEnd(w) > AuthorityFrom)
  BY Zenon, <1>2, LetGo DEF ChooseWindow, durable, rowVars, shared
<1> QED BY Zenon, <1>1, <1>2

(* Restoring the checkpoint keeps the invariant: the state is that of the   *)
(* claimed revision or the claim is let go.                                 *)
LEMMA RestoreCheckpointKeeps ==
  ASSUME Inv, TypeOK', NEW w \in Workers, RestoreCheckpoint(w)
  PROVE  Inv'
<1> DEFINE found == GetReplayCheckpoint(job[w].end)
           base == IF found = {} THEN NoCursor ELSE CHOOSE k \in found : TRUE
           query == [from |-> WindowStart(base), until |-> job[w].end]
<1>0. UNCHANGED <<shared, now, authorityUntil, visible>>
  BY Zenon DEF RestoreCheckpoint, durable, rowVars, shared
<1>1. CASE Mismatch(w, found)
  BY Zenon, <1>0, <1>1, LetGo DEF RestoreCheckpoint
<1>2. CASE ~Mismatch(w, found)
  <2>1. /\ job'[w] = [job[w] EXCEPT !.step = "read", !.base = base, !.queries = <<query>>]
        /\ \A v \in Workers \ {w} : job'[v] = job[v]
    BY Zenon, <1>2 DEF RestoreCheckpoint, Advance, Inv, TypeOK
  <2>2. job[w] \in Jobs /\ job[w].revision \in Nat /\ job[w].step = "checkpoint"
    BY Zenon DEF Inv, TypeOK, Jobs, RestoreCheckpoint
  <2>3. IF job[w].revision = 0 THEN base = NoCursor
        ELSE base \in checkpoints /\ base.revision = job[w].revision
    <3>1. CASE job[w].revision = 0
      BY Zenon, <1>2, <3>1 DEF Mismatch
    <3>2. CASE job[w].revision # 0
      <4>1. {k.revision : k \in found} = {job[w].revision}
        BY <1>2, <2>2, <3>2 DEF Mismatch
      <4>2. base \in found
        BY Zenon, <4>1
      <4>3. found \subseteq checkpoints
        BY Zenon DEF GetReplayCheckpoint, Newest
      <4> HIDE DEF base, found
      <4> QED BY Zenon, <3>2, <4>1, <4>2, <4>3
    <3> QED BY Zenon, <3>1, <3>2
  <2> HIDE DEF base, found
  <2>4. /\ job'[w].step = "read" /\ job'[w].base = base /\ job'[w].queries = <<query>>
        /\ job'[w].revision = job[w].revision /\ job'[w].until = job[w].until
        /\ job'[w].end = job[w].end /\ job'[w].batch = {}
    BY Zenon, <2>1, <2>2 DEF Inv, WorkerInv, ClaimInv, Jobs
  <2>5. /\ <<query>> # <<>> /\ Len(<<query>>) = 1 /\ <<query>>[1] = query
    BY Zenon
  <2>6. \A f : Wanted(w, f)'
    BY <2>4, <2>5 DEF Wanted, InQueries
  <2>7. ClaimInv(w)'
    BY Zenon, <1>0, <2>2, <2>4 DEF Inv, WorkerInv, ClaimInv, shared
  <2>8. Restored(w)'
    BY Zenon, <1>0, <2>3, <2>4 DEF Restored, shared
  <2>9. ReadInv(w)'
    <3>1. \A i \in 1 .. Len(job'[w].queries) : job'[w].queries[i].until <= job'[w].end
      <4>1. job[w].end \in Int
        BY Zenon, <2>2 DEF Jobs
      <4> QED BY <2>4, <2>5, <4>1
    <3>2. VisibleInTime => \A f \in Frames : f.kind = "own" /\ f.at < job[w].end => Shown(f)
      BY Zenon, <2>2 DEF Inv, WorkerInv, ClaimInv
    <3>3. VisibleInTime' => \A f \in Frames : f.kind = "own" /\ f.at < job'[w].end =>
            \E g \in visible' : g.id = f.id /\ Wanted(w, g)'
      BY Zenon, <1>0, <2>4, <2>6, <3>2 DEF Shown, VisibleInTime
    <3> QED BY Zenon, <2>4, <2>5, <2>6, <2>8, <3>1, <3>3 DEF ReadInv
  <2>10. WorkerInv(w)'
    BY Zenon, <2>4, <2>7, <2>9 DEF WorkerInv, CommitInv
  <2> QED BY Zenon, <1>0, <2>1, <2>10, OneWorkerMoves
<1> QED BY Zenon, <1>1, <1>2

-----------------------------------------------------------------------------
(* Reading *)

(* Every query of the step leaves the visible rows of the window read or    *)
(* still to be queried.                                                     *)
LEMMA MoreToRead ==
  ASSUME Inv, TypeOK', NEW w \in Workers, job[w].step = "read",
         UNCHANGED <<shared, now, authorityUntil, visible>>,
         NEW queries \in Seq(Windows), NEW batch \in SUBSET Frames,
         Advance(w, [job[w] EXCEPT !.queries = queries, !.batch = batch]),
         queries # <<>>,
         \A i \in 1 .. Len(queries) : queries[i].until <= job[w].end,
         \A f \in batch : f \in visible /\ f.at < job[w].end,
         job[w].batch \subseteq batch,
         \A f \in visible : InQueries(job[w].queries, f.at) =>
           f \in batch \/ InQueries(queries, f.at)
  PROVE  Inv'
<1>1. /\ job'[w] = [job[w] EXCEPT !.queries = queries, !.batch = batch]
      /\ \A v \in Workers \ {w} : job'[v] = job[v]
  BY Zenon DEF Advance, Inv, TypeOK
<1>2. job[w] \in Jobs
  BY Zenon DEF Inv, TypeOK
<1>3. /\ job'[w].step = "read" /\ job'[w].base = job[w].base /\ job'[w].end = job[w].end
      /\ job'[w].revision = job[w].revision /\ job'[w].until = job[w].until
      /\ job'[w].queries = queries /\ job'[w].batch = batch
  BY Zenon, <1>1, <1>2 DEF Jobs
<1>4. ReadInv(w) /\ ClaimInv(w) /\ EvidenceInv
  BY Zenon DEF Inv, WorkerInv, SharedInv
<1>5. \A f \in visible : Wanted(w, f) => Wanted(w, f)'
  BY Zenon, <1>3 DEF Wanted
<1>6. ClaimInv(w)'
  BY Zenon, <1>3, <1>4 DEF ClaimInv, shared
<1>7. Restored(w)'
  BY Zenon, <1>3, <1>4 DEF ReadInv, Restored, shared
<1>8. revision' = job'[w].revision => \A e \in evaluated' : Wanted(w, e.frame)'
  BY Zenon, <1>3, <1>4, <1>5 DEF ReadInv, EvidenceInv, shared
<1>9. VisibleInTime' => \A f \in Frames : f.kind = "own" /\ f.at < job'[w].end =>
        \E g \in visible' : g.id = f.id /\ Wanted(w, g)'
  BY Zenon, <1>3, <1>4, <1>5 DEF ReadInv, VisibleInTime
<1>10. ReadInv(w)'
  BY Zenon, <1>3, <1>7, <1>8, <1>9 DEF ReadInv
<1>11. WorkerInv(w)'
  BY Zenon, <1>3, <1>6, <1>10 DEF WorkerInv, CommitInv
<1> QED BY Zenon, <1>1, <1>11, OneWorkerMoves

(* What the claimed revision restored is behind everything still to come.   *)
LEMMA BaseIsLast ==
  ASSUME Inv, NEW w \in Workers, Restored(w), revision = job[w].revision
  PROVE  /\ revision = 0 => checkpoints = {} /\ evaluated = {}
         /\ revision # 0 => job[w].base # NoCursor /\ job[w].base \in checkpoints
         /\ \A k \in checkpoints : k = job[w].base \/ Before(k, job[w].base)
         /\ \A e \in evaluated : ~Before(job[w].base, e.frame)
<1>1. revision \in Nat /\ checkpoints \subseteq Cursors /\ evaluated \subseteq [frame : Frames, revision : Nat]
  BY Zenon DEF Inv, TypeOK
<1>2. \A k \in checkpoints : k.revision \in Nat
  BY Zenon, <1>1 DEF Cursors
<1>3. CheckpointInv /\ EvidenceInv
  BY Zenon DEF Inv, SharedInv
<1>4. CASE revision = 0
  <2>1. checkpoints = {}
    BY <1>2, <1>3, <1>4 DEF CheckpointInv
  <2>2. evaluated = {}
    BY <1>1, <1>3, <1>4 DEF EvidenceInv
  <2> QED BY Zenon, <1>4, <2>1, <2>2
<1>5. CASE revision # 0
  <2>1. job[w].base \in checkpoints /\ job[w].base.revision = revision
    BY Zenon, <1>5 DEF Restored
  <2>2. job[w].base # NoCursor
    BY <1>5, <2>1 DEF NoCursor
  <2>3. ASSUME NEW k \in checkpoints PROVE k = job[w].base \/ Before(k, job[w].base)
    <3>1. k.revision <= revision
      BY Zenon, <1>3 DEF CheckpointInv
    <3>2. k.revision < revision \/ k.revision = revision
      BY <1>1, <1>2, <3>1
    <3> QED BY <1>3, <2>1, <3>2 DEF CheckpointInv
  <2>4. ASSUME NEW e \in evaluated PROVE ~Before(job[w].base, e.frame)
    <3>1. e.revision \in Nat /\ e.revision <= revision
      BY Zenon, <1>1, <1>3 DEF EvidenceInv
    <3>2. ~(job[w].base.revision < e.revision)
      BY <1>1, <2>1, <3>1
    <3> QED BY Zenon, <1>3, <2>1, <3>2 DEF EvidenceInv
  <2> QED BY Zenon, <1>5, <2>1, <2>2, <2>3, <2>4
<1> QED BY Zenon, <1>4, <1>5

-----------------------------------------------------------------------------
(* Reading and committing *)

(* The whole window is read.  The batch holds no frame that was evaluated   *)
(* before, and every frame of the window that was not.                      *)
LEMMA ReadDoneKeeps ==
  ASSUME Inv, TypeOK', NEW w \in Workers, job[w].step = "read",
         UNCHANGED <<shared, now, authorityUntil, visible>>,
         NEW rows \in SUBSET Frames, Advance(w, ReadDone(w, rows)),
         \A f \in rows : f \in visible /\ f.at < job[w].end,
         job[w].batch \subseteq rows,
         \A f \in visible : InQueries(job[w].queries, f.at) => f \in rows
  PROVE  Inv'
<1> DEFINE batch == evaluableSuffix(w, Deduplicated(rows))
           base == job[w].base
<1>1. CASE batch = {}
  BY Zenon, <1>1, LetGo DEF ReadDone
<1>2. CASE batch # {}
  <2>1. /\ job'[w] = [job[w] EXCEPT !.step = "commit", !.queries = <<>>, !.batch = batch]
        /\ \A v \in Workers \ {w} : job'[v] = job[v]
    BY Zenon, <1>2 DEF Advance, Inv, TypeOK, ReadDone
  <2>2. job[w] \in Jobs /\ base \in Cursors /\ base.at \in Int
    BY Zenon DEF Inv, TypeOK, Jobs, Cursors
  <2>3. /\ job'[w].step = "commit" /\ job'[w].base = base /\ job'[w].end = job[w].end
        /\ job'[w].revision = job[w].revision /\ job'[w].until = job[w].until
        /\ job'[w].batch = batch
    <3> HIDE DEF batch
    <3> QED BY Zenon, <2>1, <2>2 DEF Jobs
  <2>4. ReadInv(w) /\ ClaimInv(w) /\ EvidenceInv /\ NothingIsSkipped /\ Restored(w)
    BY Zenon DEF Inv, WorkerInv, SharedInv, ReadInv
  <2>5. ASSUME NEW f \in batch
        PROVE  /\ f \in rows /\ f \in Frames /\ f \in visible /\ f.kind = "own"
               /\ AuthorityFrom <= f.at /\ f.at < job[w].end
               /\ base # NoCursor => Before(base, f)
               /\ \A g \in rows : g.id = f.id => ~Before(g, f)
    BY Zenon DEF evaluableSuffix, Deduplicated, afterCheckpoint
  <2>6. ASSUME NEW f \in visible, Wanted(w, f), WindowStart(base) <= f.at, f.at < job[w].end
        PROVE  f \in rows
    BY Zenon, <2>6 DEF Wanted
  <2>7. /\ OverlapWindow \in Nat /\ AuthorityFrom \in Int /\ WindowStart(base) \in Int
        /\ job[w].end \in Int /\ job[w].until \in Int
    BY Zenon, <2>2, Durations, ClocksAssumption, WindowStartType DEF Jobs
  <2> HIDE DEF batch, base
  <2>8. ASSUME NEW f \in batch, NEW g \in batch, f.id = g.id PROVE f = g
    <3>1. ~Before(g, f) /\ ~Before(f, g) /\ f \in Frames /\ g \in Frames
      BY Zenon, <2>5, <2>8
    <3>2. f.at = g.at /\ f.pos \in Nat /\ g.pos \in Nat
      BY Zenon, <2>8, <3>1, RowsAssumption
    <3>3. f.pos = g.pos
      BY <3>1, <3>2 DEF Before
    <3> QED BY Zenon, <3>1, <3>2, <3>3, RowsAssumption
  <2>9. ASSUME revision = job[w].revision, NEW f \in batch, NEW e \in evaluated, e.frame.id = f.id
        PROVE  FALSE
    <3>1. /\ base # NoCursor /\ ~Before(base, e.frame) /\ Before(base, f)
      BY Zenon, <2>4, <2>5, <2>9, BaseIsLast DEF base
    <3>2. e.frame \in Frames /\ f \in Frames /\ e.frame \in visible /\ Wanted(w, e.frame)
      BY Zenon, <2>4, <2>5, <2>9 DEF EvidenceInv, ReadInv, Inv, TypeOK
    <3>3. e.frame.at = f.at /\ f.at \in Int
      BY <2>9, <3>2, RowsAssumption
    <3>4. Before(e.frame, f)
      BY Zenon, <2>2, <3>1, <3>2, BeforeOrder, FramesHavePositions, CursorsHavePositions
    <3>5. WindowStart(base) <= f.at /\ f.at < job[w].end
      <4>1. base.at <= f.at
        BY <2>2, <3>1, <3>3 DEF Before
      <4> QED BY <2>2, <2>5, <2>7, <3>1, <3>3, <4>1 DEF WindowStart, Greatest
    <3>6. e.frame \in rows
      BY Zenon, <2>6, <3>2, <3>3, <3>5
    <3> QED BY Zenon, <2>5, <2>9, <3>4, <3>6
  <2>10. ASSUME revision = job[w].revision, VisibleInTime,
                NEW f \in Frames, f.kind = "own", AuthorityFrom <= f.at, f.at < job[w].end
         PROVE  (\E g \in batch : g.id = f.id) \/ \E e \in evaluated : e.frame.id = f.id
    <3>1. PICK g \in visible : g.id = f.id /\ Wanted(w, g)
      BY Zenon, <2>4, <2>10 DEF ReadInv
    <3>2. g \in Frames /\ g.at = f.at /\ f.at \in Int
      BY <2>10, <3>1, RowsAssumption DEF Inv, TypeOK
    <3>3. base = NoCursor \/ base \in checkpoints
      BY Zenon, <2>4, <2>10, BaseIsLast DEF Restored, base
    <3>4. CASE f.at < WindowStart(base)
      <4>1. base # NoCursor
        BY <2>7, <2>10, <3>2, <3>4 DEF WindowStart
      <4>2. f.at < base.at
        BY <2>2, <2>7, <2>10, <3>2, <3>4, <4>1 DEF WindowStart, Greatest
      <4>3. ~Before(base, f)
        BY <2>2, <3>2, <4>2 DEF Before
      <4> QED BY Zenon, <2>4, <2>10, <3>3, <4>1, <4>3 DEF NothingIsSkipped
    <3>5. CASE WindowStart(base) <= f.at
      <4>1. g \in rows
        BY Zenon, <2>6, <2>10, <3>1, <3>2, <3>5
      <4>2. PICK h \in Deduplicated(rows) : h.id = g.id
        BY Zenon, <4>1, FirstRow
      <4>3. h \in Frames /\ h.at = f.at /\ h.kind = "own" /\ h.id = f.id
        BY Zenon, <2>10, <3>1, <4>2, RowsAssumption DEF Deduplicated
      <4>4. CASE base = NoCursor \/ Before(base, h)
        <5>1. f.at < job[w].until
          BY <2>4, <2>7, <2>10, <3>2 DEF ClaimInv
        <5>2. h \in batch
          BY Zenon, <2>10, <4>2, <4>3, <4>4, <5>1 DEF batch, base, evaluableSuffix, afterCheckpoint
        <5> QED BY Zenon, <4>3, <5>2
      <4>5. CASE base # NoCursor /\ ~Before(base, h)
        BY Zenon, <2>4, <2>10, <3>3, <4>3, <4>5 DEF NothingIsSkipped
      <4> QED BY Zenon, <4>4, <4>5
    <3> QED BY <2>7, <3>2, <3>4, <3>5
  <2>11. ClaimInv(w)'
    BY Zenon, <2>3, <2>4 DEF ClaimInv, shared
  <2>12. CommitInv(w)'
    <3>1. Restored(w)'
      BY Zenon, <2>3, <2>4 DEF Restored, shared, base
    <3>2. \A f \in job'[w].batch :
             /\ f \in visible' /\ f.kind = "own"
             /\ AuthorityFrom <= f.at /\ f.at < job'[w].end
             /\ job'[w].base # NoCursor => Before(job'[w].base, f)
      BY Zenon, <2>3, <2>5
    <3>3. revision' = job'[w].revision =>
            \A f \in job'[w].batch, e \in evaluated' : e.frame.id # f.id
      BY Zenon, <2>3, <2>9 DEF shared
    <3>4. revision' = job'[w].revision /\ VisibleInTime' =>
            \A f \in Frames : f.kind = "own" /\ AuthorityFrom <= f.at /\ f.at < job'[w].end =>
              \/ \E g \in job'[w].batch : g.id = f.id
              \/ \E e \in evaluated' : e.frame.id = f.id
      BY Zenon, <2>3, <2>10 DEF shared, VisibleInTime
    <3> QED BY Zenon, <2>3, <2>8, <3>1, <3>2, <3>3, <3>4 DEF CommitInv
  <2>13. WorkerInv(w)'
    BY Zenon, <2>3, <2>11, <2>12 DEF WorkerInv, ReadInv
  <2> QED BY Zenon, <2>1, <2>13, OneWorkerMoves
<1> QED BY Zenon, <1>1, <1>2

(* A query keeps the invariant, whether it is saturated, fails, ends the    *)
(* window or leaves others to make.                                         *)
LEMMA ReadPositionsKeeps ==
  ASSUME Inv, TypeOK', NEW w \in Workers, ReadPositions(w)
  PROVE  Inv'
<1> DEFINE qs == job[w].queries
           q == Head(qs)
           rest == Tail(qs)
           rows == queryChunk(q)
           read == job[w].batch \cup rows
<1>1. job[w].step = "read" /\ UNCHANGED <<shared, now, authorityUntil, visible>>
  BY Zenon DEF ReadPositions, durable, rowVars, shared
<1>2. /\ job[w] \in Jobs /\ qs \in Seq(Windows) /\ job[w].batch \in SUBSET Frames
      /\ visible \subseteq Frames /\ job[w].end \in Int
  BY Zenon DEF Inv, TypeOK, Jobs, Windows
<1>3. /\ qs # <<>>
      /\ \A i \in 1 .. Len(qs) : qs[i].until <= job[w].end
      /\ \A f \in job[w].batch : f \in visible /\ f.at < job[w].end
  BY Zenon, <1>1 DEF Inv, WorkerInv, ReadInv
<1>4. /\ q.from \in Int /\ q.until \in Int /\ Middle(q) \in Int /\ q.until <= job[w].end
      /\ rest \in Seq(Windows) /\ Len(qs) \in Nat \ {0}
  <2>1. q \in Windows /\ q = qs[1] /\ rest \in Seq(Windows) /\ Len(qs) \in Nat \ {0}
    BY Zenon, <1>2, <1>3, HeadAndTail
  <2> QED BY <1>3, <2>1 DEF Windows, Middle
<1>5. /\ read \in SUBSET Frames
      /\ \A f \in read : f \in visible /\ f.at < job[w].end
  <2>1. \A f \in rows : f \in visible /\ f \in Frames /\ f.at < q.until /\ f.at \in Int
    BY <1>2, RowsAssumption DEF queryChunk
  <2> HIDE DEF q, rows
  <2> QED BY <1>2, <1>3, <1>4, <2>1
<1>6. \A f \in visible : f.at \in Int
  BY <1>2, RowsAssumption
<1>7. CASE Advance(w, [job[w] EXCEPT !.queries = Halves(q) \o rest]) /\ Splittable(q)
  <2> DEFINE split == Halves(q) \o rest
  <2>1. split \in Seq(Windows) /\ split # <<>> /\ Len(split) = Len(qs) + 1
    BY Zenon, <1>2, <1>3, SplitType
  <2>2. ASSUME NEW i \in 1 .. Len(split) PROVE split[i].until <= job[w].end
    <3>1. CASE i = 1
      <4>1. split[1].until = Middle(q)
        BY <1>2, <1>3, SplitType DEF Halves
      <4>2. Middle(q) <= job[w].end
        <5> HIDE DEF q
        <5> QED BY <1>2, <1>4, <1>7 DEF Splittable
      <4> QED BY Zenon, <3>1, <4>1, <4>2
    <3>2. CASE i = 2
      <4>1. split[2].until = q.until
        BY <1>2, <1>3, SplitType DEF Halves
      <4> QED BY Zenon, <1>4, <3>2, <4>1
    <3>3. \A j \in 2 .. Len(qs) : split[j + 1] = qs[j]
      BY Zenon, <1>2, <1>3, SplitType
    <3> HIDE DEF split, qs, q
    <3>4. i \in 1 .. Len(qs) + 1
      BY Zenon, <2>1
    <3>5. CASE i > 2
      <4>1. PICK j \in 2 .. Len(qs) : i = j + 1
        <5>1. i - 1 \in 2 .. Len(qs) /\ i = (i - 1) + 1
          BY <1>4, <3>4, <3>5
        <5> QED BY Zenon, <5>1
      <4>2. j \in 1 .. Len(qs)
        OBVIOUS
      <4> QED BY Zenon, <1>3, <3>3, <4>1, <4>2
    <3> QED BY <1>4, <3>1, <3>2, <3>4, <3>5
  <2>3. \A f \in visible : InQueries(qs, f.at) => InQueries(split, f.at)
    BY Zenon, <1>2, <1>3, <1>6, SplitCovers
  <2>4. Advance(w, [job[w] EXCEPT !.queries = split, !.batch = job[w].batch])
    <3> HIDE DEF split
    <3>1. [job[w] EXCEPT !.queries = split] = [job[w] EXCEPT !.queries = split, !.batch = job[w].batch]
      BY Zenon, <1>2 DEF Jobs
    <3> QED BY Zenon, <1>7, <3>1 DEF split
  <2> HIDE DEF split
  <2> QED BY Zenon, <1>1, <1>2, <1>3, <2>1, <2>2, <2>3, <2>4, MoreToRead
<1>8. CASE Advance(w, Deferred(w, job[w].clock)) \/ Advance(w, Stopped)
  BY Zenon, <1>1, <1>8, LetGo
<1>9. CASE Advance(w, IF rest = <<>> THEN ReadDone(w, read)
                      ELSE [job[w] EXCEPT !.queries = rest, !.batch = read])
  <2>1. ASSUME NEW f \in visible, InQueries(qs, f.at)
        PROVE  f \in read \/ (rest # <<>> /\ InQueries(rest, f.at))
    <3>1. CASE q.from <= f.at /\ f.at < q.until
      BY Zenon, <3>1 DEF queryChunk
    <3> QED BY Zenon, <1>2, <1>3, <1>6, <2>1, <3>1, TailCovers
  <2>2. CASE rest = <<>>
    <3> HIDE DEF rest, read
    <3>1. Advance(w, ReadDone(w, read))
      BY Zenon, <1>9, <2>2
    <3>2. job[w].batch \subseteq read
      BY Zenon DEF read
    <3> QED BY Zenon, <1>1, <1>5, <2>1, <2>2, <3>1, <3>2, ReadDoneKeeps
  <2>3. CASE rest # <<>>
    <3>1. \A i \in 1 .. Len(rest) : rest[i].until <= job[w].end
      <4> SUFFICES ASSUME NEW i \in 1 .. Len(rest) PROVE rest[i].until <= job[w].end
        BY Zenon
      <4>1. Len(rest) = Len(qs) - 1
        BY Zenon, <1>2, <1>3, HeadAndTail
      <4>2. i \in 1 .. Len(qs) - 1 /\ i + 1 \in 1 .. Len(qs)
        BY <1>4, <4>1
      <4>3. rest[i] = qs[i + 1]
        BY Zenon, <1>2, <1>3, <4>2, HeadAndTail
      <4> QED BY Zenon, <1>3, <4>2, <4>3
    <3>2. job[w].batch \subseteq read
      BY Zenon
    <3> HIDE DEF rest, read
    <3>3. Advance(w, [job[w] EXCEPT !.queries = rest, !.batch = read])
      BY Zenon, <1>9, <2>3
    <3> QED BY Zenon, <1>1, <1>4, <1>5, <2>1, <2>3, <3>1, <3>2, <3>3, MoreToRead
  <2> QED BY Zenon, <2>2, <2>3
<1> QED BY Zenon, <1>7, <1>8, <1>9 DEF ReadPositions

-----------------------------------------------------------------------------
(* Committing *)

(* A commit at the claimed revision appends one checkpoint, later than all  *)
(* others, and evidence of frames not evaluated before.                     *)
LEMMA CommitKeepsShared ==
  ASSUME Inv, NEW w \in Workers, job[w].step = "commit", NEW last \in Newest(job[w].batch),
         revision = job[w].revision, last.at < authorityUntil,
         revision' = revision + 1,
         checkpoints' = checkpoints \cup {[revision |-> revision + 1, at |-> last.at, pos |-> last.pos]},
         evaluated' = evaluated \cup {[frame |-> f, revision |-> revision + 1] : f \in job[w].batch},
         UNCHANGED <<now, authorityUntil, visible>>
  PROVE  SharedInv'
<1> DEFINE new == [revision |-> revision + 1, at |-> last.at, pos |-> last.pos]
           batch == job[w].batch
           base == job[w].base
<1>1. /\ revision \in Nat /\ checkpoints \subseteq Cursors /\ batch \in SUBSET Frames
      /\ evaluated \subseteq [frame : Frames, revision : Nat] /\ base \in Cursors
      /\ authorityUntil \in Int
  BY Zenon DEF Inv, TypeOK, Jobs
<1>2. CommitInv(w) /\ Restored(w) /\ CheckpointInv /\ EvidenceInv /\ NothingIsSkipped /\ ClockInv
  BY Zenon DEF Inv, WorkerInv, SharedInv, CommitInv
<1>3. /\ last \in batch /\ last \in Frames
      /\ \A f \in batch : f = last \/ Before(f, last)
  BY Zenon, <1>1 DEF Newest
<1>4. /\ IsPosition(new) /\ new.revision = revision + 1 /\ new.at = last.at
      /\ IsPosition(last) /\ IsPosition(base)
      /\ \A x : /\ Before(new, x) <=> Before(last, x)
                /\ Before(x, new) <=> Before(x, last)
  BY Zenon, <1>1, <1>3, FramesHavePositions, CursorsHavePositions DEF IsPosition, Before
<1> HIDE DEF new
<1>5. /\ revision = 0 => checkpoints = {} /\ evaluated = {}
      /\ revision # 0 => base # NoCursor /\ base \in checkpoints
      /\ \A k \in checkpoints : k = base \/ Before(k, base)
      /\ \A e \in evaluated : ~Before(base, e.frame)
  BY Zenon, <1>2, BaseIsLast
<1>6. ASSUME NEW k \in checkpoints, NEW f \in batch PROVE Before(k, f)
  <2>1. Before(base, f) /\ (k = base \/ Before(k, base))
    BY Zenon, <1>2, <1>5 DEF CommitInv
  <2>2. IsPosition(k) /\ IsPosition(f)
    BY Zenon, <1>1, FramesHavePositions, CursorsHavePositions
  <2> QED BY Zenon, <1>4, <2>1, <2>2, BeforeOrder
<1>7. ASSUME NEW e \in evaluated PROVE ~Before(new, e.frame)
  <2>1. ~Before(base, e.frame) /\ Before(base, last)
    BY Zenon, <1>2, <1>3, <1>5 DEF CommitInv
  <2>2. IsPosition(e.frame)
    BY Zenon, <1>1, FramesHavePositions
  <2>3. Before(e.frame, last)
    BY Zenon, <1>4, <2>1, <2>2, BeforeOrder
  <2> QED BY Zenon, <1>4, <2>2, <2>3, BeforeOrder
<1>8. checkpoints' = checkpoints \cup {new}
  BY Zenon DEF new
<1>9. ASSUME NEW k \in checkpoints
      PROVE  1 <= k.revision /\ k.revision <= revision /\ k.revision < revision + 1 /\ k.revision \in Nat
  BY <1>1, <1>2 DEF CheckpointInv, Cursors
<1>10. CheckpointInv'
  <2>1. \A k \in checkpoints' : 1 <= k.revision /\ k.revision <= revision'
    <3>1. 1 <= new.revision /\ new.revision <= revision'
      BY <1>1, <1>4
    <3>2. ASSUME NEW k \in checkpoints PROVE 1 <= k.revision /\ k.revision <= revision'
      BY <1>1, <1>9
    <3> QED BY Zenon, <1>8, <3>1, <3>2
  <2>2. \A n \in 1 .. revision' : \E k \in checkpoints' : k.revision = n
    <3> SUFFICES ASSUME NEW n \in 1 .. revision' PROVE \E k \in checkpoints' : k.revision = n
      BY Zenon
    <3>1. n \in 1 .. revision \/ n = revision + 1
      BY <1>1
    <3> QED BY Zenon, <1>2, <1>4, <1>8, <3>1 DEF CheckpointInv
  <2>3. ASSUME NEW k \in checkpoints', NEW l \in checkpoints', k.revision < l.revision PROVE Before(k, l)
    <3>1. CASE k = new
      BY <1>1, <1>4, <1>8, <1>9, <2>3, <3>1
    <3>2. CASE k \in checkpoints /\ l = new
      BY Zenon, <1>3, <1>4, <1>6, <3>2
    <3>3. CASE k \in checkpoints /\ l \in checkpoints
      BY Zenon, <1>2, <2>3, <3>3 DEF CheckpointInv
    <3> QED BY Zenon, <1>8, <3>1, <3>2, <3>3
  <2>4. ASSUME NEW k \in checkpoints', NEW l \in checkpoints', k.revision = l.revision PROVE k = l
    <3>1. CASE k = new \/ l = new
      BY <1>1, <1>4, <1>8, <1>9, <2>4, <3>1
    <3>2. CASE k \in checkpoints /\ l \in checkpoints
      BY Zenon, <1>2, <2>4, <3>2 DEF CheckpointInv
    <3> QED BY Zenon, <1>8, <3>1, <3>2
  <2> QED BY Zenon, <2>1, <2>2, <2>3, <2>4 DEF CheckpointInv
<1>11. ASSUME NEW e \in evaluated'
       PROVE  e \in evaluated \/ (e.frame \in batch /\ e.revision = revision + 1
                                   /\ e = [frame |-> e.frame, revision |-> revision + 1])
  OBVIOUS
<1>12. EvidenceInv'
  <2>1. ASSUME NEW e \in evaluated'
        PROVE  /\ e.frame \in visible' /\ e.frame.kind = "own"
               /\ AuthorityFrom <= e.frame.at /\ e.frame.at < authorityUntil'
               /\ 1 <= e.revision /\ e.revision <= revision'
               /\ \A k \in checkpoints' : k.revision < e.revision <=> Before(k, e.frame)
    <3>1. CASE e \in evaluated
      <4>1. e.revision \in Nat /\ 1 <= e.revision /\ e.revision <= revision
        BY Zenon, <1>1, <1>2, <3>1 DEF EvidenceInv
      <4>2. e.revision <= revision' /\ ~(new.revision < e.revision)
        BY <1>1, <1>4, <4>1
      <4>3. \A k \in checkpoints' : k.revision < e.revision <=> Before(k, e.frame)
        BY Zenon, <1>2, <1>7, <1>8, <3>1, <4>2 DEF EvidenceInv
      <4> QED BY Zenon, <1>2, <3>1, <4>1, <4>2, <4>3 DEF EvidenceInv
    <3>2. CASE e.frame \in batch /\ e.revision = revision + 1
      <4>1. /\ e.frame \in visible /\ e.frame.kind = "own" /\ AuthorityFrom <= e.frame.at
        BY Zenon, <1>2, <3>2 DEF CommitInv
      <4>2. ~Before(last, e.frame) /\ e.frame.at <= last.at
        BY <1>1, <1>3, <3>2, RowsAssumption DEF Before
      <4>3. e.frame.at < authorityUntil
        <5>1. e.frame.at \in Int /\ last.at \in Int
          BY <1>1, <1>3, <3>2, RowsAssumption
        <5> QED BY <1>1, <4>2, <5>1
      <4>4. 1 <= e.revision /\ e.revision <= revision' /\ ~(new.revision < e.revision)
        BY <1>1, <1>4, <3>2
      <4>5. \A k \in checkpoints' : k.revision < e.revision <=> Before(k, e.frame)
        BY Zenon, <1>4, <1>6, <1>8, <1>9, <3>2, <4>2, <4>4
      <4> QED BY Zenon, <4>1, <4>3, <4>4, <4>5
    <3> QED BY Zenon, <1>11, <3>1, <3>2
  <2>2. ASSUME NEW a \in evaluated', NEW b \in evaluated', a.frame.id = b.frame.id PROVE a = b
    <3>1. CASE a \in evaluated /\ b \in evaluated
      BY Zenon, <1>2, <2>2, <3>1 DEF EvidenceInv
    <3>2. CASE ~(a \in evaluated) /\ ~(b \in evaluated)
      <4>1. a.frame = b.frame
        BY Zenon, <1>2, <1>11, <2>2, <3>2 DEF CommitInv
      <4> QED BY Zenon, <1>11, <3>2, <4>1
    <3>3. CASE (a \in evaluated) # (b \in evaluated)
      BY <1>2, <1>11, <2>2, <3>3 DEF CommitInv
    <3> QED BY Zenon, <3>1, <3>2, <3>3
  <2> QED BY Zenon, <2>1, <2>2 DEF EvidenceInv
<1>13. NothingIsSkipped'
  <2> SUFFICES ASSUME VisibleInTime, NEW f \in Frames, f.kind = "own", AuthorityFrom <= f.at,
                      NEW k \in checkpoints', ~Before(k, f)
               PROVE  \E e \in evaluated' : e.frame.id = f.id
    BY Zenon DEF NothingIsSkipped, VisibleInTime
  <2>1. CASE k \in checkpoints
    BY Zenon, <1>2, <2>1 DEF NothingIsSkipped
  <2>2. CASE k = new
    <3>1. f.at <= last.at
      BY <1>3, <1>4, <2>2, RowsAssumption DEF Before
    <3>2. f.at < job[w].end
      <4>1. last.at < job[w].end /\ f.at \in Int /\ last.at \in Int /\ job[w].end \in Int
        BY <1>2, <1>3, RowsAssumption DEF CommitInv, Inv, TypeOK, Jobs
      <4> QED BY <3>1, <4>1
    <3>3. (\E g \in batch : g.id = f.id) \/ \E e \in evaluated : e.frame.id = f.id
      BY Zenon, <1>2, <3>2 DEF CommitInv
    <3>4. ASSUME NEW g \in batch, g.id = f.id PROVE \E e \in evaluated' : e.frame.id = f.id
      <4>1. [frame |-> g, revision |-> revision + 1] \in evaluated'
        BY Zenon
      <4> QED BY Zenon, <3>4, <4>1
    <3> QED BY Zenon, <3>3, <3>4
  <2> QED BY Zenon, <1>8, <2>1, <2>2
<1>14. ClockInv'
  BY Zenon, <1>2 DEF ClockInv, Shown
<1> QED BY Zenon, <1>10, <1>12, <1>13, <1>14 DEF SharedInv

(* A commit keeps the invariant, also that of workers whose revision it     *)
(* makes stale.                                                             *)
LEMMA CommitEvaluationKeeps ==
  ASSUME Inv, TypeOK', NEW w \in Workers, CommitEvaluation(w)
  PROVE  Inv'
<1>1. PICK last \in Newest(job[w].batch) :
        IF Committable(w, last)
        THEN /\ revision' = revision + 1
             /\ checkpoints' = checkpoints \cup
                  {[revision |-> revision + 1, at |-> last.at, pos |-> last.pos]}
             /\ evaluated' = evaluated \cup
                  {[frame |-> f, revision |-> revision + 1] : f \in job[w].batch}
             /\ ReleaseLease(job[w].clock + PollInterval)
        ELSE UNCHANGED durable
  BY Zenon DEF CommitEvaluation
<1>2. CASE ~Committable(w, last)
  BY Zenon, <1>1, <1>2, LetGo DEF CommitEvaluation, durable, rowVars, shared
<1>3. CASE Committable(w, last)
  <2>1. /\ job[w].step = "commit" /\ revision = job[w].revision /\ last.at < authorityUntil
        /\ UNCHANGED <<now, authorityUntil, visible>>
        /\ revision' = revision + 1 /\ checkpoints \subseteq checkpoints' /\ evaluated \subseteq evaluated'
    BY Zenon, <1>1, <1>3 DEF CommitEvaluation, Committable, ReleaseLease
  <2>2. SharedInv'
    BY Zenon, <1>1, <1>3, <2>1, CommitKeepsShared
  <2>3. job'[w] = Idle /\ \A v \in Workers \ {w} : job'[v] = job[v]
    BY Zenon DEF CommitEvaluation, Advance, Inv, TypeOK
  <2>4. revision \in Nat
    BY Zenon DEF Inv, TypeOK
  <2>5. WorkerInv(w)'
    <3>1. job'[w].step = "idle" /\ job'[w].revision = 0
      BY <2>3 DEF Idle
    <3>2. job'[w].revision <= revision'
      BY <2>1, <2>4, <3>1
    <3> QED BY Zenon, <3>1, <3>2, NothingInHand
  <2>6. ASSUME NEW v \in Workers \ {w} PROVE WorkerInv(v)'
    <3>1. job'[v] = job[v] /\ ClaimInv(v) /\ ReadInv(v) /\ CommitInv(v) /\ job[v].revision \in Nat
      BY Zenon, <2>3 DEF Inv, WorkerInv, TypeOK, Jobs
    <3>2. job'[v].revision <= revision' /\ revision' # job'[v].revision
      BY <2>1, <2>4, <3>1 DEF ClaimInv
    <3>3. Restored(v) => Restored(v)'
      BY Zenon, <2>1, <3>1 DEF Restored
    <3>4. \A f : Wanted(v, f)' = Wanted(v, f)
      BY Zenon, <3>1 DEF Wanted
    <3>5. ClaimInv(v)'
      BY Zenon, <2>1, <3>1, <3>2 DEF ClaimInv, Shown, VisibleInTime
    <3>6. ReadInv(v)'
      BY Zenon, <2>1, <3>1, <3>2, <3>3, <3>4 DEF ReadInv, VisibleInTime
    <3>7. CommitInv(v)'
      BY Zenon, <2>1, <3>1, <3>2, <3>3 DEF CommitInv
    <3> QED BY Zenon, <3>5, <3>6, <3>7 DEF WorkerInv
  <2> QED BY Zenon, <2>2, <2>5, <2>6 DEF Inv
<1> QED BY Zenon, <1>2, <1>3

-----------------------------------------------------------------------------
(* The environment *)

(* A cutover keeps the invariant: committed evidence is before its          *)
(* boundary.                                                                *)
LEMMA CutoverKeeps ==
  ASSUME Inv, TypeOK', NEW at \in 0..MaxTime, Cutover(at)
  PROVE  Inv'
<1>1. UNCHANGED <<shared, now, visible, job>> /\ authorityUntil' = at
  BY Zenon DEF Cutover, shared
<1>2. CheckpointInv /\ EvidenceInv /\ NothingIsSkipped /\ ClockInv
  BY Zenon DEF Inv, SharedInv
<1>3. ASSUME NEW e \in evaluated PROVE e.frame.at < at
  <2>1. /\ e.frame \in Frames /\ e.revision \in Nat /\ checkpoints \subseteq Cursors
        /\ revision \in Nat /\ e.frame.at \in Int /\ at \in Int
    BY Durations, RowsAssumption DEF Inv, TypeOK
  <2>2. e.revision \in 1 .. revision
    BY <1>2, <2>1 DEF EvidenceInv
  <2>3. PICK k \in checkpoints : k.revision = e.revision
    BY Zenon, <1>2, <2>2 DEF CheckpointInv
  <2>4. ~Before(k, e.frame)
    BY <1>2, <2>1, <2>3 DEF EvidenceInv
  <2>5. k.at \in Int /\ k.at < at
    BY Zenon, <2>1 DEF Cutover, Cursors
  <2> QED BY <2>1, <2>4, <2>5 DEF Before
<1>4. EvidenceInv'
  BY Zenon, <1>1, <1>2, <1>3 DEF EvidenceInv, shared
<1>5. CheckpointInv' /\ NothingIsSkipped' /\ ClockInv'
  BY Zenon, <1>1, <1>2 DEF CheckpointInv, NothingIsSkipped, VisibleInTime, ClockInv, Shown, shared
<1>6. \A v \in Workers : WorkerInv(v)'
  BY Zenon, <1>1, WorkerUnmoved
<1> QED BY Zenon, <1>4, <1>5, <1>6 DEF Inv, SharedInv

(* Arriving telemetry and the passing of time keep the invariant.           *)
LEMMA EnvironmentKeeps ==
  ASSUME Inv, TypeOK', (\E f \in Frames : Ingest(f)) \/ Tick \/ UNCHANGED vars
  PROVE  Inv'
<1>1. UNCHANGED <<shared, authorityUntil, job>> /\ visible \subseteq visible'
  BY Zenon DEF Ingest, Tick, vars, durable, rowVars, shared
<1>2. ClockInv
  BY Zenon DEF Inv, SharedInv
<1>3. ClockInv'
  <2>1. CASE now' = now
    BY Zenon, <1>1, <1>2, <2>1 DEF ClockInv, Shown
  <2>2. CASE Tick
    <3>1. now \in Int /\ VisibilityDelay \in Int
      BY Durations DEF Inv, TypeOK
    <3>2. ASSUME NEW f \in Frames, f.kind = "own", f.at + VisibilityDelay < now' PROVE Shown(f)'
      <4>1. f.at + VisibilityDelay <= now
        BY <2>2, <3>1, <3>2, RowsAssumption DEF Tick
      <4> QED BY Zenon, <1>1, <2>2, <3>2, <4>1 DEF Tick, Shown
    <3> QED BY Zenon, <3>2 DEF ClockInv
  <2> QED BY Zenon, <2>1, <2>2 DEF Ingest, vars
<1>4. \A v \in Workers : WorkerInv(v)'
  BY Zenon, <1>1, WorkerUnmoved
<1> QED BY Zenon, <1>1, <1>3, <1>4, SharedUnmoved DEF Inv

-----------------------------------------------------------------------------
(* The theorems *)

(* Every step keeps the inductive invariant.                                *)
LEMMA InvStep == Inv /\ [Next]_vars => Inv'
<1> SUFFICES ASSUME Inv, [Next]_vars PROVE Inv'
  BY Zenon
<1>1. TypeOK'
  BY Zenon, TypeStep DEF Inv, WorkerInv, ReadInv
<1>2. ASSUME NEW w \in Workers, Poll(w) PROVE Inv'
  <2>1. CASE Due
    <3> DEFINE next == [Idle EXCEPT !.step = "claimed", !.revision = revision,
                          !.lease = leaseGeneration + 1, !.until = authorityUntil]
    <3>1. next.step = "claimed" /\ next.revision = revision /\ next.batch = {}
      BY Zenon DEF Idle
    <3>2. Advance(w, next)
      BY Zenon, <1>2, <2>1 DEF Poll, Advance
    <3> HIDE DEF next
    <3>3. UNCHANGED <<shared, now, authorityUntil, visible>>
      BY Zenon, <1>2 DEF Poll, shared
    <3> QED BY Zenon, <1>1, <3>1, <3>2, <3>3, LetGo
  <2>2. CASE ~Due
    BY Zenon, <1>1, <1>2, <2>2, LetGo DEF Poll, shared
  <2> QED BY Zenon, <2>1, <2>2
<1>3. ASSUME NEW w \in Workers, DeferAssignmentEvaluation(w) PROVE Inv'
  <2>1. UNCHANGED <<shared, now, authorityUntil, visible>> /\ Advance(w, Idle)
    BY Zenon, <1>3 DEF DeferAssignmentEvaluation, ReleaseLease, rowVars, shared
  <2> QED BY Zenon, <1>1, <2>1, LetGo
<1>4. ASSUME NEW w \in Workers, RenewAssignmentLease(w) PROVE Inv'
  BY Zenon, <1>1, <1>4, LetGo DEF RenewAssignmentLease, Advance, shared
<1>5. ASSUME NEW w \in Workers, DependencyFails(w) \/ Abandon(w) PROVE Inv'
  BY Zenon, <1>1, <1>5, LetGo DEF DependencyFails, Abandon, durable, rowVars, shared
<1> QED
  BY Zenon, <1>1, <1>2, <1>3, <1>4, <1>5, ChooseWindowKeeps, RestoreCheckpointKeeps, ReadPositionsKeeps,
     CommitEvaluationKeeps, CutoverKeeps, EnvironmentKeeps DEF Next, ProcessClaim

(* The inductive invariant: a claim holds the state of its revision, a read *)
(* loses no row between its queries, and commits follow one another in the  *)
(* canonical order.                                                         *)
THEOREM WorkerCorrect == Spec => []Inv
BY InvInit, InvStep, PTL DEF Spec

(* The types of the assignment row, the claims and the telemetry read.      *)
THEOREM TypeCorrect == Spec => []TypeOK
<1>1. Inv => TypeOK
  BY Zenon DEF Inv
<1> QED BY <1>1, WorkerCorrect, PTL

(* Whatever the clocks, the lease lengths, the number of replicas and the   *)
(* query limit, no frame is evaluated twice or out of order (processClaim,  *)
(* readComplete, CommitEvaluation).  The proof never looks at the lease:    *)
(* the revision fence alone carries it.                                     *)
THEOREM EvaluatedOnceInOrderCorrect == Spec => []EvaluatedOnceInOrder
<1>1. ASSUME Inv PROVE EvaluatedOnceInOrder
  <2>1. EvidenceInv /\ CheckpointInv
    BY Zenon, <1>1 DEF Inv, SharedInv
  <2>2. ASSUME NEW a \in evaluated, NEW b \in evaluated, a.revision < b.revision
        PROVE  Before(a.frame, b.frame)
    <3>1. /\ a.frame \in Frames /\ b.frame \in Frames /\ a.revision \in Nat /\ revision \in Nat
          /\ checkpoints \subseteq Cursors
      BY Zenon, <1>1 DEF Inv, TypeOK
    <3>2. a.revision \in 1 .. revision
      BY <2>1, <3>1 DEF EvidenceInv
    <3>3. PICK k \in checkpoints : k.revision = a.revision
      BY Zenon, <2>1, <3>2 DEF CheckpointInv
    <3>4. Before(k, b.frame)
      BY Zenon, <2>1, <2>2, <3>3 DEF EvidenceInv
    <3>5. ~Before(k, a.frame)
      BY <2>1, <3>1, <3>3 DEF EvidenceInv
    <3> QED
      BY Zenon, <3>1, <3>4, <3>5, BeforeOrder, FramesHavePositions, CursorsHavePositions
  <2> QED BY Zenon, <2>1, <2>2 DEF EvaluatedOnceInOrder, EvidenceInv
<1> QED BY <1>1, WorkerCorrect, PTL

(* The checkpoint mismatch test of processClaim does its work for any       *)
(* disagreement between the workers' clocks.                                *)
THEOREM RestoresNewestStateCorrect == Spec => []RestoresNewestState
<1>1. ASSUME Inv PROVE RestoresNewestState
  <2> SUFFICES ASSUME NEW w \in Workers, job[w].step \in {"read", "commit"}, revision = job[w].revision
               PROVE  IF checkpoints = {} THEN job[w].base = NoCursor
                      ELSE job[w].base \in Newest(checkpoints)
    BY Zenon DEF RestoresNewestState
  <2>1. Restored(w) /\ CheckpointInv /\ revision \in Nat /\ checkpoints \subseteq Cursors
    BY Zenon, <1>1 DEF Inv, SharedInv, WorkerInv, ReadInv, CommitInv, TypeOK
  <2>2. CASE revision = 0
    BY Zenon, <1>1, <2>1, <2>2, BaseIsLast DEF Restored
  <2>3. CASE revision # 0
    BY Zenon, <1>1, <2>1, <2>3, BaseIsLast DEF Newest
  <2> QED BY Zenon, <2>2, <2>3
<1> QED BY <1>1, WorkerCorrect, PTL

(* A settle delay that covers the visibility delay and the fastest clock    *)
(* loses nothing, whatever the overlap window, the query limit and the      *)
(* splits (processClaim, readComplete).                                     *)
THEOREM NothingIsSkippedCorrect == Spec => []NothingIsSkipped
<1>1. Inv => NothingIsSkipped
  BY Zenon DEF Inv, SharedInv
<1> QED BY <1>1, WorkerCorrect, PTL

=============================================================================
