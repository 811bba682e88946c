---------------------------- MODULE EvaluationWorker ----------------------------
(***************************************************************************)
(* The live evaluation loop (internal/worker/evaluation.go): replicas that *)
(* poll for one current assignment generation, restore its newest          *)
(* checkpoint, read the settled telemetry after it from InfluxDB, evaluate *)
(* it and commit behind their lease.  The store's side of each call is the *)
(* statement AssignmentStore models, cut down to one generation whose      *)
(* authority may be closed by a cutover while workers are busy.            *)
(*                                                                         *)
(* processClaim is not atomic: the claim, the reading of the worker's own  *)
(* clock, the checkpoint read, the telemetry read and the commit are       *)
(* separate actions of a worker, and the clock, the other worker, a        *)
(* cutover and newly visible telemetry may come between any two of them.   *)
(* So are the queries into which the telemetry reader splits a window that *)
(* holds too many rows (readComplete, telemetry/influx/reader.go).         *)
(*                                                                         *)
(* Abstractions: a row of telemetry is its event time, its position `pos'  *)
(* in the canonical order of the rows of that time (wal_id, wal_sequence,  *)
(* frame_id), its frame ID, and what the worker makes of it: "own" passes  *)
(* the attribution filter, "foreign" does not or cannot be decoded,        *)
(* "unordered" lacks a WAL identity.  A frame that was logged twice is two *)
(* rows.  The evaluator's output is the last frame of its batch.  The      *)
(* renewal ticker may fire, late or early, at any point of a claim.        *)
(***************************************************************************)
EXTENDS Integers, Sequences, FiniteSets

CONSTANTS
  Workers,            \* worker replicas, each polling on its own ticker
  Frames,             \* rows of telemetry of the assignment's aircraft
  Skew,               \* [Workers -> Int]: a worker's clock minus PostgreSQL's
  Phase,              \* [Workers -> Nat]: when each worker's ticker started
  AuthorityFrom,      \* start of the authority interval
  AuthorityEnd,       \* its exclusive end as activated
  PollInterval,
  LeaseDuration,
  SettleDelay,
  OverlapWindow,
  MaxRows,            \* a query returning this many rows is saturated
  VisibilityDelay,    \* how long after its event time an own frame may stay hidden
  Latency,            \* bound on a claim's duration under PunctualSpec
  MaxTime,            \* bound on the clock
  MaxFaults,          \* bound on failed calls and lost workers
  NoWorker

ASSUME ClocksAssumption ==
  /\ Skew \in [Workers -> Int] /\ Phase \in [Workers -> Int]
  /\ AuthorityFrom \in Int /\ AuthorityEnd \in Int
  /\ PollInterval \in Nat \ {0}
  /\ {LeaseDuration, SettleDelay, OverlapWindow, VisibilityDelay, MaxTime, MaxFaults} \subseteq Nat

(* Time starts at 0; the canonical order is total; and a frame is captured  *)
(* once, however often it is logged.                                        *)
ASSUME RowsAssumption ==
  \A f, g \in Frames :
    /\ f.at \in Nat /\ f.pos \in Nat
    /\ f.at = g.at /\ f.pos = g.pos => f = g
    /\ f.id = g.id => f.at = g.at /\ f.kind = g.kind

NoTime == -1
FinalizationGrace == SettleDelay + PollInterval

VARIABLES
  now,                \* PostgreSQL's clock
  visible,            \* frames InfluxDB returns
  live,               \* the generation is still active
  authorityUntil,
  leaseOwner, leaseGeneration, leaseUntil,
  revision,           \* evaluation_revision
  nextEvaluationAt,
  checkpoints,        \* [revision, at, pos] of every commit
  tick,               \* the next tick of each worker's ticker
  job,                \* the claim each worker is processing
  evaluated,          \* history: which commit evaluated which frame
  queriedThrough,     \* history: the end of the last telemetry query
  faults

rowVars == <<live, authorityUntil, leaseOwner, leaseGeneration, leaseUntil, revision, nextEvaluationAt>>
durable == <<rowVars, checkpoints, evaluated>>
vars == <<now, visible, durable, tick, job, queriedThrough, faults>>

NoCursor == [revision |-> 0, at |-> NoTime, pos |-> 0]
Idle == [step |-> "idle", lease |-> 0, revision |-> 0, until |-> NoTime, clock |-> NoTime,
         end |-> NoTime, base |-> NoCursor, queries |-> <<>>, batch |-> {}]
Stopped == [Idle EXCEPT !.step = "stopped"]

Steps == {"idle", "claimed", "checkpoint", "read", "commit", "defer", "stopped"}
Cursors == [revision : Nat, at : Int, pos : Nat]
Jobs == [step : Steps, lease : Nat, revision : Nat, until : Int, clock : Int, end : Int,
         base : Cursors, queries : Seq([from : Int, until : Int]), batch : SUBSET Frames]

TypeOK ==
  /\ now \in 0..MaxTime
  /\ visible \subseteq Frames
  /\ live \in BOOLEAN
  /\ authorityUntil \in Int
  /\ leaseOwner \in Workers \cup {NoWorker}
  /\ leaseGeneration \in Nat
  /\ leaseUntil \in Nat \cup {NoTime}
  /\ revision \in Nat
  /\ nextEvaluationAt \in Int
  /\ checkpoints \subseteq Cursors
  /\ tick \in [Workers -> Int]
  /\ job \in [Workers -> Jobs]
  /\ evaluated \subseteq [frame : Frames, revision : Nat]
  /\ queriedThrough \in Int
  /\ faults \in 0..MaxFaults

Init ==
  /\ now = 0
  /\ visible = {}
  /\ live = TRUE
  /\ authorityUntil = AuthorityEnd
  /\ leaseOwner = NoWorker
  /\ leaseGeneration = 0
  /\ leaseUntil = NoTime
  /\ revision = 0
  /\ nextEvaluationAt = now
  /\ checkpoints = {}
  /\ tick = Phase
  /\ job = [w \in Workers |-> Idle]
  /\ evaluated = {}
  /\ queriedThrough = NoTime
  /\ faults = 0

-----------------------------------------------------------------------------
(* Cursors                                                                 *)

(* The canonical order within one agent's telemetry.                        *)
Before(a, b) == a.at < b.at \/ (a.at = b.at /\ a.pos < b.pos)

(* Mutant: the frame of the checkpoint itself is evaluated again.           *)
afterCheckpoint_AtOrAfter(f, base) == ~Before(f, base)

afterCheckpoint(f, base) == Before(base, f)

Newest(S) == {k \in S : \A l \in S : l = k \/ Before(l, k)}

(* The newest checkpoint at or before a time, as a set of at most one.      *)
GetReplayCheckpoint(atOrBefore) == Newest({k \in checkpoints : k.at <= atOrBefore})

-----------------------------------------------------------------------------
(* Polling and the lease                                                   *)

(* The ticker holds one missed tick: whatever came due while the worker     *)
(* was busy is a single tick, and the next one is on the ticker's grid.     *)
NextTick(w) == now - ((now - Phase[w]) % PollInterval) + PollInterval

(* The worker reads its own clock, not PostgreSQL's.                        *)
Clock(w) == now + Skew[w]

WithinGrace == authorityUntil + FinalizationGrace >= now

Due ==
  /\ live
  /\ WithinGrace
  /\ nextEvaluationAt <= now
  /\ leaseUntil = NoTime \/ leaseUntil < now

(* Poll, at startup and then on every tick.                                 *)
Poll(w) ==
  /\ job[w].step = "idle"
  /\ tick[w] <= now
  /\ tick' = [tick EXCEPT ![w] = NextTick(w)]
  /\ IF Due
     THEN /\ leaseOwner' = w
          /\ leaseGeneration' = leaseGeneration + 1
          /\ leaseUntil' = now + LeaseDuration
          /\ job' = [job EXCEPT ![w] = [Idle EXCEPT !.step = "claimed", !.revision = revision,
                                          !.lease = leaseGeneration + 1, !.until = authorityUntil]]
     ELSE UNCHANGED <<leaseOwner, leaseGeneration, leaseUntil, job>>
  /\ UNCHANGED <<now, visible, live, authorityUntil, revision, nextEvaluationAt, checkpoints,
                 evaluated, queriedThrough, faults>>

HoldsLease(w) ==
  /\ live
  /\ leaseOwner = w
  /\ leaseGeneration = job[w].lease
  /\ leaseUntil > now

(* Mutant: the lease is not cleared but dated back by two leases, as the    *)
(* worker's clock has it.                                                   *)
ReleaseLease_Backdated(next) ==
  /\ leaseOwner' = NoWorker
  /\ leaseUntil' = next - PollInterval - 2 * LeaseDuration
  /\ nextEvaluationAt' = next
  /\ UNCHANGED <<live, authorityUntil, leaseGeneration>>

ReleaseLease(next) ==
  /\ leaseOwner' = NoWorker
  /\ leaseUntil' = NoTime
  /\ nextEvaluationAt' = next
  /\ UNCHANGED <<live, authorityUntil, leaseGeneration>>

Working(w) == job[w].step \in {"claimed", "checkpoint", "read", "commit"}

(* The renewal goroutine.  A refused renewal cancels the claim's context,   *)
(* which ends processing without a deferral; a deferral already under way   *)
(* runs on the parent context and is fenced by itself.                      *)
RenewAssignmentLease(w) ==
  /\ job[w].step \notin {"idle", "stopped"}
  /\ IF HoldsLease(w) /\ WithinGrace
     THEN leaseUntil' = now + LeaseDuration /\ UNCHANGED job
     ELSE /\ Working(w)
          /\ job' = [job EXCEPT ![w] = Idle]
          /\ UNCHANGED leaseUntil
  /\ UNCHANGED <<now, visible, live, authorityUntil, leaseOwner, leaseGeneration, revision,
                 nextEvaluationAt, checkpoints, evaluated, tick, queriedThrough, faults>>

-----------------------------------------------------------------------------
(* processClaim                                                            *)

Advance(w, next) == job' = [job EXCEPT ![w] = next]

(* deferClaim: the next step of the worker is DeferAssignmentEvaluation.    *)
Deferred(w, clock) ==
  [Idle EXCEPT !.step = "defer", !.lease = job[w].lease, !.revision = job[w].revision, !.clock = clock]

Least(a, b) == IF a < b THEN a ELSE b
Greatest(a, b) == IF a < b THEN b ELSE a

(* Mutant: the query runs up to the present.                                *)
WindowEnd_Unsettled(w) == Least(Clock(w), job[w].until)

(* The settled past, capped at the end of authority.                        *)
WindowEnd(w) == Least(Clock(w) - SettleDelay, job[w].until)

(* Nothing can be read before the window opens.                             *)
ChooseWindow(w) ==
  LET end == WindowEnd(w) IN
  /\ job[w].step = "claimed"
  /\ Advance(w, IF end > AuthorityFrom
                THEN [job[w] EXCEPT !.step = "checkpoint", !.clock = Clock(w), !.end = end]
                ELSE Deferred(w, Clock(w)))
  /\ UNCHANGED <<now, visible, durable, tick, queriedThrough, faults>>

(* Mutant: the restored state need not be that of the claimed revision.     *)
Mismatch_Never(w, found) == FALSE

(* errCheckpointMismatch: the checkpoint found is not the one the claimed   *)
(* revision was committed with.                                             *)
Mismatch(w, found) ==
  \/ job[w].revision = 0 /\ found # {}
  \/ job[w].revision > 0 /\ {k.revision : k \in found} # {job[w].revision}

(* A new generation reads from the start of its authority, a restored one   *)
(* from OverlapWindow before its checkpoint.                                *)
WindowStart(base) ==
  IF base = NoCursor THEN AuthorityFrom ELSE Greatest(base.at - OverlapWindow, AuthorityFrom)

RestoreCheckpoint(w) ==
  LET found == GetReplayCheckpoint(job[w].end)
      base == IF found = {} THEN NoCursor ELSE CHOOSE k \in found : TRUE
  IN
  /\ job[w].step = "checkpoint"
  /\ Advance(w, IF Mismatch(w, found)
                THEN Deferred(w, job[w].clock)
                ELSE [job[w] EXCEPT !.step = "read", !.base = base,
                        !.queries = <<[from |-> WindowStart(base), until |-> job[w].end]>>])
  /\ UNCHANGED <<now, visible, durable, tick, queriedThrough, faults>>

queryChunk(q) == {f \in visible : q.from <= f.at /\ f.at < q.until}

(* ErrWindowSaturated: the query may have been cut off at its limit.        *)
Saturated(rows) == Cardinality(rows) >= MaxRows

(* ErrWALIdentityUnavailable: a row without WAL identity fails the read.    *)
WALIdentityUnavailable(rows) == \E f \in rows : f.kind = "unordered"

Middle(q) == q.from + ((q.until - q.from) \div 2)
Splittable(q) == Middle(q) > q.from /\ q.until > Middle(q)
Halves(q) == <<[from |-> q.from, until |-> Middle(q)], [from |-> Middle(q), until |-> q.until]>>

(* Mutant: rows of one frame are all kept.                                  *)
Deduplicated_Never(rows) == rows

(* The first row of every frame.                                            *)
Deduplicated(rows) == {f \in rows : \A g \in rows : g.id = f.id => ~Before(g, f)}

evaluableSuffix(w, rows) ==
  {f \in rows : /\ f.kind = "own"
                /\ AuthorityFrom <= f.at /\ f.at < job[w].until
                /\ job[w].base # NoCursor => afterCheckpoint(f, job[w].base)}

(* The whole window is read: its evaluable frames are the batch.            *)
ReadDone(w, rows) ==
  LET batch == evaluableSuffix(w, Deduplicated(rows)) IN
  IF batch = {} THEN Deferred(w, job[w].clock)
  ELSE [job[w] EXCEPT !.step = "commit", !.queries = <<>>, !.batch = batch]

(* One query of readComplete: a saturated window is replaced by its halves, *)
(* the earlier one first, until it is a single instant.  A missing WAL      *)
(* identity is terminal: the worker stops and its lease runs out.           *)
ReadPositions(w) ==
  /\ job[w].step = "read"
  /\ LET q == Head(job[w].queries)
         rest == Tail(job[w].queries)
         rows == queryChunk(q)
         read == job[w].batch \cup rows
     IN  \/ /\ Saturated(rows) /\ Splittable(q)
            /\ Advance(w, [job[w] EXCEPT !.queries = Halves(q) \o rest])
         \/ /\ Saturated(rows) /\ ~Splittable(q)
            /\ Advance(w, Deferred(w, job[w].clock))
         \/ /\ ~Saturated(rows) /\ WALIdentityUnavailable(rows)
            /\ Advance(w, Stopped)
         \/ /\ ~Saturated(rows) /\ ~WALIdentityUnavailable(rows)
            /\ Advance(w, IF rest = <<>> THEN ReadDone(w, read)
                          ELSE [job[w] EXCEPT !.queries = rest, !.batch = read])
  /\ queriedThrough' = job[w].end
  /\ UNCHANGED <<now, visible, durable, tick, faults>>

(* CommitEvaluation: fenced by lease, revision, authority and cursor.  A    *)
(* refused commit changes nothing, and the claim is not deferred.           *)
Committable(w, last) ==
  /\ HoldsLease(w)
  /\ revision = job[w].revision
  /\ AuthorityFrom <= last.at /\ last.at < authorityUntil
  /\ \A k \in Newest(checkpoints) : Before(k, last)

CommitEvaluation(w) ==
  /\ job[w].step = "commit"
  /\ \E last \in Newest(job[w].batch) :
       IF Committable(w, last)
       THEN /\ revision' = revision + 1
            /\ checkpoints' = checkpoints \cup
                 {[revision |-> revision + 1, at |-> last.at, pos |-> last.pos]}
            /\ evaluated' = evaluated \cup
                 {[frame |-> f, revision |-> revision + 1] : f \in job[w].batch}
            /\ ReleaseLease(job[w].clock + PollInterval)
       ELSE UNCHANGED durable
  /\ Advance(w, Idle)
  /\ UNCHANGED <<now, visible, tick, queriedThrough, faults>>

DeferAssignmentEvaluation(w) ==
  /\ job[w].step = "defer"
  /\ IF HoldsLease(w) /\ revision = job[w].revision /\ WithinGrace
     THEN ReleaseLease(job[w].clock + PollInterval) /\ UNCHANGED revision
     ELSE UNCHANGED rowVars
  /\ Advance(w, Idle)
  /\ UNCHANGED <<now, visible, checkpoints, evaluated, tick, queriedThrough, faults>>

(* A failed checkpoint or telemetry read defers the claim.                  *)
DependencyFails(w) ==
  /\ job[w].step \in {"checkpoint", "read"}
  /\ faults < MaxFaults
  /\ faults' = faults + 1
  /\ Advance(w, Deferred(w, job[w].clock))
  /\ UNCHANGED <<now, visible, durable, tick, queriedThrough>>

(* A crash, a failed renewal, commit or deferral: the claim is dropped and  *)
(* the lease is left to expire.  A restarted worker polls at once, a        *)
(* running one on its next tick.                                            *)
Abandon(w) ==
  /\ job[w].step \notin {"idle", "stopped"}
  /\ faults < MaxFaults
  /\ faults' = faults + 1
  /\ Advance(w, Idle)
  /\ \E next \in {now, tick[w]} : tick' = [tick EXCEPT ![w] = next]
  /\ UNCHANGED <<now, visible, durable, queriedThrough>>

-----------------------------------------------------------------------------
(* The environment                                                         *)

(* CutoverAssignment of a newer generation, as this generation sees it: the *)
(* authority is closed after everything evaluated, the lease is revoked.    *)
Cutover(at) ==
  /\ live
  /\ at <= now /\ AuthorityFrom < at /\ at <= authorityUntil
  /\ \A k \in checkpoints : k.at < at
  /\ live' = FALSE
  /\ authorityUntil' = at
  /\ leaseOwner' = NoWorker
  /\ leaseUntil' = NoTime
  /\ UNCHANGED <<now, visible, leaseGeneration, revision, nextEvaluationAt, checkpoints,
                 evaluated, tick, job, queriedThrough, faults>>

(* InfluxDB exposes rows after their event time, in any order; an own frame *)
(* in time, but not every row of it.                                        *)
Ingest(f) ==
  /\ f \notin visible
  /\ f.at <= now
  /\ visible' = visible \cup {f}
  /\ UNCHANGED <<now, durable, tick, job, queriedThrough, faults>>

Tick ==
  /\ now < MaxTime
  /\ \A f \in Frames : f.kind = "own" /\ f.at + VisibilityDelay <= now
                      => \E g \in visible : g.id = f.id
  /\ now' = now + 1
  /\ UNCHANGED <<visible, durable, tick, job, queriedThrough, faults>>

ProcessClaim(w) ==
  \/ ChooseWindow(w)
  \/ RestoreCheckpoint(w)
  \/ ReadPositions(w)
  \/ CommitEvaluation(w)
  \/ DeferAssignmentEvaluation(w)

Next ==
  \/ \E w \in Workers : \/ Poll(w) \/ ProcessClaim(w) \/ RenewAssignmentLease(w)
                         \/ DependencyFails(w) \/ Abandon(w)
  \/ \E at \in 0..MaxTime : Cutover(at)
  \/ \E f \in Frames : Ingest(f)
  \/ Tick

Spec == Init /\ [][Next]_vars

(* Nothing fails, no worker is late for a tick, and a claim takes at most   *)
(* Latency.                                                                 *)
PunctualTick ==
  /\ \A w \in Workers :
       \/ job[w].step = "idle" /\ tick[w] > now
       \/ job[w].step = "claimed" /\ now < leaseUntil - LeaseDuration + Latency
  /\ Tick

Punctual ==
  \/ \E w \in Workers : Poll(w) \/ ProcessClaim(w)
  \/ \E f \in Frames : Ingest(f)
  \/ PunctualTick

PunctualSpec == Init /\ [][Punctual]_vars

-----------------------------------------------------------------------------
(* Properties                                                              *)

(* processClaim "evaluates only observations canonically after the durable  *)
(* cursor" (docs/conformance-design.md): however claims expire and are      *)
(* taken over, and however often it was logged, no frame is evaluated       *)
(* twice, later commits only evaluate later frames, and every frame is the  *)
(* assignment's own and lies within its authority as a later cutover left   *)
(* it.                                                                      *)
EvaluatedOnceInOrder ==
  /\ \A a, b \in evaluated :
       /\ a.frame.id = b.frame.id => a = b
       /\ a.revision < b.revision => Before(a.frame, b.frame)
  /\ \A a \in evaluated :
       /\ a.frame.kind = "own"
       /\ AuthorityFrom <= a.frame.at /\ a.frame.at < authorityUntil

(* The evaluator state a worker restored under its claim is still the       *)
(* newest one for as long as its commit would pass the lease and revision   *)
(* fence, also when its clock disagrees with the clock of the worker that   *)
(* wrote it (the checkpoint mismatch test of processClaim).                 *)
RestoresNewestState ==
  \A w \in Workers :
    job[w].step \in {"read", "commit"} /\ HoldsLease(w) /\ revision = job[w].revision
      => IF checkpoints = {} THEN job[w].base = NoCursor ELSE job[w].base \in Newest(checkpoints)

(* The settle delay covers the visibility delay and a clock that is ahead.  *)
VisibleInTime == \A w \in Workers : VisibilityDelay + Skew[w] <= SettleDelay

(* The settle delay does its work: when telemetry becomes visible in time,  *)
(* no frame of the assignment's authority is left behind a checkpoint       *)
(* without having been evaluated, whatever becomes visible between the      *)
(* queries of a split window (the query window of processClaim, readComplete*)
(* and its refusal of an instant that cannot be split).                     *)
NothingIsSkipped ==
  VisibleInTime =>
    \A f \in Frames :
      /\ f.kind = "own"
      /\ AuthorityFrom <= f.at
      /\ \E k \in checkpoints : ~Before(k, f)
      => \E e \in evaluated : e.frame.id = f.id

(* docs/configuration.md:58: an ended interval "remains claimable for the   *)
(* settle delay plus one poll interval so at least one scheduled query can  *)
(* reach the final [last checkpoint, authority_until) tail".  Once that     *)
(* grace is over, the last query of the polling workers has reached the end *)
(* of authority.                                                            *)
FinalQueryReachesEnd ==
  now > authorityUntil + FinalizationGrace /\ (\A w \in Workers : job[w].step = "idle")
    => queriedThrough = authorityUntil
=============================================================================
