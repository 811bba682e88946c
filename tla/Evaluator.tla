------------------------------ MODULE Evaluator ------------------------------
(***************************************************************************)
(* The event-time evaluator (internal/evaluator/evaluator.go) of one       *)
(* assignment generation: which volumes an observation is compared with,   *)
(* the evidence for each violation type, the hysteresis of its incident    *)
(* state machine, the overall condition and the transitions of a batch.    *)
(*                                                                         *)
(* Floating-point geometry is data.  A reading gives, for each volume, what *)
(* pointInPolygon, distanceToRingMeters and altitudeDeviationFromVolume     *)
(* return; distances are small naturals and tolerances are in their scale. *)
(* The distance is the one to the ring, which is positive inside it too.    *)
(***************************************************************************)
EXTENDS Integers, Sequences, FiniteSets

CONSTANTS
  Volumes,               \* sequence of [startsAt, endsAt, altitudeReference]
  EffectiveFrom, EffectiveUntil,
  HorizontalTolerance, VerticalTolerance,
  OpenAfterSamples, RecoverAfterSamples,
  Readings,              \* what an observation can read: see ReadingShape
  MaxAdvance,            \* bound on the event time a batch covers
  MaxBatch,              \* bound on the observations of one batch
  MaxObservations        \* bound on the observations of a behaviour

ASSUME PolicyAssumption ==
  /\ OpenAfterSamples \in Nat \ {0} /\ RecoverAfterSamples \in Nat \ {0}
  /\ HorizontalTolerance \in Nat /\ VerticalTolerance \in Nat

ASSUME AssignmentAssumption ==
  /\ EffectiveFrom \in Nat /\ EffectiveUntil \in Nat /\ EffectiveFrom < EffectiveUntil
  /\ Volumes \in Seq([startsAt : Nat, endsAt : Nat, altitudeReference : {"msl", "agl"}])
  /\ Len(Volumes) > 0
  /\ \A i \in DOMAIN Volumes : Volumes[i].startsAt < Volumes[i].endsAt

(* AltitudeKnown = FALSE is the reference "unknown".                        *)
ReadingShape(r) ==
  /\ r.inside \in [DOMAIN Volumes -> BOOLEAN]
  /\ r.distance \in [DOMAIN Volumes -> Nat]
  /\ r.deviation \in [DOMAIN Volumes -> Nat]
  /\ r.altitudeReference \in {"msl", "agl", "unknown"}

ASSUME ReadingsAssumption == \A r \in Readings : ReadingShape(r)
ASSUME StreamAssumption == MaxAdvance \in Nat /\ MaxBatch \in Nat /\ MaxObservations \in Nat

ViolationTypes == {"lateral", "vertical", "temporal"}
Phases == {"clear", "suspected", "open", "recovering"}
Conditions == {"conforming", "suspected", "non_conforming", "recovering", "unknown"}

NoTime == -1    \* the zero time
NoFrame == 0    \* the empty frame identifier

VARIABLES
  frames,       \* the observations evaluated so far: [at, reading]; the index is the FrameID
  violations,   \* EvaluatorState.Violations, a map from some violation types
  transitions,  \* every transition emitted so far
  condition,    \* Condition of the last evaluation
  causalFrom,   \* CausalFrom of the last evaluation
  batchFrom     \* index of the first observation of the last batch

vars == <<frames, violations, transitions, condition, causalFrom, batchFrom>>

IncidentStates ==
  [phase : Phases, openingFrame : Nat, outside : Nat, inside : Nat,
   firstSuspectedAt : Nat \cup {NoTime}, openedAt : Nat \cup {NoTime}, lastObservedAt : Nat]

(* The state advance() finds for a violation that is not in the map.        *)
ZeroState ==
  [phase |-> "", openingFrame |-> NoFrame, outside |-> 0, inside |-> 0,
   firstSuspectedAt |-> NoTime, openedAt |-> NoTime, lastObservedAt |-> NoTime]

(* Mutant: the reset forgets the phase.                                     *)
ClearState_NoPhase(at) == [ZeroState EXCEPT !.lastObservedAt = at]

ClearState(at) == [ZeroState EXCEPT !.phase = "clear", !.lastObservedAt = at]

-----------------------------------------------------------------------------
(* Evidence                                                                *)

Within(at, from, until) == from <= at /\ at < until

InEffect(at) == Within(at, EffectiveFrom, EffectiveUntil)

ActiveVolumes(at) ==
  {i \in DOMAIN Volumes : Within(at, Volumes[i].startsAt, Volumes[i].endsAt)}

(* After every volume has ended: the one that ended last, if it is unique.  *)
terminalOverrunVolumes(at) ==
  {i \in DOMAIN Volumes :
     /\ InEffect(at)
     /\ at >= Volumes[i].endsAt
     /\ \A j \in DOMAIN Volumes \ {i} : Volumes[j].endsAt < Volumes[i].endsAt}

SpatialVolumes(at) ==
  IF ActiveVolumes(at) # {} THEN ActiveVolumes(at) ELSE terminalOverrunVolumes(at)

InsideLateral(r, i) == r.inside[i] \/ r.distance[i] <= HorizontalTolerance

(* Volumes whose altitude reference is the one of the observation.          *)
Compatible(o) == {i \in SpatialVolumes(o.at) : Volumes[i].altitudeReference = o.reading.altitudeReference}

(* One and the same volume satisfies both bounds.                           *)
JointPass(o) ==
  \E i \in Compatible(o) :
    InsideLateral(o.reading, i) /\ o.reading.deviation[i] <= VerticalTolerance

Excess(value, tolerance) == IF value > tolerance THEN value - tolerance ELSE 0

Score(r, i) ==
  Excess(r.distance[i], HorizontalTolerance) + Excess(r.deviation[i], VerticalTolerance)

(* The first of the compatible volumes with the smallest score.             *)
Best(o) ==
  CHOOSE i \in Compatible(o) :
    \A j \in Compatible(o) \ {i} :
      \/ Score(o.reading, i) < Score(o.reading, j)
      \/ Score(o.reading, i) = Score(o.reading, j) /\ i < j

TemporalBreach(o) == ~InEffect(o.at) \/ ActiveVolumes(o.at) = {}

LateralBreach(o) ==
  IF Compatible(o) = {}
  THEN \A i \in SpatialVolumes(o.at) : ~InsideLateral(o.reading, i)
  ELSE ~JointPass(o) /\ o.reading.distance[Best(o)] > HorizontalTolerance

(* Mutant: each bound may be satisfied by a volume of its own.              *)
VerticalBreach_AnyVolume(o) ==
  \A i \in Compatible(o) : o.reading.deviation[i] > VerticalTolerance

VerticalBreach(o) ==
  ~JointPass(o) /\ o.reading.deviation[Best(o)] > VerticalTolerance

Known(v, o) ==
  CASE v = "temporal" -> TRUE
    [] v = "lateral" -> SpatialVolumes(o.at) # {}
    [] v = "vertical" -> Compatible(o) # {}

Breached(v, o) ==
  CASE v = "temporal" -> TemporalBreach(o)
    [] v = "lateral" -> LateralBreach(o)
    [] v = "vertical" -> VerticalBreach(o)

-----------------------------------------------------------------------------
(* The incident state machine                                              *)

Opened(v, frame) == [violation |-> v, transition |-> "opened", frame |-> frame, openingFrame |-> frame]

(* Mutant: a resolution carries its own frame as the occurrence.            *)
Resolved_OwnFrame(v, frame, opening) ==
  [violation |-> v, transition |-> "resolved", frame |-> frame, openingFrame |-> frame]

Resolved(v, frame, opening) ==
  [violation |-> v, transition |-> "resolved", frame |-> frame, openingFrame |-> opening]

Result(s, ts) == [state |-> s, transitions |-> ts]

(* Mutant: the inside samples are not counted afresh after a breach.        *)
CountOutside_KeepsInside(s, at) == [s EXCEPT !.outside = @ + 1, !.lastObservedAt = at]

CountOutside(s, at) == [s EXCEPT !.inside = 0, !.outside = @ + 1, !.lastObservedAt = at]

advanceOutside(v, s, frame, at) ==
  LET counted == CountOutside(s, at)
      moved ==
        CASE s.phase \in {"", "clear"} ->
               [counted EXCEPT !.phase = "suspected", !.firstSuspectedAt = at]
          [] s.phase = "recovering" -> [counted EXCEPT !.phase = "open"]
          [] OTHER -> counted
  IN  IF moved.phase = "suspected" /\ moved.outside >= OpenAfterSamples
      THEN Result([moved EXCEPT !.phase = "open", !.openedAt = moved.firstSuspectedAt,
                                !.openingFrame = frame],
                  <<Opened(v, frame)>>)
      ELSE Result(moved, <<>>)

advanceInside(v, s, frame, at) ==
  LET counted == [s EXCEPT !.outside = 0, !.inside = @ + 1, !.lastObservedAt = at]
      moved == IF s.phase = "open" THEN [counted EXCEPT !.phase = "recovering"] ELSE counted
  IN  CASE s.phase = "suspected" -> Result(ClearState(at), <<>>)
        [] moved.phase = "recovering" /\ moved.inside >= RecoverAfterSamples ->
             Result(ClearState(at), <<Resolved(v, frame, s.openingFrame)>>)
        [] s.phase = "" -> Result([moved EXCEPT !.phase = "clear"], <<>>)
        [] OTHER -> Result(moved, <<>>)

advance(v, s, breached, frame, at) ==
  IF breached THEN advanceOutside(v, s, frame, at) ELSE advanceInside(v, s, frame, at)

StateOf(states, v) == IF v \in DOMAIN states THEN states[v] ELSE ZeroState

(* What is left of an unevaluated violation: a clear phase is removed.      *)
markNotEvaluated(states, v) ==
  IF StateOf(states, v).phase \in {"", "clear"} THEN {} ELSE {v}

(* One observation: EvaluatorState and transitions before and after.        *)
Evaluate(frame, o, states) ==
  LET next == [v \in ViolationTypes |->
                 advance(v, StateOf(states, v), Breached(v, o), frame, o.at)]
      known == {v \in ViolationTypes : Known(v, o)}
      kept == UNION {markNotEvaluated(states, v) : v \in ViolationTypes \ known}
      Emitted(v) == IF v \in known THEN next[v].transitions ELSE <<>>
  IN  [states |-> [v \in known \cup kept |-> IF v \in known THEN next[v].state ELSE states[v]],
       transitions |-> Emitted("lateral") \o Emitted("vertical") \o Emitted("temporal")]

(* Mutant: a recovering incident hides a suspected one.                     *)
ConditionStep_LastWins(c, phase) ==
  CASE phase = "open" -> "non_conforming"
    [] phase = "suspected" /\ c # "non_conforming" -> "suspected"
    [] phase = "recovering" /\ c # "non_conforming" -> "recovering"
    [] OTHER -> c

ConditionStep(c, phase) ==
  CASE phase = "open" -> "non_conforming"
    [] phase = "suspected" /\ c # "non_conforming" -> "suspected"
    [] phase = "recovering" /\ c = "conforming" -> "recovering"
    [] OTHER -> c

(* The orders in which a Go map of these keys may be iterated: each once.   *)
Orders(keys) ==
  {s \in [1 .. Cardinality(keys) -> keys] : \A v \in keys : \E i \in DOMAIN s : s[i] = v}

(* The condition after each step of the iteration.                          *)
ConditionsOver(states, order) ==
  LET over[n \in 0 .. Len(order)] ==
        IF n = 0 THEN "conforming" ELSE ConditionStep(over[n - 1], states[order[n]].phase)
  IN  over

Condition(o, states, order) ==
  LET c == ConditionsOver(states, order)[Len(order)]
  IN  IF c = "conforming" /\ ~Known("vertical", o) THEN "unknown" ELSE c

Minimum(S) == CHOOSE x \in S : \A y \in S : x <= y

(* Mutant: retained incident state is not part of the evidence.             *)
earliestCausalTimestamp_BatchOnly(states, fallback) == fallback

earliestCausalTimestamp(states, fallback) ==
  LET active == {v \in DOMAIN states : states[v].phase # "clear"}
      times == {states[v].firstSuspectedAt : v \in active} \cup {states[v].openedAt : v \in active}
  IN  Minimum({fallback} \cup (times \ {NoTime}))

-----------------------------------------------------------------------------

Init ==
  /\ frames = <<>>
  /\ violations = [v \in {} |-> ZeroState]
  /\ transitions = <<>>
  /\ condition = "unknown"
  /\ causalFrom = NoTime
  /\ batchFrom = 0

(* The state and the transitions after each observation of a batch.         *)
Evaluations(batch) ==
  LET run[n \in 0 .. Len(batch)] ==
        IF n = 0
        THEN [states |-> violations, transitions |-> transitions]
        ELSE LET r == Evaluate(Len(frames) + n, batch[n], run[n - 1].states)
             IN  [states |-> r.states, transitions |-> run[n - 1].transitions \o r.transitions]
  IN  run

(* A batch of observations in event-time order, from the state so far.      *)
EvaluateBatch(batch) ==
  /\ batch # <<>>
  /\ \A n \in 2 .. Len(batch) : batch[n - 1].at <= batch[n].at
  /\ \E last \in {Evaluations(batch)[Len(batch)]} :
       /\ violations' = last.states
       /\ transitions' = last.transitions
       /\ condition' \in {Condition(batch[Len(batch)], last.states, order) :
                             order \in Orders(DOMAIN last.states)}
  /\ frames' = frames \o batch
  /\ causalFrom' = earliestCausalTimestamp(violations, batch[1].at)
  /\ batchFrom' = Len(frames) + 1

(* The observations that can follow: later, or at the same instant.         *)
Watermark == IF frames = <<>> THEN EffectiveFrom ELSE frames[Len(frames)].at

Observations == [at : Watermark .. Watermark + MaxAdvance, reading : Readings]

Next ==
  \E n \in 1 .. MaxBatch :
    /\ Len(frames) + n <= MaxObservations
    /\ \E batch \in [1 .. n -> Observations] : EvaluateBatch(batch)

Spec == Init /\ [][Next]_vars

-----------------------------------------------------------------------------
(* Properties                                                              *)

TypeOK ==
  /\ \A i \in DOMAIN frames : frames[i].at \in Nat /\ frames[i].reading \in Readings
  /\ DOMAIN violations \subseteq ViolationTypes
  /\ \A v \in DOMAIN violations : violations[v] \in IncidentStates
  /\ condition \in Conditions

(* The frames of fr, up to the last, that were breaches of v, and the ones  *)
(* that were evidence of none.                                              *)
OutsideFrames(fr, last, v) == {k \in 1 .. last : Known(v, fr[k]) /\ Breached(v, fr[k])}
InsideFrames(fr, last, v) == {k \in 1 .. last : Known(v, fr[k]) /\ ~Breached(v, fr[k])}

(* From frame i to frame j there are n of these, and none of the others.    *)
InARow(n, these, others, i, j) ==
  Cardinality(these \cap (i .. j)) >= n /\ others \cap (i .. j) = {}

(* What hysteresis means, without a state machine: OpenAfterSamples         *)
(* breaches in a row, and not RecoverAfterSamples others in a row since.    *)
InIncident(outside, inside) ==
  \E i, j \in outside :
    /\ InARow(OpenAfterSamples, outside, inside, i, j)
    /\ ~\E k, l \in inside : j < k /\ InARow(RecoverAfterSamples, inside, outside, k, l)

(* The latest evidence is a breach.                                         *)
EndsOutside(outside, inside) == \E k \in outside : \A j \in inside : j < k

(* The phase that the frames of fr up to the last call for.                 *)
PhaseOfHistory(fr, last, v) ==
  LET outside == OutsideFrames(fr, last, v)
      inside == InsideFrames(fr, last, v)
  IN  IF InIncident(outside, inside)
      THEN (IF EndsOutside(outside, inside) THEN "open" ELSE "recovering")
      ELSE (IF EndsOutside(outside, inside) THEN "suspected" ELSE "clear")

(* The phase advance() has arrived at is the one the evidence calls for,    *)
(* however the observations were cut into batches, and observations without *)
(* evidence neither open, nor resolve, nor forget anything: a phase is      *)
(* absent only when it is clear and was not evaluated at the watermark.     *)
PhaseFollowsEvidence ==
  \A v \in ViolationTypes :
    IF v \in DOMAIN violations
    THEN violations[v].phase = PhaseOfHistory(frames, Len(frames), v)
    ELSE /\ PhaseOfHistory(frames, Len(frames), v) = "clear"
         /\ frames # <<>> => ~Known(v, frames[Len(frames)])

(* The incidents of a violation never overlap: its transitions alternate,   *)
(* and a resolution names the frame that opened the incident it resolves.   *)
(* writeEvaluation relies on it (store.go:1038, "matching opening not       *)
(* found") and so does the unique index on open incidents.                  *)
IncidentsAlternate ==
  \A j \in DOMAIN transitions :
    LET t == transitions[j]
        before == {i \in 1 .. j - 1 :
                     /\ transitions[i].violation = t.violation
                     /\ \A k \in i + 1 .. j - 1 : transitions[k].violation # t.violation}
    IN  \/ /\ t.transition = "opened" /\ t.openingFrame = t.frame
           /\ \A i \in before : transitions[i].transition = "resolved"
        \/ /\ t.transition = "resolved"
           /\ \E i \in before : /\ transitions[i].transition = "opened"
                               /\ transitions[i].frame = t.openingFrame
                               /\ t.openingFrame < t.frame

(* Conforming is only said of an aircraft that one and the same active      *)
(* volume contains, in all four dimensions: the evidence of Evaluate, its   *)
(* hysteresis and its choice of the best volume never combine two volumes.  *)
ConformingMeansOneVolume ==
  condition = "conforming" =>
    LET o == frames[Len(frames)]
    IN  \E i \in ActiveVolumes(o.at) :
          /\ InEffect(o.at)
          /\ Volumes[i].altitudeReference = o.reading.altitudeReference
          /\ InsideLateral(o.reading, i)
          /\ o.reading.deviation[i] <= VerticalTolerance

(* The condition is the worst of the phases, whatever order the map of      *)
(* violations is iterated in.                                               *)
ConditionIsTheWorstPhase ==
  LET phases == {violations[v].phase : v \in DOMAIN violations}
  IN  frames # <<>> =>
        CASE "open" \in phases -> condition = "non_conforming"
          [] "open" \notin phases /\ "suspected" \in phases -> condition = "suspected"
          [] phases \cap {"open", "suspected"} = {} /\ "recovering" \in phases ->
               condition = "recovering"
          [] OTHER -> condition \in {"conforming", "unknown"}

(* CausalFrom, which the durable commit fences to the authority interval,   *)
(* is not after any observation that the result rests on: the start of an   *)
(* incident that is not clear, or the opening of one the batch resolved.    *)
CausalFromCoversEvidence ==
  frames # <<>> =>
    /\ \A i \in batchFrom .. Len(frames) : frames[i].at >= causalFrom
    /\ \A v \in DOMAIN violations :
         violations[v].phase # "clear" => violations[v].firstSuspectedAt >= causalFrom
    /\ \A i \in DOMAIN transitions :
         transitions[i].frame >= batchFrom =>
           frames[transitions[i].openingFrame].at >= causalFrom

(* What the test of the combined volumes says of its observation, "The      *)
(* point is laterally inside volume A": an observation inside the polygon   *)
(* of every volume it is compared with is no lateral deviation.             *)
InsideIsNoLateralDeviation ==
  (/\ frames # <<>>
   /\ "lateral" \in DOMAIN violations
   /\ SpatialVolumes(frames[Len(frames)].at) # {}
   /\ \A i \in SpatialVolumes(frames[Len(frames)].at) : frames[Len(frames)].reading.inside[i])
  => violations["lateral"].outside = 0

=============================================================================
