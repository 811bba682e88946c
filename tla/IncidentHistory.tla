---------------------------- MODULE IncidentHistory ----------------------------
(***************************************************************************)
(* The incident and event rows that writeEvaluation derives from the       *)
(* transitions of an evaluation (store.go:1016-1081), written by live      *)
(* commits of the current generation and by historical commits that replay *)
(* a superseded one, and the client of ListConformanceEvents that pages    *)
(* through them meanwhile (history.go, history_handler.go).                *)
(*                                                                         *)
(* One action is one transaction or one read.  Leases, cursors and         *)
(* authority fence the commits and are the subject of AssignmentStore;     *)
(* what is kept of them here is that a live commit continues from the      *)
(* newest checkpoint of the current generation, and that a historical one  *)
(* is for a superseded generation and does not end before its newest       *)
(* checkpoint.  Hysteresis is the subject of Evaluator: here a verdict     *)
(* says at which frames an incident opens or resolves, and it is made      *)
(* afresh by every evaluation, as late frames may change it on replay.     *)
(* Identifiers made by stableID are the tuples that are hashed; a frame is *)
(* its position in event-time order; of the measurements and the payload   *)
(* of a row only their conflict with a replay is kept.                     *)
(***************************************************************************)
EXTENDS Integers, Sequences, FiniteSets

CONSTANTS
  Violations,       \* violation types: their positions in the loop of Evaluate
  FrameTimes,       \* observed_at of each frame, a sequence in event-time order
  FirstFrames,      \* the first frame of each generation: a sequence
  EventRank,        \* position of an event ID in the order of its text
  Queries,          \* [generation, from, until] filters clients use
  PageSizes,        \* page sizes clients ask for; 0 asks for the default
  DefaultPageSize,  \* 50 in the code
  MaxPageSize,      \* 200 in the code
  MaxCommits        \* bound on the checkpoints of a generation

Frames == 1 .. Len(FrameTimes)
Generations == 1 .. Len(FirstFrames)
NoFrame == 0

FirstFrame(g) == FirstFrames[g]
LastFrame(g) == IF g + 1 \in Generations THEN FirstFrames[g + 1] - 1 ELSE Len(FrameTimes)

ASSUME FramesAssumption ==
  /\ FrameTimes \in Seq(Nat)
  /\ \A f \in 2 .. Len(FrameTimes) : FrameTimes[f - 1] <= FrameTimes[f]
  /\ FirstFrames \in Seq(1 .. Len(FrameTimes) + 1) /\ FirstFrames # <<>>
  /\ Violations \subseteq Nat /\ IsFiniteSet(Violations)

(* Identifiers are hashes: no two of them are the same text.                *)
EventIDs == Generations \X Violations \X {"opened", "resolved"} \X Frames

ASSUME RankAssumption ==
  /\ EventRank \in [EventIDs -> Nat]
  /\ \A a, b \in EventIDs : EventRank[a] = EventRank[b] => a = b

ASSUME PagingAssumption ==
  DefaultPageSize \in Nat \ {0} /\ MaxPageSize \in Nat /\ PageSizes \subseteq Int

VARIABLES
  current,      \* the current generation
  checkpoints,  \* per generation, the evaluator states committed: [cursor, opening]
  incidents,    \* conformance_incidents
  events,       \* conformance_events
  outcome,      \* what the last commit returned: [live, error]
  client        \* the reader of the history

store == <<current, checkpoints, incidents, events, outcome>>
vars == <<store, client>>

-----------------------------------------------------------------------------
(* The evaluation of a batch                                               *)

(* Evaluator state before the first frame of a generation.                  *)
Fresh(g) == [cursor |-> FirstFrame(g) - 1, opening |-> [v \in Violations |-> NoFrame]]

Newest(g) ==
  IF checkpoints[g] = <<>> THEN Fresh(g) ELSE checkpoints[g][Len(checkpoints[g])]

(* Evaluate goes through the violations frame by frame.                     *)
Precedes(p, q) == p[1] < q[1] \/ (p[1] = q[1] /\ p[2] < q[2])

(* The frames and violations where an incident opens or resolves, in the    *)
(* order of evaluation.                                                     *)
Moves(from, to) ==
  {moves \in UNION {[1 .. n -> (from + 1 .. to) \X Violations] :
                      n \in 0 .. (to - from) * Cardinality(Violations)} :
     \A i, j \in DOMAIN moves : i < j => Precedes(moves[i], moves[j])}

(* The transition of violation v at frame f, given the frame that opened    *)
(* its incident.                                                            *)
Transition(f, v, opening) ==
  IF opening = NoFrame
  THEN [kind |-> "opened", violation |-> v, frame |-> f, openingFrame |-> f]
  ELSE [kind |-> "resolved", violation |-> v, frame |-> f, openingFrame |-> opening]

Move(e, f, v) ==
  [opening |-> [e.opening EXCEPT ![v] = IF @ = NoFrame THEN f ELSE NoFrame],
   transitions |-> Append(e.transitions, Transition(f, v, e.opening[v]))]

(* The evaluator state and the transitions after each of the moves.         *)
Evaluations(opening, moves) ==
  LET after[n \in 0 .. Len(moves)] ==
        IF n = 0 THEN [opening |-> opening, transitions |-> <<>>]
        ELSE Move(after[n - 1], moves[n][1], moves[n][2])
  IN  after

EvaluateBatch(s, moves) == Evaluations(s.opening, moves)[Len(moves)]

-----------------------------------------------------------------------------
(* Incident and event rows                                                 *)

NoEvent == <<>>
EventID(e) == <<e.generation, e.violation, e.kind, e.frame>>

Occurrence(rows, g, v, opening) ==
  {i \in rows : i.generation = g /\ i.violation = v /\ i.openingFrame = opening}

Failed(db, error) == [db EXCEPT !.error = error]

OpeningRow(g, t) ==
  [generation |-> g, violation |-> t.violation, openingFrame |-> t.openingFrame,
   openedAt |-> FrameTimes[t.frame], state |-> "open", resolvedAt |-> 0, resolution |-> NoEvent]

(* Mutant: opening an occurrence again reopens it.                          *)
OpenIncident_Reopens(db, g, t) ==
  LET known == Occurrence(db.incidents, g, t.violation, t.openingFrame)
  IN  [db EXCEPT !.incidents = (@ \ known) \cup {OpeningRow(g, t)}]

(* INSERT ... ON CONFLICT: a known occurrence with the same opening         *)
(* evidence is left as it is; another open incident of the violation is a   *)
(* violation of the partial unique index.                                   *)
OpenIncident(db, g, t) ==
  LET known == Occurrence(db.incidents, g, t.violation, t.openingFrame)
  IN  IF \E i \in known : i.openedAt # FrameTimes[t.frame] THEN Failed(db, "message_conflict")
      ELSE IF known # {} THEN db
      ELSE IF \E i \in db.incidents :
                i.generation = g /\ i.violation = t.violation /\ i.state = "open"
      THEN Failed(db, "one_open_incident")
      ELSE [db EXCEPT !.incidents = @ \cup {OpeningRow(g, t)}]

(* SELECT ... FOR UPDATE of the occurrence a resolution belongs to.         *)
FindOpening(db, g, t) ==
  IF \E i \in Occurrence(db.incidents, g, t.violation, t.openingFrame) :
       i.openedAt <= FrameTimes[t.frame]
  THEN db ELSE Failed(db, "opening_not_found")

EventRow(g, t) ==
  [generation |-> g, violation |-> t.violation, kind |-> t.kind, frame |-> t.frame,
   incident |-> t.openingFrame, observedAt |-> FrameTimes[t.frame]]

(* Mutant: an event ID seen before is taken for a replay.                   *)
InsertEvent_AnyIncident(db, g, t) ==
  IF \E e \in db.events : EventID(e) = EventID(EventRow(g, t)) THEN db
  ELSE [db EXCEPT !.events = @ \cup {EventRow(g, t)}]

(* INSERT ... ON CONFLICT: an event seen before must be the same evidence,  *)
(* that of the same incident included.                                      *)
InsertEvent(db, g, t) ==
  LET new == EventRow(g, t)
  IN  IF \E e \in db.events : EventID(e) = EventID(new) /\ e # new
      THEN Failed(db, "message_conflict")
      ELSE [db EXCEPT !.events = @ \cup {new}]

(* Mutant: the incident row is not updated.                                 *)
ResolveIncident_Missing(db, g, t) == db

(* UPDATE of the incident: the resolution pointer moves to this event.      *)
ResolveIncident(db, g, t) ==
  [db EXCEPT !.incidents =
     {IF i \in Occurrence(@, g, t.violation, t.openingFrame)
      THEN [i EXCEPT !.state = "resolved", !.resolvedAt = FrameTimes[t.frame],
                     !.resolution = EventID(EventRow(g, t))]
      ELSE i : i \in @}]

(* One transition of writeEvaluation's loop; the first error ends it.       *)
WriteTransition(db, g, t) ==
  LET Then(d, Op(_, _, _)) == IF d.error = "none" THEN Op(d, g, t) ELSE d
  IN  IF t.kind = "opened"
      THEN Then(Then(db, OpenIncident), InsertEvent)
      ELSE Then(Then(Then(db, FindOpening), InsertEvent), ResolveIncident)

(* The rows after each transition.                                          *)
Writes(g, transitions) ==
  LET after[n \in 0 .. Len(transitions)] ==
        IF n = 0 THEN [incidents |-> incidents, events |-> events, error |-> "none"]
        ELSE IF after[n - 1].error = "none" THEN WriteTransition(after[n - 1], g, transitions[n])
        ELSE after[n - 1]
  IN  after

writeEvaluation(g, transitions) == Writes(g, transitions)[Len(transitions)]

(* Transitions found before: if they are measured differently this time,    *)
(* the payload differs from the one stored, and that is a conflict too.     *)
Remeasured(g, transitions) == {n \in DOMAIN transitions : EventRow(g, transitions[n]) \in events}

(* The transaction commits every row, or an error rolls it back.            *)
Commit(g, live, to, evaluation) ==
  LET db == writeEvaluation(g, evaluation.transitions)
      conflicts == {"message_conflict" : n \in Remeasured(g, evaluation.transitions)}
  IN
  /\ \E error \in {db.error} \cup conflicts :
       /\ outcome' = [live |-> live, error |-> error]
       /\ \/ /\ error = "none"
             /\ incidents' = db.incidents
             /\ events' = db.events
             /\ checkpoints' = [checkpoints EXCEPT ![g] =
                  Append(@, [cursor |-> to, opening |-> evaluation.opening])]
          \/ error # "none" /\ UNCHANGED <<incidents, events, checkpoints>>
  /\ UNCHANGED <<current, client>>

CommitEvaluation ==
  LET s == Newest(current) IN
  /\ Len(checkpoints[current]) < MaxCommits
  /\ \E to \in s.cursor + 1 .. LastFrame(current) : \E moves \in Moves(s.cursor, to) :
       Commit(current, TRUE, to, EvaluateBatch(s, moves))

(* The states a replay may start from: a checkpoint, or none.               *)
Restorable(g) == {Fresh(g)} \cup {checkpoints[g][i] : i \in DOMAIN checkpoints[g]}

(* A replay of a superseded generation.                                     *)
CommitHistoricalEvaluation(h) ==
  /\ h < current
  /\ Len(checkpoints[h]) < MaxCommits
  /\ \E s \in Restorable(h), to \in Newest(h).cursor .. LastFrame(h) :
       /\ s.cursor < to
       /\ \E moves \in Moves(s.cursor, to) : Commit(h, FALSE, to, EvaluateBatch(s, moves))

(* A cutover to the next generation.                                        *)
CutoverAssignment ==
  /\ current + 1 \in Generations
  /\ current' = current + 1
  /\ UNCHANGED <<checkpoints, incidents, events, outcome, client>>

-----------------------------------------------------------------------------
(* History reads                                                           *)

NoToken == [generation |-> 0]

Idle ==
  [status |-> "idle", query |-> NoToken, token |-> NoToken, seen |-> <<>>, stored |-> {}]

Matches(q, e) ==
  /\ q.generation = 0 \/ e.generation = q.generation
  /\ q.from <= e.observedAt /\ e.observedAt < q.until

Rank(e) == EventRank[EventID(e)]

(* ORDER BY observed_at DESC, event_id DESC LIMIT.                          *)
NewerThan(a, b) ==
  a.observedAt > b.observedAt \/ (a.observedAt = b.observedAt /\ Rank(a) > Rank(b))

NewestFirst(rows, limit) ==
  [n \in 1 .. (IF Cardinality(rows) < limit THEN Cardinality(rows) ELSE limit) |->
     CHOOSE e \in rows : Cardinality({d \in rows : NewerThan(d, e)}) = n - 1]

(* Mutant: the keyset is the event time alone.                              *)
AfterToken_TimeOnly(e, token) == token = NoToken \/ e.observedAt < token.at

AfterToken(e, token) ==
  \/ token = NoToken
  \/ e.observedAt < token.at
  \/ e.observedAt = token.at /\ Rank(e) < token.rank

(* Mutant: the token names the row read ahead.                              *)
NextPageToken_ReadAhead(q, rows, size) ==
  IF Len(rows) <= size THEN NoToken
  ELSE [query |-> q, at |-> rows[size + 1].observedAt, rank |-> Rank(rows[size + 1])]

(* One row more than the page is read to know whether another page follows. *)
NextPageToken(q, rows, size) ==
  IF Len(rows) <= size THEN NoToken
  ELSE [query |-> q, at |-> rows[size].observedAt, rank |-> Rank(rows[size])]

(* The page size and the filters are sound and the token was made for them. *)
historyBounds(q, token, pageSize) ==
  /\ 0 <= pageSize /\ pageSize <= MaxPageSize
  /\ q.from < q.until
  /\ token = NoToken \/ token.query = q

(* The page a client adds to what it has, with the token it had.            *)
ListConformanceEvents(q, token, pageSize) ==
  LET size == IF pageSize = 0 THEN DefaultPageSize ELSE pageSize
      found == {e \in events : Matches(q, e) /\ AfterToken(e, token)}
      rows == NewestFirst(found, size + 1)
      page == IF Len(rows) > size THEN SubSeq(rows, 1, size) ELSE rows
      next == NextPageToken(q, rows, size)
  IN  IF historyBounds(q, token, pageSize)
      THEN client' = [client EXCEPT !.status = IF next = NoToken THEN "done" ELSE "reading",
                                    !.token = next, !.seen = @ \o page, !.query = q,
                                    !.stored = IF token = NoToken
                                               THEN {e \in events : Matches(q, e)} ELSE @]
      ELSE client' = [client EXCEPT !.status = "invalid_query"]

FirstPage(q, pageSize) ==
  /\ client.status = "idle"
  /\ ListConformanceEvents(q, NoToken, pageSize)
  /\ UNCHANGED store

(* A client may follow its token with other filters and another page size.  *)
NextPage(q, pageSize) ==
  /\ client.status = "reading"
  /\ ListConformanceEvents(q, client.token, pageSize)
  /\ UNCHANGED store

-----------------------------------------------------------------------------

Init ==
  /\ current = 1
  /\ checkpoints = [g \in Generations |-> <<>>]
  /\ incidents = {}
  /\ events = {}
  /\ outcome = [live |-> FALSE, error |-> "none"]
  /\ client = Idle

Next ==
  \/ CommitEvaluation
  \/ \E h \in Generations : CommitHistoricalEvaluation(h)
  \/ CutoverAssignment
  \/ \E q \in Queries, size \in PageSizes : FirstPage(q, size) \/ NextPage(q, size)

Spec == Init /\ [][Next]_vars

-----------------------------------------------------------------------------
(* Properties                                                              *)

(* A live commit is never refused for its incident rows: the evaluator      *)
(* state in the checkpoint and the incident table agree on what is open,    *)
(* so that no opening meets another open incident and no resolution looks   *)
(* for an opening in vain (store.go:1022-1043, 001_initial.sql:108-110).    *)
(* A refusal would be repeated by every later attempt.                      *)
LiveCommitsAreNeverRefused == outcome.live => outcome.error = "none"

(* The resolution an incident points to is stored evidence of that very     *)
(* incident, not earlier than its opening, and the time shown with it is    *)
(* that event's; open incidents have none; and the opening of every         *)
(* incident is on record.  Replays that find other openings and other       *)
(* resolutions do not break this (store.go:1044-1080).                      *)
ResolutionIsEvidence ==
  \A i \in incidents :
    /\ i.state = "open" <=> i.resolution = NoEvent
    /\ i.state = "resolved" =>
         \E e \in events :
           /\ EventID(e) = i.resolution
           /\ e.generation = i.generation /\ e.violation = i.violation
           /\ e.kind = "resolved" /\ e.incident = i.openingFrame
           /\ e.observedAt = i.resolvedAt /\ i.openedAt <= i.resolvedAt
    /\ \E e \in events :
         /\ e.generation = i.generation /\ e.violation = i.violation
         /\ e.kind = "opened" /\ e.frame = i.openingFrame /\ e.observedAt = i.openedAt

(* Evidence is immutable: no replay removes or rewrites an event, an        *)
(* incident keeps its opening, and a resolved incident is not reopened by   *)
(* replaying its opening (store.go:1023-1031, 1050-1064;                    *)
(* docs/assignment-cutover.md "retaining every prior resolution event").    *)
EvidenceIsImmutable ==
  [][/\ events \subseteq events'
     /\ \A i \in incidents : \E j \in incidents' :
          /\ i.generation = j.generation /\ i.violation = j.violation
          /\ i.openingFrame = j.openingFrame /\ i.openedAt = j.openedAt
          /\ i.state = "resolved" => j.state = "resolved"]_vars

Seen == {client.seen[i] : i \in DOMAIN client.seen}

(* A client that follows its tokens to the end has, newest first and each   *)
(* once, every event that was stored and matched its filters when it read   *)
(* page one, whatever commits came between the pages; no page mixes the     *)
(* filters of two queries (history.go:97-102, 114-156).                      *)
PagesAreComplete ==
  /\ \A i \in 2 .. Len(client.seen) :
       NewerThan(client.seen[i - 1], client.seen[i])
  /\ \A i \in DOMAIN client.seen : Matches(client.query, client.seen[i])
  /\ client.status = "done" => client.stored \subseteq Seen

(* A client that read a history to the end and found a resolution also      *)
(* found the opening of its incident, if that is earlier and matches the    *)
(* filters, even when both were committed between two of its pages: the     *)
(* pages go back in time (history.go:121-122).                              *)
OpeningIsSeen ==
  client.status = "done" =>
    \A e \in Seen :
      e.kind = "resolved" =>
        \E o \in events :
          /\ o.generation = e.generation /\ o.violation = e.violation
          /\ o.kind = "opened" /\ o.frame = e.incident
          /\ o.observedAt < e.observedAt /\ Matches(client.query, o) => o \in Seen

=============================================================================
