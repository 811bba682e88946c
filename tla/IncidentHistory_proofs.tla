------------------------ MODULE IncidentHistory_proofs ------------------------
(***************************************************************************)
(* Proofs about IncidentHistory, second part: commits, cutovers and the    *)
(* pages of a reader keep the inductive invariant, and what follows.       *)
(***************************************************************************)
EXTENDS IncidentHistory_base_proofs

-----------------------------------------------------------------------------
(* The store *)

(* Checkpoints are evaluator states, and so is the start of a generation.   *)
LEMMA StateTypes ==
  ASSUME checkpoints \in [Generations -> Seq(States)], NEW g \in Generations
  PROVE  /\ Fresh(g) \in States /\ Newest(g) \in States
         /\ Restorable(g) \subseteq States
         /\ LastFrame(g) \in 0 .. Len(FrameTimes)
<1>1. checkpoints[g] \in Seq(States)
  BY Zenon
<1>2. Fresh(g) \in States
  <2>1. FirstFrames[g] - 1 \in 0 .. Len(FrameTimes) /\ NoFrame \in 0 .. Len(FrameTimes)
    BY FrameFacts DEF NoFrame
  <2> QED BY Zenon, <2>1 DEF Fresh, FirstFrame, States, Openings
<1>3. Newest(g) \in States
  BY <1>1, <1>2 DEF Newest
<1>4. Restorable(g) \subseteq States
  BY <1>1, <1>2 DEF Restorable
<1>5. LastFrame(g) \in 0 .. Len(FrameTimes)
  <2>1. CASE g + 1 \in Generations
    <3>1. FirstFrames[g + 1] \in 1 .. Len(FrameTimes) + 1
      BY Zenon, <2>1, FrameFacts
    <3>2. LastFrame(g) = FirstFrames[g + 1] - 1
      BY Zenon, <2>1 DEF LastFrame
    <3> QED BY <3>1, <3>2, FrameFacts
  <2>2. CASE g + 1 \notin Generations
    <3>1. LastFrame(g) = Len(FrameTimes)
      BY Zenon, <2>2 DEF LastFrame
    <3> QED BY <3>1, FrameFacts
  <2> QED BY Zenon, <2>1, <2>2
<1> QED BY Zenon, <1>2, <1>3, <1>4, <1>5

(* What a commit of generation g may do.                                    *)
Committing(g, to, evaluation) ==
  /\ current' = current /\ client' = client
  /\ Evidence(Stored') /\ Kept(Stored, Stored', g)
  /\ \/ checkpoints' = checkpoints /\ Stored' = Stored /\ outcome'.error # "none"
     \/ /\ checkpoints' = [checkpoints EXCEPT ![g] =
             Append(@, [cursor |-> to, opening |-> evaluation.opening])]
        /\ Stored' = writeEvaluation(g, evaluation.transitions)

(* A batch of moves evaluates to openings and transitions.                  *)
LEMMA BatchTypes ==
  ASSUME NEW s \in States, NEW to \in 0 .. Len(FrameTimes), NEW moves \in Moves(s.cursor, to),
         NEW evaluation, evaluation = EvaluateBatch(s, moves)
  PROVE  evaluation.opening \in Openings /\ evaluation.transitions \in Seq(Transitions)
<1>1. s.cursor \in 0 .. Len(FrameTimes) /\ s.opening \in Openings
  BY Zenon DEF States
<1>2. moves \in Seq(Steps)
  BY Zenon, <1>1, MovesFacts
<1>3. Len(moves) \in 0 .. Len(moves)
  BY <1>2
<1> QED BY Zenon, <1>1, <1>2, <1>3, EvaluationFacts DEF EvaluateBatch

(* A commit adds evidence or changes nothing.                               *)
LEMMA CommitStep ==
  ASSUME Evidence(Stored), NEW g \in Generations, NEW live, NEW to, NEW evaluation,
         evaluation.transitions \in Seq(Transitions), Commit(g, live, to, evaluation)
  PROVE  Committing(g, to, evaluation)
<1> DEFINE db == writeEvaluation(g, evaluation.transitions)
           conflicts == {"message_conflict" : n \in Remeasured(g, evaluation.transitions)}
<1>1. current' = current /\ client' = client
  BY Zenon DEF Commit
<1>2. PICK error \in {db.error} \cup conflicts :
        /\ outcome' = [live |-> live, error |-> error]
        /\ \/ /\ error = "none"
              /\ incidents' = db.incidents
              /\ events' = db.events
              /\ checkpoints' = [checkpoints EXCEPT ![g] =
                   Append(@, [cursor |-> to, opening |-> evaluation.opening])]
           \/ error # "none" /\ UNCHANGED <<incidents, events, checkpoints>>
  BY Zenon DEF Commit
<1>3. CASE error = "none"
  <2>1. error = db.error
    <3>1. \A x \in conflicts : x = "message_conflict"
      BY Zenon
    <3>2. "message_conflict" # "none"
      BY Zenon
    <3> HIDE DEF conflicts, db
    <3> QED BY Zenon, <1>2, <1>3, <3>1, <3>2
  <2> DEFINE ts == evaluation.transitions
  <2>2. ts \in Seq(Transitions) /\ db = writeEvaluation(g, ts)
    BY Zenon
  <2> HIDE DEF db, ts
  <2>3. Evidence(db) /\ Kept(Stored, db, g)
    BY Zenon, <1>3, <2>1, <2>2, WritesAreEvidence
  <2>4. db = [incidents |-> db.incidents, events |-> db.events, error |-> db.error]
    BY Zenon, <2>3 DEF Evidence, Databases
  <2>5. Stored' = [incidents |-> incidents', events |-> events', error |-> "none"]
    BY Zenon DEF Stored
  <2>6. /\ incidents' = db.incidents /\ events' = db.events
        /\ checkpoints' = [checkpoints EXCEPT ![g] =
             Append(@, [cursor |-> to, opening |-> evaluation.opening])]
    BY Zenon, <1>2, <1>3
  <2>7. Stored' = db
    BY Zenon, <1>3, <2>1, <2>4, <2>5, <2>6
  <2> QED BY Zenon, <1>1, <2>3, <2>6, <2>7 DEF Committing, db, ts
<1>4. CASE error # "none"
  <2>1. incidents' = incidents /\ events' = events /\ checkpoints' = checkpoints
    BY Zenon, <1>2, <1>4
  <2>2. Stored' = Stored
    BY Zenon, <2>1 DEF Stored
  <2>3. Kept(Stored, Stored, g)
    BY Zenon DEF Kept
  <2>4. outcome'.error # "none"
    <3> HIDE DEF db, conflicts
    <3> QED BY Zenon, <1>2, <1>4
  <2> QED BY Zenon, <1>1, <2>1, <2>2, <2>3, <2>4 DEF Committing
<1> QED BY Zenon, <1>3, <1>4

(* A live commit is not refused, and leaves evaluator and rows in           *)
(* agreement.                                                               *)
LEMMA CommitEvaluationStep ==
  ASSUME StoreInv, CommitEvaluation
  PROVE  StoreInv' /\ Kept(Stored, Stored', current) /\ Evidence(Stored') /\ client' = client
<1> DEFINE s == Newest(current)
<1>1. /\ current \in Generations /\ checkpoints \in [Generations -> Seq(States)]
      /\ Evidence(Stored)
      /\ \A g \in Generations : g > current => checkpoints[g] = <<>>
      /\ \A e \in events : /\ e.generation <= current
                           /\ e.generation = current => e.frame <= s.cursor
      /\ Agrees(Stored, current, s.opening)
  BY Zenon DEF StoreInv
<1>2. s \in States /\ LastFrame(current) \in 0 .. Len(FrameTimes)
  BY Zenon, <1>1, StateTypes
<1>3. s.cursor \in 0 .. Len(FrameTimes) /\ s.opening \in Openings
  <2> HIDE DEF s
  <2> QED BY Zenon, <1>2 DEF States
<1>4. PICK to \in s.cursor + 1 .. LastFrame(current) : \E moves \in Moves(s.cursor, to) :
        Commit(current, TRUE, to, EvaluateBatch(s, moves))
  BY Zenon DEF CommitEvaluation
<1>5. PICK moves \in Moves(s.cursor, to) : Commit(current, TRUE, to, EvaluateBatch(s, moves))
  BY Zenon, <1>4
<1> DEFINE E == EvaluateBatch(s, moves)
           ts == E.transitions
           db == writeEvaluation(current, ts)
           added == [cursor |-> to, opening |-> E.opening]
<1> HIDE DEF s
<1>6. to \in 0 .. Len(FrameTimes) /\ s.cursor < to
  BY <1>2, <1>3, <1>4, FrameFacts
<1>7. E.opening \in Openings /\ ts \in Seq(Transitions)
  <2>1. E = EvaluateBatch(s, moves)
    BY Zenon
  <2> HIDE DEF E
  <2> QED BY Zenon, <1>2, <1>6, <2>1, BatchTypes
<1>8. /\ moves \in Seq(Steps)
      /\ \A n \in 1 .. Len(moves) : s.cursor < moves[n][1] /\ moves[n][1] <= to
      /\ \A i, j \in 1 .. Len(moves) : i < j => Precedes(moves[i], moves[j])
  BY Zenon, <1>3, <1>6, MovesFacts
<1>9. Committing(current, to, E)
  <2>1. Commit(current, TRUE, to, E)
    BY Zenon, <1>5
  <2> HIDE DEF E
  <2> QED BY Zenon, <1>1, <1>7, <2>1, CommitStep
<1>10. \A e \in events : e.generation \in Generations /\ e.frame \in Frames
  <2>1. events \subseteq EventRows
    <3>1. Stored.events = events
      BY Zenon DEF Stored
    <3> QED BY Zenon, <1>1, <3>1 DEF Evidence, EventsAreEvidence
  <2> QED BY Zenon, <2>1 DEF EventRows
<1>11. \A e \in events : e.generation = current => e.frame <= to
  <2>1. \A f \in Frames : f <= s.cursor => f <= to
    BY <1>3, <1>6, FrameFacts DEF Frames
  <2> QED BY Zenon, <1>1, <1>10, <2>1 DEF s
<1>12. \A n \in 1 .. Len(moves) : Behind(Stored, current, moves[n])
  <2> TAKE n \in 1 .. Len(moves)
  <2>1. Stored.events = events
    BY Zenon DEF Stored
  <2>2. moves[n] \in Steps
    BY <1>8
  <2>3. ASSUME NEW e \in events, e.generation = current
        PROVE  Precedes(<<e.frame, e.violation>>, moves[n])
    <3>1. e.frame <= s.cursor /\ s.cursor < moves[n][1]
      BY Zenon, <1>1, <1>8, <2>3 DEF s
    <3>2. e.frame \in Nat /\ moves[n][1] \in Nat /\ s.cursor \in Nat
      BY <1>3, <1>10, <2>2, FrameFacts DEF Steps, Frames
    <3>3. e.frame < moves[n][1]
      BY <3>1, <3>2
    <3> QED BY Zenon, <3>3 DEF Precedes
  <2> QED BY Zenon, <2>1, <2>3 DEF Behind
<1>13. LiveCommitted(current, E.opening, to, db)
  <2> DEFINE o == s.opening
  <2>1. /\ E = Evaluations(o, moves)[Len(moves)]
        /\ ts = Evaluations(o, moves)[Len(moves)].transitions
    BY Zenon DEF EvaluateBatch
  <2>2. o \in Openings /\ Agrees(Stored, current, o)
    BY Zenon, <1>1, <1>3 DEF s
  <2>3. db = writeEvaluation(current, ts)
    BY Zenon
  <2>4. \A n \in 1 .. Len(moves) : moves[n][1] <= to
    BY Zenon, <1>8
  <2> HIDE DEF db, E, ts, o
  <2>5. LiveCommitted(current, Evaluations(o, moves)[Len(moves)].opening, to, db)
    BY Zenon, <1>1, <1>8, <1>11, <1>12, <2>1, <2>2, <2>3, <2>4, LiveWrites
  <2> QED BY Zenon, <2>1, <2>5
<1>14. Remeasured(current, ts) = {}
  <2>1. ASSUME NEW n \in DOMAIN ts, EventRow(current, ts[n]) \in events PROVE FALSE
    <3> DEFINE o == s.opening
               e == Evaluations(o, moves)
    <3>1. Len(moves) \in 0 .. Len(moves)
      BY <1>8
    <3>2. /\ Len(ts) = Len(moves)
          /\ \A k \in 1 .. Len(moves) : ts[k] =
               Transition(moves[k][1], moves[k][2], e[k - 1].opening[moves[k][2]])
      BY Zenon, <1>3, <1>8, <3>1, EvaluationFacts DEF EvaluateBatch
    <3> HIDE DEF ts, e
    <3>3. n \in 1 .. Len(moves)
      BY <1>7, <2>1, <3>2
    <3>4. ts[n].frame = moves[n][1]
      <4>1. ts[n] = Transition(moves[n][1], moves[n][2], e[n - 1].opening[moves[n][2]])
        BY Zenon, <3>2, <3>3
      <4> QED BY <4>1 DEF Transition
    <3>5. EventRow(current, ts[n]).generation = current /\ EventRow(current, ts[n]).frame = moves[n][1]
      BY Zenon, <3>4 DEF EventRow
    <3>6. moves[n][1] <= s.cursor /\ s.cursor < moves[n][1]
      BY Zenon, <1>1, <1>8, <2>1, <3>3, <3>5 DEF s
    <3>7. moves[n][1] \in Nat /\ s.cursor \in Nat
      BY <1>3, <1>8, <3>3, FrameFacts DEF Steps, Frames
    <3> QED BY <3>6, <3>7
  <2> QED BY Zenon, <2>1 DEF Remeasured
<1>15. outcome' = [live |-> TRUE, error |-> "none"]
  <2>1. PICK error \in {db.error} \cup {"message_conflict" : n \in Remeasured(current, ts)} :
          outcome' = [live |-> TRUE, error |-> error]
    BY Zenon, <1>5 DEF Commit
  <2>2. db.error = "none"
    BY Zenon, <1>13 DEF LiveCommitted
  <2> HIDE DEF db, ts
  <2> QED BY Zenon, <1>14, <2>1, <2>2
<1>16. /\ current' = current /\ client' = client
       /\ Evidence(Stored') /\ Kept(Stored, Stored', current)
       /\ checkpoints' = [checkpoints EXCEPT ![current] = Append(@, added)]
       /\ Stored' = db
  <2>1. outcome'.error = "none"
    BY Zenon, <1>15
  <2> QED BY Zenon, <1>9, <2>1 DEF Committing
<1>17. /\ Agrees(Stored', current, E.opening)
       /\ \A e \in Stored'.events : e.generation = current => e.frame <= to
  BY Zenon, <1>13, <1>16 DEF LiveCommitted
<1>18. added \in States /\ added.cursor = to /\ added.opening = E.opening
  <2> HIDE DEF E
  <2> QED BY Zenon, <1>6, <1>7 DEF States
<1> HIDE DEF added, E, db, ts
<1>19. /\ checkpoints' \in [Generations -> Seq(States)]
       /\ Newest(current)' = added
       /\ \A h \in Generations : h # current => checkpoints'[h] = checkpoints[h]
  <2> DEFINE g == current
  <2>1. g \in Generations /\ g' = g
    BY Zenon, <1>1, <1>16
  <2>2. checkpoints'[g] = Append(checkpoints[g], added)
    BY Zenon, <1>1, <1>16
  <2>3. checkpoints[g] \in Seq(States)
    BY Zenon, <1>1
  <2> DEFINE longer == Append(checkpoints[g], added)
  <2>4. longer \in Seq(States) /\ longer # <<>> /\ longer[Len(longer)] = added
    <3> HIDE DEF g
    <3> QED BY <1>18, <2>3
  <2> HIDE DEF longer
  <2>5. checkpoints' \in [Generations -> Seq(States)]
    BY Zenon, <1>1, <1>16, <2>4 DEF longer
  <2>6. Newest(current)' = added
    BY Zenon, <1>16, <2>2, <2>4 DEF Newest, longer
  <2> QED BY Zenon, <1>1, <1>16, <2>5, <2>6
<1>20. \A g \in Generations : g > current' => checkpoints'[g] = <<>>
  <2>1. \A g \in Generations : g > current => g # current
    BY <1>1 DEF Generations
  <2> QED BY Zenon, <1>1, <1>16, <1>19, <2>1
<1>21. \A e \in events' :
         /\ e.generation <= current'
         /\ e.generation = current' => e.frame <= Newest(current)'.cursor
  <2>1. Stored'.events = events' /\ Stored.events = events
    BY Zenon DEF Stored
  <2>2. current <= current
    BY <1>1 DEF Generations
  <2> QED BY Zenon, <1>1, <1>16, <1>17, <1>18, <1>19, <2>1, <2>2 DEF Kept
<1>22. LiveCommitsAreNeverRefused'
  BY Zenon, <1>15 DEF LiveCommitsAreNeverRefused
<1>23. Agrees(Stored', current', Newest(current)'.opening)
  BY Zenon, <1>16, <1>17, <1>18, <1>19
<1>24. StoreInv'
  BY ONLY Zenon, <1>1, <1>16, <1>19, <1>20, <1>21, <1>22, <1>23 DEF StoreInv
<1> QED BY Zenon, <1>16, <1>24

(* A replay leaves the rows of the current generation alone.                *)
LEMMA HistoricalStep ==
  ASSUME StoreInv, NEW h \in Generations, CommitHistoricalEvaluation(h)
  PROVE  StoreInv' /\ Kept(Stored, Stored', h) /\ Evidence(Stored') /\ client' = client
<1>1. /\ current \in Generations /\ checkpoints \in [Generations -> Seq(States)]
      /\ Evidence(Stored)
      /\ \A g \in Generations : g > current => checkpoints[g] = <<>>
      /\ \A e \in events : /\ e.generation <= current
                           /\ e.generation = current => e.frame <= Newest(current).cursor
      /\ Agrees(Stored, current, Newest(current).opening)
  BY Zenon DEF StoreInv
<1>2. h # current /\ h <= current /\ \A g \in Generations : g > current => g # h
  <2>1. h < current
    BY Zenon DEF CommitHistoricalEvaluation
  <2> QED BY <1>1, <2>1, FrameFacts DEF Generations
<1>3. PICK s \in Restorable(h), to \in Newest(h).cursor .. LastFrame(h) :
        /\ s.cursor < to
        /\ \E moves \in Moves(s.cursor, to) : Commit(h, FALSE, to, EvaluateBatch(s, moves))
  BY Zenon DEF CommitHistoricalEvaluation
<1>4. PICK moves \in Moves(s.cursor, to) : Commit(h, FALSE, to, EvaluateBatch(s, moves))
  BY Zenon, <1>3
<1> DEFINE E == EvaluateBatch(s, moves)
           added == [cursor |-> to, opening |-> E.opening]
<1>5. s \in States /\ Newest(h) \in States /\ LastFrame(h) \in 0 .. Len(FrameTimes)
  BY Zenon, <1>1, StateTypes
<1>6. to \in 0 .. Len(FrameTimes)
  <2>1. Newest(h).cursor \in 0 .. Len(FrameTimes)
    BY Zenon, <1>5 DEF States
  <2> QED BY <1>5, <2>1, FrameFacts
<1>7. E.opening \in Openings /\ E.transitions \in Seq(Transitions)
  <2>1. E = EvaluateBatch(s, moves)
    BY Zenon
  <2> HIDE DEF E
  <2> QED BY Zenon, <1>5, <1>6, <2>1, BatchTypes
<1>8. Committing(h, to, E)
  <2>1. Commit(h, FALSE, to, E)
    BY Zenon, <1>4
  <2> HIDE DEF E
  <2> QED BY Zenon, <1>1, <1>7, <2>1, CommitStep
<1>9. outcome'.live = FALSE
  <2>1. PICK error : outcome' = [live |-> FALSE, error |-> error]
    BY Zenon, <1>4 DEF Commit
  <2> QED BY Zenon, <2>1
<1>10. added \in States
  <2> HIDE DEF E
  <2> QED BY Zenon, <1>6, <1>7 DEF States
<1> HIDE DEF E
<1>11. /\ checkpoints' \in [Generations -> Seq(States)]
       /\ \A g \in Generations : g # h => checkpoints'[g] = checkpoints[g]
  <2>1. CASE checkpoints' = checkpoints
    BY Zenon, <1>1, <2>1
  <2>2. CASE checkpoints' = [checkpoints EXCEPT ![h] = Append(@, added)]
    <3> DEFINE longer == Append(checkpoints[h], added)
    <3>1. checkpoints[h] \in Seq(States)
      BY Zenon, <1>1
    <3>2. longer \in Seq(States)
      <4> HIDE DEF added
      <4> QED BY <1>10, <3>1
    <3> HIDE DEF longer
    <3> QED BY Zenon, <1>1, <2>2, <3>2 DEF longer
  <2> QED BY Zenon, <1>8, <2>1, <2>2 DEF Committing
<1>12. current' = current /\ client' = client /\ Evidence(Stored') /\ Kept(Stored, Stored', h)
  BY Zenon, <1>8 DEF Committing
<1>13. Newest(current)' = Newest(current)
  <2>1. checkpoints'[current'] = checkpoints[current]
    BY Zenon, <1>1, <1>2, <1>11, <1>12
  <2> QED BY Zenon, <1>12, <2>1 DEF Newest
<1>14. \A g \in Generations : g > current' => checkpoints'[g] = <<>>
  BY Zenon, <1>1, <1>2, <1>11, <1>12
<1>15. \A e \in events' :
         /\ e.generation <= current'
         /\ e.generation = current' => e.frame <= Newest(current)'.cursor
  <2>1. Stored'.events = events' /\ Stored.events = events
    BY Zenon DEF Stored
  <2> QED BY Zenon, <1>1, <1>2, <1>12, <1>13, <2>1 DEF Kept
<1>16. LiveCommitsAreNeverRefused'
  BY Zenon, <1>9 DEF LiveCommitsAreNeverRefused
<1>17. Agrees(Stored', current', Newest(current)'.opening)
  <2> DEFINE o == Newest(current).opening
  <2>1. Agrees(Stored, current, o)
    BY Zenon, <1>1
  <2> HIDE DEF o
  <2>2. ASSUME NEW i \in Stored'.incidents, i.generation = current
        PROVE  i.state = "open" <=> i.openingFrame = o[i.violation]
    <3>1. i \in Stored.incidents
      BY Zenon, <1>2, <1>12, <2>2 DEF Kept
    <3> QED BY Zenon, <2>1, <2>2, <3>1 DEF Agrees
  <2>3. ASSUME NEW v \in Violations, o[v] # NoFrame
        PROVE  \E i \in Stored'.incidents : SameOccurrence(i, current, v, o[v])
    <3>1. PICK i \in Stored.incidents : SameOccurrence(i, current, v, o[v])
      BY Zenon, <2>1, <2>3 DEF Agrees
    <3>2. i \in Stored'.incidents
      BY Zenon, <1>2, <1>12, <3>1 DEF Kept, SameOccurrence
    <3> QED BY Zenon, <3>1, <3>2
  <2>4. Agrees(Stored', current, o)
    BY Zenon, <2>2, <2>3 DEF Agrees
  <2> QED BY Zenon, <1>12, <1>13, <2>4 DEF o
<1>18. StoreInv'
  BY ONLY Zenon, <1>1, <1>11, <1>12, <1>14, <1>15, <1>16, <1>17 DEF StoreInv
<1> QED BY Zenon, <1>12, <1>18

(* A generation starts with no incident and no open violation.              *)
LEMMA CutoverStep ==
  ASSUME StoreInv, CutoverAssignment
  PROVE  StoreInv' /\ Stored' = Stored /\ client' = client
<1> DEFINE g == current + 1
<1>1. /\ g \in Generations /\ current' = g /\ client' = client
      /\ checkpoints' = checkpoints /\ incidents' = incidents /\ events' = events
      /\ outcome' = outcome
  BY Zenon DEF CutoverAssignment
<1>2. /\ current \in Generations /\ checkpoints \in [Generations -> Seq(States)]
      /\ Evidence(Stored) /\ LiveCommitsAreNeverRefused
      /\ \A k \in Generations : k > current => checkpoints[k] = <<>>
      /\ \A e \in events : e.generation <= current
  BY Zenon DEF StoreInv
<1>3. Stored' = Stored
  BY Zenon, <1>1 DEF Stored
<1>4. g > current /\ g \in Nat /\ current \in Nat /\ \A k \in Generations : k > g => k > current
  BY <1>2, FrameFacts DEF Generations
<1> HIDE DEF g
<1>5. \A e \in events : e.generation \in Generations
  <2>1. events \subseteq EventRows
    <3>1. Stored.events = events
      BY Zenon DEF Stored
    <3> QED BY Zenon, <1>2, <3>1 DEF Evidence, EventsAreEvidence
  <2> QED BY Zenon, <2>1 DEF EventRows
<1>6. \A e \in events : e.generation <= g /\ e.generation # g
  BY <1>2, <1>4, <1>5, FrameFacts DEF Generations
<1>7. \A i \in incidents : i.generation # g
  <2> TAKE i \in incidents
  <2>1. Stored.events = events /\ Stored.incidents = incidents
    BY Zenon DEF Stored
  <2>2. Proven(i, events)
    BY Zenon, <1>2, <2>1 DEF Evidence
  <2> QED BY Zenon, <1>6, <2>2 DEF Proven
<1>8. Newest(current)' = Fresh(g)
  <2>1. checkpoints'[current'] = <<>>
    BY Zenon, <1>1, <1>2, <1>4
  <2> QED BY Zenon, <1>1, <2>1 DEF Newest, Fresh, FirstFrame
<1>9. Agrees(Stored', current', Newest(current)'.opening)
  <2>1. \A v \in Violations : Fresh(g).opening[v] = NoFrame
    BY Zenon DEF Fresh
  <2>2. Stored'.incidents = incidents
    BY Zenon, <1>1 DEF Stored
  <2> QED BY Zenon, <1>1, <1>7, <1>8, <2>1, <2>2 DEF Agrees
<1>10. \A e \in events' :
         /\ e.generation <= current'
         /\ e.generation = current' => e.frame <= Newest(current)'.cursor
  BY Zenon, <1>1, <1>6
<1>11. \A k \in Generations : k > current' => checkpoints'[k] = <<>>
  BY Zenon, <1>1, <1>2, <1>4
<1>12. LiveCommitsAreNeverRefused'
  BY Zenon, <1>1, <1>2 DEF LiveCommitsAreNeverRefused
<1>13. Evidence(Stored')
  BY Zenon, <1>2, <1>3
<1>14. StoreInv'
  BY ONLY Zenon, <1>1, <1>2, <1>9, <1>10, <1>11, <1>12, <1>13 DEF StoreInv
<1> QED BY Zenon, <1>1, <1>3, <1>14

(* Reads leave the store alone.                                             *)
LEMMA StoreStays ==
  ASSUME StoreInv, UNCHANGED store
  PROVE  StoreInv' /\ Stored' = Stored
<1>1. /\ current' = current /\ checkpoints' = checkpoints /\ incidents' = incidents
      /\ events' = events /\ outcome' = outcome
  BY Zenon DEF store
<1>2. Stored' = Stored
  BY Zenon, <1>1 DEF Stored
<1>3. Newest(current)' = Newest(current)
  BY Zenon, <1>1 DEF Newest
<1>4. LiveCommitsAreNeverRefused' = LiveCommitsAreNeverRefused
  BY Zenon, <1>1 DEF LiveCommitsAreNeverRefused
<1> QED BY Zenon, <1>1, <1>2, <1>3, <1>4 DEF StoreInv

(* The empty store.                                                         *)
LEMMA StoreInit ==
  ASSUME Init
  PROVE  StoreInv
<1>1. /\ current = 1 /\ checkpoints = [g \in Generations |-> <<>>]
      /\ incidents = {} /\ events = {} /\ outcome = [live |-> FALSE, error |-> "none"]
  BY Zenon DEF Init
<1>2. checkpoints \in [Generations -> Seq(States)]
  BY <1>1
<1>3. Stored.incidents = {} /\ Stored.events = {} /\ Stored \in Databases
  BY Zenon, <1>1 DEF Stored, Databases, Errors
<1>4. Evidence(Stored)
  <2>1. EventsAreEvidence({})
    BY Zenon, FS_EmptySet DEF EventsAreEvidence
  <2> QED BY Zenon, <1>3, <2>1 DEF Evidence
<1>5. Newest(1) = Fresh(1)
  BY Zenon, <1>1, FrameFacts DEF Newest
<1>6. Agrees(Stored, 1, Newest(1).opening)
  <2>1. \A v \in Violations : Fresh(1).opening[v] = NoFrame
    BY Zenon DEF Fresh
  <2> QED BY Zenon, <1>3, <1>5, <2>1 DEF Agrees
<1>7. LiveCommitsAreNeverRefused
  BY Zenon, <1>1 DEF LiveCommitsAreNeverRefused
<1> QED BY Zenon, <1>1, <1>2, <1>4, <1>6, <1>7, FrameFacts DEF StoreInv

-----------------------------------------------------------------------------
(* The reader *)

(* What a page of a history and its token say: a prefix of what was found,  *)
(* and where the rest starts.                                               *)
IsPage(q, found, page, next) ==
  /\ page \in Seq(found)
  /\ \A i, j \in 1 .. Len(page) : i < j => NewerThan(page[i], page[j])
  /\ \/ next = NoToken /\ \A e \in found : \E i \in 1 .. Len(page) : page[i] = e
     \/ /\ next \in Tokens /\ next # NoToken /\ next.query = q
        /\ Len(page) \in Nat \ {0}
        /\ next.at = page[Len(page)].observedAt /\ next.rank = Rank(page[Len(page)])
        /\ \A e \in found : (\E i \in 1 .. Len(page) : page[i] = e) \/ AfterToken(e, next)

(* A token is not the token of page one.                                    *)
LEMMA TokensAreTokens ==
  ASSUME NEW token \in Tokens
  PROVE  token # NoToken
<1>1. DOMAIN token = {"query", "at", "rank"}
  BY Zenon DEF Tokens
<1>2. DOMAIN NoToken = {"generation"}
  BY Zenon DEF NoToken
<1>3. "query" \in DOMAIN token /\ "query" \notin DOMAIN NoToken
  BY Zenon, <1>1, <1>2
<1> QED BY Zenon, <1>3

(* The rows read, cut to the page, and the token made from them.            *)
LEMMA PageFacts ==
  ASSUME NEW q \in Queries, NEW found, found \subseteq EventRows, IsFiniteSet(found),
         \A d, e \in found : EventID(d) = EventID(e) => d = e,
         NEW size \in Nat \ {0}, NEW rows, rows = NewestFirst(found, size + 1),
         NEW page, page = IF Len(rows) > size THEN SubSeq(rows, 1, size) ELSE rows,
         NEW next, next = NextPageToken(q, rows, size)
  PROVE  IsPage(q, found, page, next)
<1> DEFINE limit == size + 1
<1>1. limit \in Nat
  OBVIOUS
<1>2. /\ rows \in Seq(found) /\ Len(rows) \in Nat /\ DOMAIN rows = 1 .. Len(rows)
      /\ Len(rows) <= limit
      /\ \A i, j \in 1 .. Len(rows) : i < j => NewerThan(rows[i], rows[j])
      /\ \A e \in found :
           \/ \E i \in 1 .. Len(rows) : rows[i] = e
           \/ Len(rows) = limit /\ \A i \in 1 .. Len(rows) : NewerThan(rows[i], e)
  <2>1. rows = NewestFirst(found, limit)
    BY Zenon
  <2> HIDE DEF limit
  <2> QED BY Zenon, <1>1, <2>1, NewestFirstSorts
<1>3. CASE Len(rows) <= size
  <2>1. ~ (Len(rows) > size) /\ Len(rows) # limit
    BY <1>2, <1>3
  <2>2. page = rows /\ next = NoToken
    BY Zenon, <1>3, <2>1 DEF NextPageToken
  <2> QED BY Zenon, <1>2, <2>1, <2>2 DEF IsPage
<1>4. CASE ~ (Len(rows) <= size)
  <2>1. Len(rows) > size /\ Len(rows) = size + 1 /\ size \in 1 .. Len(rows)
    BY <1>2, <1>4
  <2>2. page = SubSeq(rows, 1, size)
    BY Zenon, <2>1
  <2>3. next = [query |-> q, at |-> rows[size].observedAt, rank |-> Rank(rows[size])]
    BY Zenon, <1>4 DEF NextPageToken
  <2>4. page \in Seq(found) /\ Len(page) = size /\ \A i \in 1 .. size : page[i] = rows[i]
    BY <1>2, <2>1, <2>2
  <2>5. rows[size] \in found
    BY <1>2, <2>1
  <2>6. next \in Tokens
    <3>1. rows[size] \in EventRows
      BY Zenon, <2>5
    <3>2. rows[size].observedAt \in Nat
      BY Zenon, <3>1 DEF EventRows
    <3>3. Rank(rows[size]) \in Nat
      BY Zenon, <3>1, RankType
    <3> QED BY <2>3, <3>2, <3>3 DEF Tokens
  <2>7. next # NoToken
    BY Zenon, <2>6, TokensAreTokens
  <2>8. next.query = q /\ next.at = rows[size].observedAt /\ next.rank = Rank(rows[size])
    BY <2>3
  <2>9. page[Len(page)] = rows[size]
    <3>1. size \in 1 .. size
      OBVIOUS
    <3> QED BY Zenon, <2>4, <3>1
  <2>10. ASSUME NEW i \in 1 .. Len(page), NEW j \in 1 .. Len(page), i < j
         PROVE  NewerThan(page[i], page[j])
    <3>1. i \in 1 .. Len(rows) /\ j \in 1 .. Len(rows)
      BY <2>1, <2>4
    <3> QED BY Zenon, <1>2, <2>4, <2>10, <3>1
  <2>11. ASSUME NEW e \in found, NewerThan(rows[size], e) PROVE AfterToken(e, next)
    <3>1. e.observedAt \in Nat /\ Rank(e) \in Nat
      <4>1. e \in EventRows
        BY Zenon
      <4>2. e.observedAt \in Nat
        BY Zenon, <4>1 DEF EventRows
      <4> QED BY Zenon, <4>1, <4>2, RankType
    <3>2. next.at \in Nat /\ next.rank \in Nat
      BY Zenon, <2>6 DEF Tokens
    <3>3. \/ rows[size].observedAt > e.observedAt
          \/ rows[size].observedAt = e.observedAt /\ Rank(rows[size]) > Rank(e)
      BY Zenon, <2>11 DEF NewerThan
    <3>4. e.observedAt < next.at \/ (e.observedAt = next.at /\ Rank(e) < next.rank)
      BY Zenon, <2>8, <3>1, <3>2, <3>3
    <3> QED BY Zenon, <3>4 DEF AfterToken
  <2>12. ASSUME NEW e \in found
         PROVE  (\E i \in 1 .. Len(page) : page[i] = e) \/ AfterToken(e, next)
    <3>1. CASE \E i \in 1 .. size : rows[i] = e
      BY Zenon, <2>4, <3>1
    <3>2. CASE rows[size + 1] = e
      <4>1. size + 1 \in 1 .. Len(rows) /\ size < size + 1
        BY <2>1
      <4>2. NewerThan(rows[size], rows[size + 1])
        BY Zenon, <1>2, <2>1, <4>1
      <4> QED BY Zenon, <2>11, <3>2, <4>2
    <3>3. CASE ~ \E i \in 1 .. Len(rows) : rows[i] = e
      BY Zenon, <1>2, <2>1, <2>11, <3>3
    <3>4. \A i \in 1 .. Len(rows) : i \in 1 .. size \/ i = size + 1
      BY <2>1
    <3> QED BY Zenon, <3>1, <3>2, <3>3, <3>4
  <2>13. Len(page) \in Nat \ {0}
    BY Zenon, <2>4
  <2> QED BY Zenon, <2>4, <2>6, <2>7, <2>8, <2>9, <2>10, <2>12, <2>13 DEF IsPage
<1>5. Len(rows) <= size \/ ~ (Len(rows) <= size)
  BY Zenon
<1> QED BY Zenon, <1>3, <1>4, <1>5

(* A reader asks for page one without a token, and goes on with its own.    *)
Continues(q, token) ==
  \/ client.status = "idle" /\ token = NoToken
  \/ client.status = "reading" /\ token = client.token

(* Reading a page keeps the reader's promise.                               *)
LEMMA ReadStep ==
  ASSUME Evidence(Stored), ClientInv, UNCHANGED store,
         NEW q \in Queries, NEW pageSize \in PageSizes, NEW token, Continues(q, token),
         ListConformanceEvents(q, token, pageSize)
  PROVE  ClientInv'
<1> DEFINE size == IF pageSize = 0 THEN DefaultPageSize ELSE pageSize
           found == {e \in events : Matches(q, e) /\ AfterToken(e, token)}
           rows == NewestFirst(found, size + 1)
           page == IF Len(rows) > size THEN SubSeq(rows, 1, size) ELSE rows
           next == NextPageToken(q, rows, size)
           stored == IF token = NoToken THEN {e \in events : Matches(q, e)} ELSE client.stored
<1>1. events' = events
  BY Zenon DEF store
<1>2. /\ events \subseteq EventRows /\ IsFiniteSet(events)
      /\ \A d, e \in events : EventID(d) = EventID(e) => d = e
  <2>1. Stored.events = events
    BY Zenon DEF Stored
  <2> QED BY Zenon, <2>1 DEF Evidence, EventsAreEvidence
<1>3. /\ client \in Clients
      /\ client.status = "idle" => client = Idle
      /\ Seen \subseteq events /\ client.stored \subseteq events
      /\ \A i, j \in DOMAIN client.seen : i < j => NewerThan(client.seen[i], client.seen[j])
      /\ \A i \in DOMAIN client.seen : Matches(client.query, client.seen[i])
      /\ \A o \in client.stored : Matches(client.query, o)
  BY Zenon DEF ClientInv
<1>4. CASE ~ historyBounds(q, token, pageSize)
  <2>1. client' = [client EXCEPT !.status = "invalid_query"]
    BY Zenon, <1>4 DEF ListConformanceEvents
  <2>2. /\ client' \in Clients /\ client'.status = "invalid_query"
        /\ client'.seen = client.seen /\ client'.stored = client.stored
        /\ client'.query = client.query
    BY Zenon, <1>3, <2>1 DEF Clients
  <2>3. Seen' = Seen
    BY Zenon, <2>2 DEF Seen
  <2>4. client'.status # "idle" /\ client'.status # "reading" /\ client'.status # "done"
    BY Zenon, <2>2
  <2> QED BY ONLY Zenon, <1>1, <1>3, <2>2, <2>3, <2>4 DEF ClientInv
<1>5. CASE historyBounds(q, token, pageSize)
  <2>1. client' = [client EXCEPT !.status = IF next = NoToken THEN "done" ELSE "reading",
                                 !.token = next, !.seen = @ \o page, !.query = q,
                                 !.stored = stored]
    BY Zenon, <1>5 DEF ListConformanceEvents
  <2>2. IsPage(q, found, page, next)
    <3>1. size \in Nat \ {0}
      BY <1>5, PagingAssumption DEF historyBounds
    <3>2. found \in SUBSET events
      BY Zenon
    <3>3. /\ rows = NewestFirst(found, size + 1)
          /\ page = IF Len(rows) > size THEN SubSeq(rows, 1, size) ELSE rows
          /\ next = NextPageToken(q, rows, size)
      BY Zenon
    <3> HIDE DEF size, found, rows, page, next
    <3>4. found \subseteq EventRows /\ IsFiniteSet(found)
      BY Zenon, <1>2, <3>2, FS_Subset
    <3>5. \A d, e \in found : EventID(d) = EventID(e) => d = e
      BY Zenon, <1>2, <3>2
    <3> QED BY Zenon, <3>1, <3>3, <3>4, <3>5, PageFacts
  <2>3. found \subseteq events /\ \A e \in found : Matches(q, e) /\ AfterToken(e, token)
    BY Zenon
  <2>4. \A e \in events : Matches(q, e) /\ AfterToken(e, token) => e \in found
    BY Zenon
  <2>5. /\ stored \subseteq events
        /\ token = NoToken => stored = {e \in events : Matches(q, e)}
        /\ token # NoToken => stored = client.stored
    BY Zenon, <1>3
  <2> HIDE DEF size, found, rows, page, next, stored
  <2>6. /\ client.seen \in Seq(EventRows) /\ Len(client.seen) \in Nat
        /\ DOMAIN client.seen = 1 .. Len(client.seen)
    <3>1. client.seen \in Seq(EventRows)
      BY Zenon, <1>3 DEF Clients
    <3> QED BY <3>1
  <2>7. /\ page \in Seq(found) /\ page \in Seq(EventRows)
        /\ Len(page) \in Nat /\ DOMAIN page = 1 .. Len(page)
        /\ \A i \in 1 .. Len(page) : page[i] \in found
    <3>1. page \in Seq(found)
      BY Zenon, <2>2 DEF IsPage
    <3>2. found \subseteq EventRows
      BY Zenon, <1>2, <2>3
    <3> QED BY <3>1, <3>2
  <2>8. /\ client'.seen = client.seen \o page /\ client'.query = q /\ client'.token = next
        /\ client'.stored = stored
        /\ client'.status = IF next = NoToken THEN "done" ELSE "reading"
    BY Zenon, <1>3, <2>1 DEF Clients
  <2>9. client' \in Clients
    <3>1. next \in Tokens \cup {NoToken}
      BY Zenon, <2>2 DEF IsPage
    <3>2. client.seen \o page \in Seq(EventRows)
      BY <2>6, <2>7
    <3>3. stored \in SUBSET EventRows
      BY Zenon, <1>2, <2>5
    <3>4. client' = [status |-> IF next = NoToken THEN "done" ELSE "reading", query |-> q,
                     token |-> next, seen |-> client.seen \o page, stored |-> stored]
      BY Zenon, <1>3, <2>1 DEF Clients
    <3> QED BY Zenon, <3>1, <3>2, <3>3, <3>4 DEF Clients
  <2> DEFINE n == Len(client.seen)
             more == client.seen \o page
  <2>10. /\ DOMAIN more = 1 .. n + Len(page) /\ Len(more) = n + Len(page)
         /\ \A i \in 1 .. n : more[i] = client.seen[i]
         /\ \A i \in 1 .. Len(page) : more[n + i] = page[i]
    BY <2>6, <2>7
  <2>11. \A i \in 1 .. n + Len(page) : i \in 1 .. n \/ \E k \in 1 .. Len(page) : i = n + k
    <3> TAKE i \in 1 .. n + Len(page)
    <3>1. i \in 1 .. n \/ (i - n \in 1 .. Len(page) /\ i = n + (i - n))
      BY <2>6, <2>7
    <3> QED BY Zenon, <3>1
  <2>12. \A i \in 1 .. n, k \in 1 .. Len(page) :
           i \in 1 .. n + Len(page) /\ n + k \in 1 .. n + Len(page)
    BY <2>6, <2>7
  <2>13. /\ \A e \in Seen : e \in Seen'
         /\ \A k \in 1 .. Len(page) : page[k] \in Seen'
         /\ \A e \in Seen' : e \in Seen \/ \E k \in 1 .. Len(page) : page[k] = e
    <3>1. Seen' = {more[i] : i \in 1 .. n + Len(page)}
      BY Zenon, <2>8, <2>10 DEF Seen
    <3>2. Seen = {client.seen[i] : i \in 1 .. n}
      BY Zenon, <2>6 DEF Seen
    <3>3. \A i \in 1 .. n : i \in 1 .. n + Len(page)
      BY <2>6, <2>7
    <3>4. \A k \in 1 .. Len(page) : n + k \in 1 .. n + Len(page)
      BY <2>6, <2>7
    <3> HIDE DEF more, n
    <3>5. \A e \in Seen : e \in Seen'
      BY Zenon, <2>10, <3>1, <3>2, <3>3
    <3>6. \A k \in 1 .. Len(page) : page[k] \in Seen'
      BY Zenon, <2>10, <3>1, <3>4
    <3>7. ASSUME NEW e \in Seen' PROVE e \in Seen \/ \E k \in 1 .. Len(page) : page[k] = e
      <4>1. PICK i \in 1 .. n + Len(page) : e = more[i]
        BY Zenon, <3>1
      <4>2. CASE i \in 1 .. n
        BY Zenon, <2>10, <3>2, <4>1, <4>2
      <4>3. CASE \E k \in 1 .. Len(page) : i = n + k
        BY Zenon, <2>10, <4>1, <4>3
      <4> QED BY Zenon, <2>11, <4>1, <4>2, <4>3
    <3> QED BY Zenon, <3>5, <3>6, <3>7
  <2>14. client.seen = <<>> \/ (client.status = "reading" /\ client.query = q)
    <3>1. CASE client.status = "idle"
      <4>1. Idle.seen = <<>>
        BY Zenon DEF Idle
      <4> QED BY Zenon, <1>3, <3>1, <4>1
    <3>2. CASE client.status = "reading"
      <4>1. token = client.token /\ token \in Tokens /\ token.query = client.query
        <5>1. client.status # "idle"
          BY Zenon, <3>2
        <5> QED BY Zenon, <3>2, <5>1 DEF Continues, ClientInv
      <4>2. token # NoToken
        BY Zenon, <4>1, TokensAreTokens
      <4>3. token.query = q
        BY Zenon, <1>5, <4>2 DEF historyBounds
      <4> QED BY Zenon, <3>2, <4>1, <4>3
    <3> QED BY Zenon, <3>1, <3>2 DEF Continues
  <2>15. client.status = "reading" =>
           /\ token = client.token /\ token \in Tokens /\ token # NoToken
           /\ client.seen # <<>>
           /\ token.at = client.seen[n].observedAt /\ token.rank = Rank(client.seen[n])
           /\ \A o \in events : Due(o) => o \in Seen \/ AfterToken(o, token)
    <3> HAVE client.status = "reading"
    <3>1. client.status # "idle"
      BY Zenon
    <3>2. token = client.token
      BY Zenon, <3>1 DEF Continues
    <3>3. token \in Tokens
      BY Zenon, <3>2 DEF ClientInv
    <3>4. token # NoToken
      BY Zenon, <3>3, TokensAreTokens
    <3> QED BY Zenon, <3>2, <3>3, <3>4 DEF ClientInv
  <2>16. client.status = "idle" => token = NoToken /\ client.seen = <<>> /\ client.stored = {}
    <3> HAVE client.status = "idle"
    <3>1. client.status # "reading"
      BY Zenon
    <3>2. Idle.seen = <<>> /\ Idle.stored = {}
      BY Zenon DEF Idle
    <3> QED BY Zenon, <1>3, <3>1, <3>2 DEF Continues
  <2>17. ASSUME NEW i \in 1 .. n, NEW e \in found PROVE NewerThan(client.seen[i], e)
    <3>1. client.seen # <<>>
      BY <2>6, <2>17
    <3>2. client.status = "reading"
      BY Zenon, <2>14, <3>1
    <3> DEFINE l == client.seen[n]
    <3>3. n \in 1 .. n /\ (i < n \/ i = n)
      BY <2>6, <2>17
    <3>4. l \in events /\ client.seen[i] \in events /\ e \in events
      BY Zenon, <1>3, <2>3, <2>6, <3>3 DEF Seen
    <3>5. AfterToken(e, token) /\ token # NoToken
      BY Zenon, <2>3, <2>15, <3>2
    <3>6. e.observedAt < token.at \/ (e.observedAt = token.at /\ Rank(e) < token.rank)
      BY Zenon, <3>5 DEF AfterToken
    <3>7. token.at = l.observedAt /\ token.rank = Rank(l)
      BY Zenon, <2>15, <3>2
    <3>8. /\ e.observedAt \in Nat /\ l.observedAt \in Nat
          /\ Rank(e) \in Nat /\ Rank(l) \in Nat
      <4>1. e \in EventRows /\ l \in EventRows
        BY Zenon, <1>2, <3>4
      <4>2. e.observedAt \in Nat /\ l.observedAt \in Nat
        <5> HIDE DEF l
        <5> QED BY Zenon, <4>1 DEF EventRows
      <4>3. Rank(e) \in Nat /\ Rank(l) \in Nat
        BY Zenon, <4>1, RankType
      <4> QED BY Zenon, <4>2, <4>3
    <3>9. NewerThan(l, e)
      <4> HIDE DEF l
      <4> QED BY Zenon, <3>6, <3>7, <3>8 DEF NewerThan
    <3>10. CASE i = n
      BY Zenon, <3>9, <3>10
    <3>11. CASE i < n
      <4>1. NewerThan(client.seen[i], l)
        BY Zenon, <1>3, <2>6, <3>3, <3>11
      <4>2. \A a, b, c \in events : NewerThan(a, b) /\ NewerThan(b, c) => NewerThan(a, c)
        BY Zenon, <1>2, NewerThanIsAnOrder
      <4> QED BY Zenon, <3>4, <3>9, <4>1, <4>2
    <3> QED BY Zenon, <3>3, <3>10, <3>11
  <2>18. ASSUME NEW i \in DOMAIN client'.seen, NEW j \in DOMAIN client'.seen, i < j
         PROVE  NewerThan(client'.seen[i], client'.seen[j])
    <3>1. i \in 1 .. n + Len(page) /\ j \in 1 .. n + Len(page) /\ client'.seen = more
      BY Zenon, <2>8, <2>10
    <3>2. CASE i \in 1 .. n /\ j \in 1 .. n
      BY Zenon, <1>3, <2>6, <2>10, <2>18, <3>1, <3>2
    <3>3. CASE i \in 1 .. n /\ \E k \in 1 .. Len(page) : j = n + k
      BY Zenon, <2>7, <2>10, <2>17, <3>1, <3>3
    <3>4. ASSUME NEW h \in 1 .. Len(page), NEW k \in 1 .. Len(page), i = n + h, j = n + k
          PROVE  NewerThan(client'.seen[i], client'.seen[j])
      <4>1. h < k
        BY <2>6, <2>18, <3>4
      <4>2. NewerThan(page[h], page[k])
        BY Zenon, <2>2, <4>1 DEF IsPage
      <4> QED BY Zenon, <2>10, <3>1, <3>4, <4>2
    <3>5. CASE j \in 1 .. n /\ \E h \in 1 .. Len(page) : i = n + h
      BY <2>6, <2>18, <3>5
    <3> QED BY Zenon, <2>11, <3>1, <3>2, <3>3, <3>4, <3>5
  <2>19. ASSUME NEW i \in DOMAIN client'.seen PROVE Matches(client'.query, client'.seen[i])
    <3>1. i \in 1 .. n + Len(page) /\ client'.seen = more /\ client'.query = q
      BY Zenon, <2>8, <2>10
    <3>2. CASE i \in 1 .. n
      <4>1. client.seen # <<>>
        BY <2>6, <3>2
      <4>2. client.query = q /\ Matches(client.query, client.seen[i])
        BY Zenon, <1>3, <2>6, <2>14, <3>2, <4>1
      <4> QED BY Zenon, <2>10, <3>1, <3>2, <4>2
    <3>3. CASE \E k \in 1 .. Len(page) : i = n + k
      BY Zenon, <2>3, <2>7, <2>10, <3>1, <3>3
    <3> QED BY Zenon, <2>11, <3>1, <3>2, <3>3
  <2>20. \A o \in client'.stored : Matches(client'.query, o)
    <3>1. CASE client.status = "idle"
      BY Zenon, <2>5, <2>8, <2>16, <3>1
    <3>2. CASE client.status = "reading"
      <4>1. client.query = q
        BY Zenon, <2>14, <2>15, <3>2
      <4> QED BY Zenon, <1>3, <2>5, <2>8, <2>15, <3>2, <4>1
    <3> QED BY Zenon, <3>1, <3>2 DEF Continues
  <2>21. Seen' \subseteq events' /\ client'.stored \subseteq events'
    <3>1. Seen' \subseteq events
      BY Zenon, <1>3, <2>3, <2>7, <2>13
    <3>2. client'.stored \subseteq events
      BY Zenon, <2>5, <2>8
    <3> QED BY Zenon, <1>1, <3>1, <3>2
  <2>22. ASSUME NEW o \in events', Due(o)' PROVE o \in Seen \/ o \in found
    <3>1. o \in events
      BY Zenon, <1>1
    <3>2. ASSUME Matches(q, o), AfterToken(o, token) PROVE o \in found
      BY Zenon, <2>4, <3>1, <3>2
    <3>3. ASSUME Due(o), Matches(q, o), client.status = "reading" PROVE o \in Seen \/ o \in found
      BY Zenon, <2>15, <3>1, <3>2, <3>3
    <3>4. CASE o \in client'.stored
      <4>1. CASE client.status = "idle"
        <5>1. Matches(q, o) /\ AfterToken(o, token)
          BY Zenon, <2>8, <2>16, <2>20, <3>4, <4>1 DEF AfterToken
        <5> QED BY Zenon, <3>2, <5>1
      <4>2. CASE client.status = "reading"
        <5>1. o \in client.stored /\ Matches(q, o)
          BY Zenon, <2>5, <2>8, <2>15, <2>20, <3>4, <4>2
        <5>2. Due(o)
          BY Zenon, <5>1 DEF Due
        <5> QED BY Zenon, <3>3, <4>2, <5>1, <5>2
      <4> QED BY Zenon, <4>1, <4>2 DEF Continues
    <3>5. CASE o \notin client'.stored
      <4>1. PICK e \in Seen' :
              e.kind = "resolved" /\ Opens(o, e) /\ o.observedAt < e.observedAt
        BY Zenon, <2>22, <3>5 DEF Due
      <4>2. Matches(q, o)
        BY Zenon, <2>8, <2>22, <3>5 DEF Due
      <4>3. CASE e \in Seen
        <5>1. client.seen # <<>>
          <6>1. Seen # {}
            BY Zenon, <4>3
          <6>2. DOMAIN client.seen # {}
            BY Zenon, <6>1 DEF Seen
          <6> QED BY <6>2
        <5>2. client.status = "reading" /\ client.query = q
          BY Zenon, <2>14, <5>1
        <5>3. Due(o)
          BY Zenon, <3>1, <4>1, <4>2, <4>3, <5>2 DEF Due
        <5> QED BY Zenon, <3>3, <4>2, <5>2, <5>3
      <4>4. CASE e \in found
        <5>1. AfterToken(e, token)
          BY Zenon, <2>3, <4>4
        <5>2. o.observedAt \in Nat /\ e.observedAt \in Nat
          <6>1. o \in EventRows /\ e \in EventRows
            BY Zenon, <1>2, <2>3, <3>1, <4>4
          <6> QED BY Zenon, <6>1 DEF EventRows
        <5>3. AfterToken(o, token)
          <6>1. CASE token = NoToken
            BY Zenon, <6>1 DEF AfterToken
          <6>2. CASE token # NoToken
            <7>1. token \in Tokens
              BY Zenon, <2>15, <2>16, <6>2 DEF Continues
            <7>2. token.at \in Nat
              BY Zenon, <7>1 DEF Tokens
            <7>3. e.observedAt < token.at \/ e.observedAt = token.at
              BY Zenon, <5>1, <6>2 DEF AfterToken
            <7>4. o.observedAt < token.at
              BY <4>1, <5>2, <7>2, <7>3
            <7> QED BY Zenon, <7>4 DEF AfterToken
          <6> QED BY Zenon, <6>1, <6>2
        <5> QED BY Zenon, <3>2, <4>2, <5>3
      <4> QED BY Zenon, <2>7, <2>13, <4>1, <4>3, <4>4
    <3> QED BY Zenon, <3>4, <3>5
  <2>23. CASE next = NoToken
    <3>1. client'.status = "done"
      BY Zenon, <2>8, <2>23
    <3>2. client'.status # "idle" /\ client'.status # "reading"
      BY Zenon, <3>1
    <3>3. \A e \in found : \E i \in 1 .. Len(page) : page[i] = e
      BY Zenon, <2>2, <2>23 DEF IsPage
    <3>4. \A o \in events' : Due(o)' => o \in Seen'
      BY Zenon, <2>13, <2>22, <3>3
    <3> QED BY ONLY Zenon, <2>9, <2>18, <2>19, <2>20, <2>21, <3>2, <3>4 DEF ClientInv
  <2>24. CASE next # NoToken
    <3>1. client'.status = "reading"
      BY Zenon, <2>8, <2>24
    <3>2. client'.status # "idle" /\ client'.status # "done"
      BY Zenon, <3>1
    <3>3. /\ next \in Tokens /\ next.query = q /\ Len(page) \in Nat \ {0}
          /\ next.at = page[Len(page)].observedAt /\ next.rank = Rank(page[Len(page)])
          /\ \A e \in found : (\E i \in 1 .. Len(page) : page[i] = e) \/ AfterToken(e, next)
      BY Zenon, <2>2, <2>24 DEF IsPage
    <3>4. \A o \in events' : Due(o)' => o \in Seen' \/ AfterToken(o, client'.token)
      BY Zenon, <2>8, <2>13, <2>22, <3>3
    <3>5. Len(page) \in 1 .. Len(page)
      BY <3>3
    <3>6. more[Len(more)] = page[Len(page)]
      BY Zenon, <2>10, <3>5
    <3>7. more # <<>>
      <4>1. Len(more) > 0
        BY <2>6, <2>10, <3>3
      <4> HIDE DEF more
      <4> QED BY <4>1
    <3>8. /\ client'.token \in Tokens /\ client'.token.query = client'.query
          /\ client'.seen # <<>>
          /\ client'.token.at = client'.seen[Len(client'.seen)].observedAt
          /\ client'.token.rank = Rank(client'.seen[Len(client'.seen)])
      BY Zenon, <2>8, <3>3, <3>6, <3>7
    <3> QED BY ONLY Zenon, <2>9, <2>18, <2>19, <2>20, <2>21, <3>2, <3>4, <3>8 DEF ClientInv
  <2> QED BY Zenon, <2>23, <2>24
<1> QED BY Zenon, <1>4, <1>5

(* Commits add events, but none that a reader should have seen.             *)
LEMMA ReaderWaits ==
  ASSUME Evidence(Stored), Evidence(Stored'), ClientInv, client' = client, events \subseteq events'
  PROVE  ClientInv'
<1>1. Stored.events = events /\ Stored'.events = events' /\ Stored.incidents = incidents
  BY Zenon DEF Stored
<1>2. Seen' = Seen
  BY Zenon DEF Seen
<1>3. ASSUME NEW o \in events', Due(o)' PROVE o \in events /\ Due(o)
  <2>1. CASE o \in client.stored
    BY Zenon, <2>1 DEF ClientInv, Due
  <2>2. CASE o \notin client.stored
    <3>1. Matches(client.query, o)
      BY Zenon, <1>3, <2>2 DEF Due
    <3>2. PICK e \in Seen : e.kind = "resolved" /\ Opens(o, e) /\ o.observedAt < e.observedAt
      BY Zenon, <1>2, <1>3, <2>2 DEF Due
    <3>3. e \in events
      BY Zenon, <3>2 DEF ClientInv
    <3>4. PICK i \in incidents : SameOccurrence(i, e.generation, e.violation, e.incident)
      BY Zenon, <1>1, <3>2, <3>3 DEF Evidence
    <3>5. Proven(i, events)
      BY Zenon, <1>1, <3>4 DEF Evidence
    <3>6. PICK c \in events : /\ c.generation = i.generation /\ c.violation = i.violation
                              /\ c.kind = "opened" /\ c.frame = i.openingFrame
      BY Zenon, <3>5 DEF Proven
    <3>7. EventID(c) = EventID(o)
      BY Zenon, <3>2, <3>4, <3>6 DEF EventID, Opens, SameOccurrence
    <3>8. c = o
      BY Zenon, <1>1, <3>6, <3>7 DEF Evidence, EventsAreEvidence
    <3> QED BY Zenon, <3>1, <3>2, <3>6, <3>8 DEF Due
  <2> QED BY Zenon, <2>1, <2>2
<1>4. /\ client \in Clients
      /\ client.status = "idle" => client = Idle
      /\ Seen \subseteq events /\ client.stored \subseteq events
      /\ \A i, j \in DOMAIN client.seen : i < j => NewerThan(client.seen[i], client.seen[j])
      /\ \A i \in DOMAIN client.seen : Matches(client.query, client.seen[i])
      /\ \A o \in client.stored : Matches(client.query, o)
  BY Zenon DEF ClientInv
<1>5. client.status = "done" => \A o \in events' : Due(o)' => o \in Seen
  BY Zenon, <1>3 DEF ClientInv
<1>6. client.status = "reading" =>
        /\ client.token \in Tokens /\ client.token.query = client.query
        /\ client.seen # <<>>
        /\ client.token.at = client.seen[Len(client.seen)].observedAt
        /\ client.token.rank = Rank(client.seen[Len(client.seen)])
        /\ \A o \in events' : Due(o)' => o \in Seen \/ AfterToken(o, client.token)
  BY Zenon, <1>3 DEF ClientInv
<1>7. client' = client /\ events \subseteq events'
  BY Zenon
<1> QED BY ONLY Zenon, <1>2, <1>4, <1>5, <1>6, <1>7 DEF ClientInv

(* The reader before it reads.                                              *)
LEMMA ClientInit ==
  ASSUME Init
  PROVE  ClientInv
<1>1. client = Idle
  BY Zenon DEF Init
<1>2. /\ client \in Clients /\ client.seen = <<>> /\ client.stored = {}
      /\ client.status = "idle" /\ client.status # "reading" /\ client.status # "done"
  BY <1>1 DEF Clients, Idle
<1>3. DOMAIN client.seen = {}
  BY <1>2
<1>4. Seen = {}
  BY Zenon, <1>3 DEF Seen
<1> QED BY Zenon, <1>1, <1>2, <1>3, <1>4 DEF ClientInv

-----------------------------------------------------------------------------
(* The theorems *)

Inv == StoreInv /\ ClientInv

(* What one step may do to the rows.                                        *)
LEMMA InvNext ==
  ASSUME Inv, [Next]_vars
  PROVE  Inv' /\ (Stored' = Stored \/ \E g \in Generations : Kept(Stored, Stored', g))
<1>1. StoreInv /\ ClientInv /\ Evidence(Stored)
  BY Zenon DEF Inv, StoreInv
<1>2. ASSUME NEW g \in Generations, StoreInv', Kept(Stored, Stored', g), Evidence(Stored'),
             client' = client
      PROVE  Inv' /\ (Stored' = Stored \/ \E k \in Generations : Kept(Stored, Stored', k))
  <2>1. Stored.events = events /\ Stored'.events = events'
    BY Zenon DEF Stored
  <2>2. events \subseteq events'
    BY Zenon, <1>2, <2>1 DEF Kept
  <2>3. ClientInv'
    BY Zenon, <1>1, <1>2, <2>2, ReaderWaits
  <2> QED BY Zenon, <1>2, <2>3 DEF Inv
<1>3. CASE CommitEvaluation
  <2>1. current \in Generations
    BY Zenon, <1>1 DEF StoreInv
  <2> QED BY Zenon, <1>1, <1>2, <1>3, <2>1, CommitEvaluationStep
<1>4. ASSUME NEW h \in Generations, CommitHistoricalEvaluation(h)
      PROVE  Inv' /\ (Stored' = Stored \/ \E k \in Generations : Kept(Stored, Stored', k))
  BY Zenon, <1>1, <1>2, <1>4, HistoricalStep
<1>5. CASE CutoverAssignment
  <2>1. StoreInv' /\ Stored' = Stored /\ client' = client
    BY Zenon, <1>1, <1>5, CutoverStep
  <2>2. Stored.events = events /\ Stored'.events = events'
    BY Zenon DEF Stored
  <2>3. events \subseteq events'
    BY Zenon, <2>1, <2>2
  <2>4. ClientInv'
    BY Zenon, <1>1, <2>1, <2>3, ReaderWaits
  <2> QED BY Zenon, <2>1, <2>4 DEF Inv
<1>6. ASSUME NEW q \in Queries, NEW size \in PageSizes, FirstPage(q, size)
      PROVE  Inv' /\ Stored' = Stored
  <2>1. /\ client.status = "idle" /\ UNCHANGED store
        /\ ListConformanceEvents(q, NoToken, size)
    BY Zenon, <1>6 DEF FirstPage
  <2>2. StoreInv' /\ Stored' = Stored
    BY Zenon, <1>1, <2>1, StoreStays
  <2>3. ClientInv'
    BY Zenon, <1>1, <2>1, ReadStep DEF Continues
  <2> QED BY Zenon, <2>2, <2>3 DEF Inv
<1>7. ASSUME NEW q \in Queries, NEW size \in PageSizes, NextPage(q, size)
      PROVE  Inv' /\ Stored' = Stored
  <2>1. /\ client.status = "reading" /\ UNCHANGED store
        /\ ListConformanceEvents(q, client.token, size)
    BY Zenon, <1>7 DEF NextPage
  <2>2. StoreInv' /\ Stored' = Stored
    BY Zenon, <1>1, <2>1, StoreStays
  <2>3. ClientInv'
    BY Zenon, <1>1, <2>1, ReadStep DEF Continues
  <2> QED BY Zenon, <2>2, <2>3 DEF Inv
<1>8. CASE UNCHANGED vars
  <2>1. UNCHANGED store /\ client' = client
    BY Zenon, <1>8 DEF vars
  <2>2. StoreInv' /\ Stored' = Stored
    BY Zenon, <1>1, <2>1, StoreStays
  <2>3. events \subseteq events'
    BY Zenon, <2>1 DEF store
  <2>4. Evidence(Stored')
    BY Zenon, <1>1, <2>2
  <2>5. ClientInv'
    BY Zenon, <1>1, <2>1, <2>3, <2>4, ReaderWaits
  <2> QED BY Zenon, <2>2, <2>5 DEF Inv
<1> QED BY Zenon, <1>3, <1>4, <1>5, <1>6, <1>7, <1>8 DEF Next

(* The inductive invariant: the two tables account for each other and for   *)
(* the newest checkpoint, and the reader's token for what is left to read.  *)
THEOREM HistoryCorrect == Spec => []Inv
<1>1. Init => Inv
  BY Zenon, StoreInit, ClientInit DEF Inv
<1>2. Inv /\ [Next]_vars => Inv'
  BY Zenon, InvNext
<1> QED BY <1>1, <1>2, PTL DEF Spec

(* A live commit is never refused for its incident rows: the checkpoint and *)
(* the incident table agree on what is open (store.go:1022-1043,            *)
(* 001_initial.sql:108-110), for any number of frames, violations and       *)
(* generations.                                                             *)
THEOREM LiveCommitsSucceed == Spec => []LiveCommitsAreNeverRefused
<1>1. Inv => LiveCommitsAreNeverRefused
  BY Zenon DEF Inv, StoreInv
<1> QED BY <1>1, HistoryCorrect, PTL

(* The resolution of an incident is stored evidence of that incident, and   *)
(* its opening is on record, whatever replays found (store.go:1044-1080).   *)
THEOREM ResolutionsAreProven == Spec => []ResolutionIsEvidence
<1>1. ASSUME Inv PROVE ResolutionIsEvidence
  <2>1. Stored.events = events /\ Stored.incidents = incidents
    BY Zenon DEF Stored
  <2>2. \A i \in incidents : Proven(i, events)
    BY Zenon, <1>1, <2>1 DEF Inv, StoreInv, Evidence
  <2> QED BY Zenon, <2>2 DEF ResolutionIsEvidence, Proven
<1> QED BY <1>1, HistoryCorrect, PTL

(* No step removes or rewrites an event, changes an opening or reopens a    *)
(* resolved incident (store.go:1023-1031, 1050-1064).                       *)
THEOREM EvidenceStays == Spec => EvidenceIsImmutable
<1> DEFINE Immutable ==
             /\ events \subseteq events'
             /\ \A i \in incidents : \E j \in incidents' :
                  /\ i.generation = j.generation /\ i.violation = j.violation
                  /\ i.openingFrame = j.openingFrame /\ i.openedAt = j.openedAt
                  /\ i.state = "resolved" => j.state = "resolved"
<1>1. ASSUME Inv, [Next]_vars PROVE [Immutable]_vars
  <2>1. /\ Stored.events = events /\ Stored'.events = events'
        /\ Stored.incidents = incidents /\ Stored'.incidents = incidents'
    BY Zenon DEF Stored
  <2>2. CASE Stored' = Stored
    BY Zenon, <2>1, <2>2
  <2>3. CASE \E g \in Generations : Kept(Stored, Stored', g)
    BY Zenon, <2>1, <2>3 DEF Kept
  <2> QED BY Zenon, <1>1, <2>2, <2>3, InvNext
<1> QED BY <1>1, HistoryCorrect, PTL DEF Spec, EvidenceIsImmutable

(* A client that follows its tokens has every event that was stored and     *)
(* matched at page one, newest first and once, for any filters, page sizes  *)
(* and commits in between (history.go:97-102, 114-156).                     *)
THEOREM PagesComplete == Spec => []PagesAreComplete
<1>1. ASSUME Inv PROVE PagesAreComplete
  <2>1. ClientInv
    BY Zenon, <1>1 DEF Inv
  <2>2. ASSUME NEW i \in 2 .. Len(client.seen)
        PROVE  NewerThan(client.seen[i - 1], client.seen[i])
    <3>1. client.seen \in Seq(EventRows)
      BY Zenon, <2>1 DEF ClientInv, Clients
    <3>2. i - 1 \in DOMAIN client.seen /\ i \in DOMAIN client.seen /\ i - 1 < i
      BY <3>1
    <3> QED BY Zenon, <2>1, <3>2 DEF ClientInv
  <2>3. client.status = "done" => client.stored \subseteq Seen
    BY Zenon, <2>1 DEF ClientInv, Due
  <2> QED BY Zenon, <2>1, <2>2, <2>3 DEF PagesAreComplete, ClientInv
<1> QED BY <1>1, HistoryCorrect, PTL

(* A client that read to the end and saw a resolution also saw its opening, *)
(* if that is earlier and matches (history.go:121-122).                     *)
THEOREM OpeningsSeen == Spec => []OpeningIsSeen
<1>1. ASSUME Inv PROVE OpeningIsSeen
  <2>1. ClientInv /\ Evidence(Stored)
    BY Zenon, <1>1 DEF Inv, StoreInv
  <2>2. Stored.events = events /\ Stored.incidents = incidents
    BY Zenon DEF Stored
  <2>3. ASSUME client.status = "done", NEW e \in Seen, e.kind = "resolved"
        PROVE  \E o \in events :
                 /\ o.generation = e.generation /\ o.violation = e.violation
                 /\ o.kind = "opened" /\ o.frame = e.incident
                 /\ o.observedAt < e.observedAt /\ Matches(client.query, o) => o \in Seen
    <3>1. e \in events
      BY Zenon, <2>1 DEF ClientInv
    <3>2. PICK i \in incidents : SameOccurrence(i, e.generation, e.violation, e.incident)
      BY Zenon, <2>1, <2>2, <2>3, <3>1 DEF Evidence
    <3>3. Proven(i, events)
      BY Zenon, <2>1, <2>2, <3>2 DEF Evidence
    <3>4. PICK o \in events : /\ o.generation = i.generation /\ o.violation = i.violation
                              /\ o.kind = "opened" /\ o.frame = i.openingFrame
      BY Zenon, <3>3 DEF Proven
    <3>5. Opens(o, e)
      BY Zenon, <3>2, <3>4 DEF Opens, SameOccurrence
    <3>6. o.observedAt < e.observedAt /\ Matches(client.query, o) => o \in Seen
      BY Zenon, <2>1, <2>3, <3>4, <3>5 DEF ClientInv, Due
    <3> QED BY Zenon, <3>4, <3>5, <3>6 DEF Opens
  <2> QED BY Zenon, <2>3 DEF OpeningIsSeen
<1> QED BY <1>1, HistoryCorrect, PTL

=============================================================================
