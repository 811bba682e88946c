---------------------- MODULE IncidentHistory_base_proofs ----------------------
(***************************************************************************)
(* Proofs about IncidentHistory, for any frames, generations, violations,  *)
(* order of identifiers, filters and page sizes, first part: the inductive *)
(* invariant, the order of a page, and what the writes of one commit do to *)
(* the incident and event rows.                                            *)
(***************************************************************************)
EXTENDS IncidentHistory, FiniteSetTheorems, FunctionTheorems, WellFoundedInduction,
        SequenceTheorems, TLAPS

-----------------------------------------------------------------------------
(* Numbers *)

LessThan == {p \in Nat \X Nat : p[1] < p[2]}

(* Every set of numbers has a smallest one.                                 *)
LEMMA Smallest ==
  ASSUME NEW T, T \subseteq Nat, T # {}
  PROVE  \E n \in T : \A m \in T : n <= m
<1>1. IsWellFoundedOn(LessThan, Nat)
  BY Zenon, NatLessThanWellFounded DEF OpToRel, LessThan
<1>2. PICK n \in T : \A m \in T : ~(<<m, n>> \in LessThan)
  BY Zenon, <1>1, WFMin
<1>3. ASSUME NEW m \in T PROVE n <= m
  <2>1. n \in Nat /\ m \in Nat /\ <<m, n>> \notin LessThan
    BY Zenon, <1>2
  <2> QED BY <2>1 DEF LessThan
<1> QED BY Zenon, <1>3

(* Induction: a set of numbers that holds 0 and each successor up to N.     *)
LEMMA Induction ==
  ASSUME NEW N \in Nat, NEW T, 0 \in T, \A n \in 0 .. N - 1 : n \in T => n + 1 \in T
  PROVE  \A n \in 0 .. N : n \in T
<1> DEFINE bad == {n \in Nat : n <= N /\ n \notin T}
<1> SUFFICES ASSUME bad # {} PROVE FALSE
  OBVIOUS
<1>1. PICK n \in bad : \A m \in bad : n <= m
  BY Zenon, Smallest
<1>2. n # 0
  BY Zenon, <1>1
<1>3. n - 1 \in Nat /\ n - 1 \notin bad /\ n - 1 \in 0 .. N - 1
  BY <1>1, <1>2
<1> QED BY <1>1, <1>3

-----------------------------------------------------------------------------
(* Recursion *)

EvaluatedInTurn(opening, moves) ==
  /\ Evaluations(opening, moves)[0] = [opening |-> opening, transitions |-> <<>>]
  /\ \A n \in 1 .. Len(moves) :
       Evaluations(opening, moves)[n] =
         Move(Evaluations(opening, moves)[n - 1], moves[n][1], moves[n][2])

(* The moves are evaluated one after the other.                             *)
LEMMA EvaluationsRecursion ==
  ASSUME NEW opening, NEW moves, Len(moves) \in Nat
  PROVE  EvaluatedInTurn(opening, moves)
<1> DEFINE N == Len(moves)
           Body(n, before) ==
             IF n = 0 THEN [opening |-> opening, transitions |-> <<>>]
             ELSE Move(before, moves[n][1], moves[n][2])
           Defined == {m \in Nat : \E f : f = [n \in 0 .. m |-> Body(n, f[n - 1])]}
<1>1. \A x, y : Body(0, x) = Body(0, y)
  BY Zenon
<1>2. N \in Defined
  <2> HIDE DEF Body
  <2>1. 0 \in Defined
    <3> DEFINE f == [n \in 0 .. 0 |-> Body(n, 0)]
    <3>1. f = [n \in 0 .. 0 |-> Body(n, f[n - 1])]
      BY <1>1
    <3> QED BY Zenon, <3>1
  <2>2. ASSUME NEW m \in 0 .. N - 1, m \in Defined PROVE m + 1 \in Defined
    <3>1. PICK f : f = [n \in 0 .. m |-> Body(n, f[n - 1])]
      BY Zenon, <2>2
    <3> DEFINE g == [n \in 0 .. m + 1 |-> IF n <= m THEN f[n] ELSE Body(n, f[m])]
    <3>2. ASSUME NEW n \in 0 .. m + 1 PROVE g[n] = Body(n, g[n - 1])
      <4>1. CASE n = 0
        BY <1>1, <3>1, <4>1
      <4>2. CASE n \in 1 .. m
        <5>1. n - 1 \in 0 .. m /\ g[n - 1] = f[n - 1] /\ g[n] = f[n]
          BY <4>2
        <5> QED BY <3>1, <4>2, <5>1
      <4>3. CASE n = m + 1
        <5>1. n - 1 = m /\ g[n - 1] = f[m] /\ g[n] = Body(n, f[m])
          BY <4>3
        <5> QED BY Zenon, <5>1
      <4> QED BY <4>1, <4>2, <4>3
    <3>3. g = [n \in 0 .. m + 1 |-> Body(n, g[n - 1])]
      <4> HIDE DEF g
      <4>1. g = [n \in 0 .. m + 1 |-> g[n]]
        BY Zenon DEF g
      <4> QED BY Zenon, <3>2, <4>1
    <3>4. m + 1 \in Nat
      OBVIOUS
    <3> HIDE DEF g
    <3> QED BY <3>3, <3>4, Zenon
  <2>3. \A n \in 0 .. N : n \in Defined
    <3> HIDE DEF Defined
    <3> QED BY Zenon, <2>1, <2>2, Induction
  <2> HIDE DEF Defined
  <2> QED BY <2>3
<1>3. Evaluations(opening, moves) = [n \in 0 .. N |-> Body(n, Evaluations(opening, moves)[n - 1])]
  BY <1>2, Zenon DEF Evaluations
<1>4. \A n \in 0 .. N : Evaluations(opening, moves)[n] = Body(n, Evaluations(opening, moves)[n - 1])
  <2> HIDE DEF Body
  <2> QED BY Zenon, <1>3
<1>5. Evaluations(opening, moves)[0] = Body(0, Evaluations(opening, moves)[0 - 1])
  <2> HIDE DEF Body
  <2> QED BY <1>4
<1>6. ASSUME NEW n \in 1 .. N
      PROVE  n # 0 /\ Evaluations(opening, moves)[n] = Body(n, Evaluations(opening, moves)[n - 1])
  <2> HIDE DEF Body
  <2> QED BY <1>4
<1> QED BY <1>5, <1>6, Zenon DEF EvaluatedInTurn

WrittenInTurn(g, transitions) ==
  /\ Writes(g, transitions)[0] =
       [incidents |-> incidents, events |-> events, error |-> "none"]
  /\ \A n \in 1 .. Len(transitions) :
       Writes(g, transitions)[n] =
         IF Writes(g, transitions)[n - 1].error = "none"
         THEN WriteTransition(Writes(g, transitions)[n - 1], g, transitions[n])
         ELSE Writes(g, transitions)[n - 1]

(* The transitions are written one after the other, up to the first error.  *)
LEMMA WritesRecursion ==
  ASSUME NEW g, NEW transitions, Len(transitions) \in Nat
  PROVE  WrittenInTurn(g, transitions)
<1> DEFINE N == Len(transitions)
           Body(n, before) ==
             IF n = 0 THEN [incidents |-> incidents, events |-> events, error |-> "none"]
             ELSE IF before.error = "none" THEN WriteTransition(before, g, transitions[n])
             ELSE before
           Defined == {m \in Nat : \E f : f = [n \in 0 .. m |-> Body(n, f[n - 1])]}
<1>1. \A x, y : Body(0, x) = Body(0, y)
  BY Zenon
<1>2. N \in Defined
  <2> HIDE DEF Body
  <2>1. 0 \in Defined
    <3> DEFINE f == [n \in 0 .. 0 |-> Body(n, 0)]
    <3>1. f = [n \in 0 .. 0 |-> Body(n, f[n - 1])]
      BY <1>1
    <3> QED BY Zenon, <3>1
  <2>2. ASSUME NEW m \in 0 .. N - 1, m \in Defined PROVE m + 1 \in Defined
    <3>1. PICK f : f = [n \in 0 .. m |-> Body(n, f[n - 1])]
      BY Zenon, <2>2
    <3> DEFINE h == [n \in 0 .. m + 1 |-> IF n <= m THEN f[n] ELSE Body(n, f[m])]
    <3>2. ASSUME NEW n \in 0 .. m + 1 PROVE h[n] = Body(n, h[n - 1])
      <4>1. CASE n = 0
        BY <1>1, <3>1, <4>1
      <4>2. CASE n \in 1 .. m
        <5>1. n - 1 \in 0 .. m /\ h[n - 1] = f[n - 1] /\ h[n] = f[n]
          BY <4>2
        <5> QED BY <3>1, <4>2, <5>1
      <4>3. CASE n = m + 1
        <5>1. n - 1 = m /\ h[n - 1] = f[m] /\ h[n] = Body(n, f[m])
          BY <4>3
        <5> QED BY Zenon, <5>1
      <4> QED BY <4>1, <4>2, <4>3
    <3>3. h = [n \in 0 .. m + 1 |-> Body(n, h[n - 1])]
      <4> HIDE DEF h
      <4>1. h = [n \in 0 .. m + 1 |-> h[n]]
        BY Zenon DEF h
      <4> QED BY Zenon, <3>2, <4>1
    <3>4. m + 1 \in Nat
      OBVIOUS
    <3> HIDE DEF h
    <3> QED BY <3>3, <3>4, Zenon
  <2>3. \A n \in 0 .. N : n \in Defined
    <3> HIDE DEF Defined
    <3> QED BY Zenon, <2>1, <2>2, Induction
  <2> HIDE DEF Defined
  <2> QED BY <2>3
<1>3. Writes(g, transitions) = [n \in 0 .. N |-> Body(n, Writes(g, transitions)[n - 1])]
  BY <1>2, Zenon DEF Writes
<1>4. \A n \in 0 .. N : Writes(g, transitions)[n] = Body(n, Writes(g, transitions)[n - 1])
  <2> HIDE DEF Body
  <2> QED BY Zenon, <1>3
<1>5. Writes(g, transitions)[0] = Body(0, Writes(g, transitions)[0 - 1])
  <2> HIDE DEF Body
  <2> QED BY <1>4
<1>6. ASSUME NEW n \in 1 .. N
      PROVE  n # 0 /\ Writes(g, transitions)[n] = Body(n, Writes(g, transitions)[n - 1])
  <2> HIDE DEF Body
  <2> QED BY <1>4
<1> QED BY <1>5, <1>6, Zenon DEF WrittenInTurn

-----------------------------------------------------------------------------
(* Rows *)

EventRows ==
  [generation : Generations, violation : Violations, kind : {"opened", "resolved"},
   frame : Frames, incident : Frames, observedAt : Nat]

IncidentRows ==
  [generation : Generations, violation : Violations, openingFrame : Frames, openedAt : Nat,
   state : {"open", "resolved"}, resolvedAt : Nat, resolution : EventIDs \cup {NoEvent}]

Errors == {"none", "message_conflict", "one_open_incident", "opening_not_found"}

Databases == [incidents : SUBSET IncidentRows, events : SUBSET EventRows, error : Errors]

SameOccurrence(i, g, v, opening) ==
  i.generation = g /\ i.violation = v /\ i.openingFrame = opening

(* What ResolutionIsEvidence says of one incident.                          *)
Proven(i, rows) ==
  /\ i.state = "open" <=> i.resolution = NoEvent
  /\ i.state = "resolved" =>
       \E e \in rows :
         /\ EventID(e) = i.resolution
         /\ e.generation = i.generation /\ e.violation = i.violation
         /\ e.kind = "resolved" /\ e.incident = i.openingFrame
         /\ e.observedAt = i.resolvedAt /\ i.openedAt <= i.resolvedAt
  /\ \E e \in rows :
       /\ e.generation = i.generation /\ e.violation = i.violation
       /\ e.kind = "opened" /\ e.frame = i.openingFrame /\ e.observedAt = i.openedAt

(* An event is stored with the time of its frame; an opening is that of its *)
(* own incident.                                                            *)
Dated(e) == e.observedAt = FrameTimes[e.frame] /\ (e.kind = "opened" => e.incident = e.frame)

(* The events are finitely many, with identifiers of their own.             *)
EventsAreEvidence(rows) ==
  /\ rows \subseteq EventRows /\ IsFiniteSet(rows)
  /\ \A e \in rows : Dated(e)
  /\ \A d, e \in rows : EventID(d) = EventID(e) => d = e

(* The rows are evidence: identifiers and occurrences are unique, and the   *)
(* two tables account for each other.                                       *)
Evidence(db) ==
  /\ db \in Databases
  /\ EventsAreEvidence(db.events)
  /\ \A i \in db.incidents : i.openedAt = FrameTimes[i.openingFrame] /\ Proven(i, db.events)
  /\ \A i, j \in db.incidents :
       SameOccurrence(i, j.generation, j.violation, j.openingFrame) => i = j
  /\ \A e \in db.events : e.kind = "resolved" =>
       \E i \in db.incidents : SameOccurrence(i, e.generation, e.violation, e.incident)

(* What a write of generation g leaves alone.                               *)
Kept(a, b, g) ==
  /\ a.events \subseteq b.events
  /\ \A e \in b.events : e \in a.events \/ e.generation = g
  /\ \A i \in b.incidents : i \in a.incidents \/ i.generation = g
  /\ \A i \in a.incidents : i.generation # g => i \in b.incidents
  /\ \A i \in a.incidents : \E j \in b.incidents :
       /\ i.generation = j.generation /\ i.violation = j.violation
       /\ i.openingFrame = j.openingFrame /\ i.openedAt = j.openedAt
       /\ i.state = "resolved" => j.state = "resolved"

(* The transitions an evaluation finds: an opening is that of its own frame. *)
Transitions ==
  {t \in [kind : {"opened", "resolved"}, violation : Violations, frame : Frames,
          openingFrame : Frames] : t.kind = "opened" => t.openingFrame = t.frame}

(* All stored events of generation g are before a frame and violation p.    *)
Behind(db, g, p) ==
  \A e \in db.events : e.generation = g => Precedes(<<e.frame, e.violation>>, p)

(* The evaluator and the incident table agree on what is open.              *)
Agrees(db, g, opening) ==
  /\ \A i \in db.incidents : i.generation = g =>
       (i.state = "open" <=> i.openingFrame = opening[i.violation])
  /\ \A v \in Violations : opening[v] # NoFrame =>
       \E i \in db.incidents : SameOccurrence(i, g, v, opening[v])

Openings == [Violations -> 0 .. Len(FrameTimes)]

States == [cursor : 0 .. Len(FrameTimes), opening : Openings]

Stored == [incidents |-> incidents, events |-> events, error |-> "none"]

(* The rows are evidence, and the newest checkpoint of the current          *)
(* generation agrees with them; later generations have none yet.            *)
StoreInv ==
  /\ current \in Generations
  /\ checkpoints \in [Generations -> Seq(States)]
  /\ Evidence(Stored)
  /\ LiveCommitsAreNeverRefused
  /\ \A g \in Generations : g > current => checkpoints[g] = <<>>
  /\ \A e \in events :
       /\ e.generation <= current
       /\ e.generation = current => e.frame <= Newest(current).cursor
  /\ Agrees(Stored, current, Newest(current).opening)

Tokens == [query : Queries, at : Nat, rank : Nat]

Clients ==
  [status : {"idle", "reading", "done", "invalid_query"}, query : Queries \cup {NoToken},
   token : Tokens \cup {NoToken}, seen : Seq(EventRows), stored : SUBSET EventRows]

Opens(o, e) ==
  /\ o.generation = e.generation /\ o.violation = e.violation
  /\ o.kind = "opened" /\ o.frame = e.incident

(* The events a client has still to see when it reads on: what was stored   *)
(* at page one, and the earlier openings of resolutions it saw.             *)
Due(o) ==
  \/ o \in client.stored
  \/ /\ o \in events /\ Matches(client.query, o)
     /\ \E e \in Seen : e.kind = "resolved" /\ Opens(o, e) /\ o.observedAt < e.observedAt

(* The token of a client names the last event it saw, and what is due is    *)
(* seen or after the token.                                                 *)
ClientInv ==
  /\ client \in Clients
  /\ client.status = "idle" => client = Idle
  /\ Seen \subseteq events /\ client.stored \subseteq events
  /\ \A i, j \in DOMAIN client.seen : i < j => NewerThan(client.seen[i], client.seen[j])
  /\ \A i \in DOMAIN client.seen : Matches(client.query, client.seen[i])
  /\ \A o \in client.stored : Matches(client.query, o)
  /\ client.status = "reading" =>
       /\ client.token \in Tokens /\ client.token.query = client.query
       /\ client.seen # <<>>
       /\ client.token.at = client.seen[Len(client.seen)].observedAt
       /\ client.token.rank = Rank(client.seen[Len(client.seen)])
       /\ \A o \in events : Due(o) => o \in Seen \/ AfterToken(o, client.token)
  /\ client.status = "done" => \A o \in events : Due(o) => o \in Seen

(* The frames have a time, and time does not go back.                       *)
LEMMA FrameFacts ==
  /\ Len(FrameTimes) \in Nat /\ Len(FirstFrames) \in Nat
  /\ \A f \in Frames : FrameTimes[f] \in Nat
  /\ \A g \in Generations : FirstFrames[g] \in 1 .. Len(FrameTimes) + 1
  /\ 1 \in Generations
<1>1. Len(FrameTimes) \in Nat /\ \A f \in Frames : FrameTimes[f] \in Nat
  BY FramesAssumption DEF Frames
<1>2. Len(FirstFrames) \in Nat /\ \A g \in Generations : FirstFrames[g] \in 1 .. Len(FrameTimes) + 1
  BY FramesAssumption DEF Generations
<1>3. 1 \in Generations
  BY FramesAssumption DEF Generations
<1> QED BY Zenon, <1>1, <1>2, <1>3

(* A later frame is not of an earlier time.                                 *)
LEMMA TimeIsMonotone ==
  ASSUME NEW f \in Frames, NEW h \in Frames, f <= h
  PROVE  FrameTimes[f] <= FrameTimes[h]
<1> DEFINE N == Len(FrameTimes) - f
           T == {n \in 0 .. N : FrameTimes[f] <= FrameTimes[f + n]}
<1>1. N \in Nat /\ h - f \in 0 .. N /\ f + (h - f) = h
  BY FrameFacts DEF Frames
<1>2. 0 \in T
  <2>1. f + 0 = f /\ FrameTimes[f] \in Nat /\ 0 \in 0 .. N
    BY <1>1, FrameFacts DEF Frames
  <2> QED BY <2>1
<1>3. ASSUME NEW n \in 0 .. N - 1, n \in T PROVE n + 1 \in T
  <2>1. f + n \in Frames /\ f + (n + 1) \in Frames /\ f + (n + 1) \in 2 .. Len(FrameTimes)
    BY FrameFacts DEF Frames
  <2>2. FrameTimes[f] \in Nat /\ FrameTimes[f + n] \in Nat /\ FrameTimes[f + (n + 1)] \in Nat
    BY Zenon, FrameFacts, <2>1
  <2>3. FrameTimes[(f + (n + 1)) - 1] <= FrameTimes[f + (n + 1)]
    <3> DEFINE k == f + (n + 1)
    <3>1. k \in 2 .. Len(FrameTimes)
      BY Zenon, <2>1
    <3> HIDE DEF k
    <3>2. FrameTimes[k - 1] <= FrameTimes[k]
      BY Zenon, <3>1, FramesAssumption
    <3> QED BY Zenon, <3>2 DEF k
  <2>4. (f + (n + 1)) - 1 = f + n /\ n + 1 \in 0 .. N
    BY FrameFacts DEF Frames
  <2>5. FrameTimes[f + n] <= FrameTimes[f + (n + 1)]
    BY Zenon, <2>3, <2>4
  <2>6. FrameTimes[f] <= FrameTimes[f + (n + 1)]
    BY <2>2, <2>5, <1>3
  <2> QED BY Zenon, <2>4, <2>6
<1>4. \A n \in 0 .. N : n \in T
  <2> HIDE DEF T, N
  <2> QED BY Zenon, <1>1, <1>2, <1>3, Induction
<1> QED BY Zenon, <1>1, <1>4

-----------------------------------------------------------------------------
(* The order of events *)

(* An event has an identifier, and the identifier a place among them.       *)
LEMMA RankType ==
  ASSUME NEW e \in EventRows
  PROVE  EventID(e) \in EventIDs /\ Rank(e) \in Nat
<1>1. EventID(e) \in EventIDs
  BY Zenon DEF EventID, EventIDs, EventRows
<1> QED BY Zenon, <1>1, RankAssumption DEF Rank

(* Events with identifiers of their own are linearly ordered.               *)
LEMMA NewerThanIsAnOrder ==
  ASSUME NEW rows, rows \subseteq EventRows,
         \A d, e \in rows : EventID(d) = EventID(e) => d = e
  PROVE  /\ \A d \in rows : ~ NewerThan(d, d)
         /\ \A c, d, e \in rows : NewerThan(c, d) /\ NewerThan(d, e) => NewerThan(c, e)
         /\ \A d, e \in rows : d = e \/ NewerThan(d, e) \/ NewerThan(e, d)
<1>1. \A e \in rows : e.observedAt \in Nat
  BY Zenon DEF EventRows
<1>2. \A e \in rows : Rank(e) \in Nat /\ EventID(e) \in EventIDs
  BY Zenon, RankType
<1>3. \A d, e \in rows : Rank(d) = Rank(e) => d = e
  BY Zenon, <1>2, RankAssumption DEF Rank
<1>4. \A d \in rows : ~ NewerThan(d, d)
  BY <1>1, <1>2 DEF NewerThan
<1>5. \A c, d, e \in rows : NewerThan(c, d) /\ NewerThan(d, e) => NewerThan(c, e)
  BY <1>1, <1>2 DEF NewerThan
<1>6. \A d, e \in rows : d = e \/ NewerThan(d, e) \/ NewerThan(e, d)
  BY <1>1, <1>2, <1>3 DEF NewerThan
<1> QED BY Zenon, <1>4, <1>5, <1>6

Ahead(rows, e) == {d \in rows : NewerThan(d, e)}

(* The number of newer events tells the events of a set apart, and takes    *)
(* every value below their number.                                          *)
LEMMA Places ==
  ASSUME NEW rows, rows \subseteq EventRows, IsFiniteSet(rows),
         \A d, e \in rows : EventID(d) = EventID(e) => d = e
  PROVE  /\ Cardinality(rows) \in Nat
         /\ \A e \in rows : Cardinality(Ahead(rows, e)) \in 0 .. Cardinality(rows) - 1
         /\ \A d, e \in rows : NewerThan(d, e) <=>
              Cardinality(Ahead(rows, d)) < Cardinality(Ahead(rows, e))
         /\ \A n \in 0 .. Cardinality(rows) - 1 :
              \E e \in rows : Cardinality(Ahead(rows, e)) = n
<1> DEFINE N == Cardinality(rows)
           place == [e \in rows |-> Cardinality(Ahead(rows, e))]
<1>1. N \in Nat
  BY Zenon, FS_CardinalityType
<1>2. \A e \in rows : IsFiniteSet(Ahead(rows, e)) /\ Cardinality(Ahead(rows, e)) \in Nat
  <2> TAKE e \in rows
  <2>1. Ahead(rows, e) \in SUBSET rows
    BY Zenon DEF Ahead
  <2>2. IsFiniteSet(Ahead(rows, e))
    BY Zenon, <2>1, FS_Subset
  <2> QED BY Zenon, <2>2, FS_CardinalityType
<1>3. ASSUME NEW e \in rows PROVE Cardinality(Ahead(rows, e)) \in 0 .. N - 1
  <2> DEFINE others == rows \ {e}
  <2>1. Ahead(rows, e) \in SUBSET others
    BY Zenon, NewerThanIsAnOrder DEF Ahead
  <2>2. IsFiniteSet(others) /\ Cardinality(others) = N - 1
    BY Zenon, FS_RemoveElement
  <2>3. Cardinality(Ahead(rows, e)) <= Cardinality(others)
    <3> HIDE DEF others
    <3> QED BY Zenon, <2>1, <2>2, FS_Subset
  <2> QED BY <1>1, <1>2, <2>2, <2>3
<1>4. ASSUME NEW d \in rows, NEW e \in rows, NewerThan(d, e)
      PROVE  Cardinality(Ahead(rows, d)) < Cardinality(Ahead(rows, e))
  <2> DEFINE more == Ahead(rows, d) \cup {d}
  <2>1. d \notin Ahead(rows, d)
    BY Zenon, NewerThanIsAnOrder DEF Ahead
  <2>2. Cardinality(more) = Cardinality(Ahead(rows, d)) + 1
    BY Zenon, <1>2, <2>1, FS_AddElement
  <2>3. more \in SUBSET Ahead(rows, e)
    BY Zenon, <1>4, NewerThanIsAnOrder DEF Ahead
  <2>4. Cardinality(more) <= Cardinality(Ahead(rows, e))
    <3> HIDE DEF more
    <3> QED BY Zenon, <1>2, <2>3, FS_Subset
  <2> QED BY <1>2, <2>2, <2>4
<1>5. \A d, e \in rows : NewerThan(d, e) <=>
        Cardinality(Ahead(rows, d)) < Cardinality(Ahead(rows, e))
  <2> TAKE d, e \in rows
  <2>1. d = e \/ NewerThan(d, e) \/ NewerThan(e, d)
    BY Zenon, NewerThanIsAnOrder
  <2>2. NewerThan(d, e) => Cardinality(Ahead(rows, d)) < Cardinality(Ahead(rows, e))
    BY Zenon, <1>4
  <2>3. NewerThan(e, d) => Cardinality(Ahead(rows, e)) < Cardinality(Ahead(rows, d))
    BY Zenon, <1>4
  <2>4. Cardinality(Ahead(rows, d)) \in Nat /\ Cardinality(Ahead(rows, e)) \in Nat
    BY Zenon, <1>2
  <2> QED BY <2>1, <2>2, <2>3, <2>4
<1>6. place \in Injection(rows, 0 .. N - 1)
  <2>1. place \in [rows -> 0 .. N - 1]
    BY Zenon, <1>3
  <2>2. ASSUME NEW d \in rows, NEW e \in rows, place[d] = place[e] PROVE d = e
    <3>1. Cardinality(Ahead(rows, d)) = Cardinality(Ahead(rows, e))
      BY Zenon, <2>2
    <3>2. Cardinality(Ahead(rows, d)) \in Nat /\ Cardinality(Ahead(rows, e)) \in Nat
      BY Zenon, <1>2
    <3>3. ~ NewerThan(d, e) /\ ~ NewerThan(e, d)
      BY <1>5, <3>1, <3>2
    <3> QED BY Zenon, <3>3, NewerThanIsAnOrder
  <2> HIDE DEF place
  <2> QED BY Zenon, <2>1, <2>2, Fun_IsInj
<1>7. IsFiniteSet(0 .. N - 1) /\ Cardinality(0 .. N - 1) = N
  <2>1. N - 1 \in Int /\ (IF 0 > N - 1 THEN 0 ELSE N - 1 - 0 + 1) = N
    BY <1>1
  <2>2. IsFiniteSet(0 .. N - 1) /\
        Cardinality(0 .. N - 1) = IF 0 > N - 1 THEN 0 ELSE N - 1 - 0 + 1
    <3> HIDE DEF N
    <3> QED BY <2>1, FS_Interval
  <2> QED BY <2>1, <2>2
<1>8. place \in Surjection(rows, 0 .. N - 1)
  <2> HIDE DEF place
  <2> QED BY Zenon, <1>6, <1>7, FS_Injection
<1>9. \A n \in 0 .. N - 1 : \E e \in rows : place[e] = n
  <2> HIDE DEF place
  <2> QED BY Zenon, <1>8 DEF Surjection
<1> QED BY Zenon, <1>1, <1>3, <1>5, <1>9

(* The newest events of a set, newest first: what is left out is older than *)
(* all of them, and nothing is left out while there is room.                *)
LEMMA NewestFirstSorts ==
  ASSUME NEW rows, rows \subseteq EventRows, IsFiniteSet(rows),
         \A d, e \in rows : EventID(d) = EventID(e) => d = e,
         NEW limit \in Nat, NEW s, s = NewestFirst(rows, limit)
  PROVE  /\ s \in Seq(rows) /\ Len(s) \in Nat /\ DOMAIN s = 1 .. Len(s) /\ Len(s) <= limit
         /\ \A i, j \in 1 .. Len(s) : i < j => NewerThan(s[i], s[j])
         /\ \A e \in rows :
              \/ \E i \in 1 .. Len(s) : s[i] = e
              \/ Len(s) = limit /\ \A i \in 1 .. Len(s) : NewerThan(s[i], e)
<1> DEFINE N == Cardinality(rows)
           M == IF N < limit THEN N ELSE limit
           At(n) == CHOOSE e \in rows : Cardinality(Ahead(rows, e)) = n - 1
<1>1. N \in Nat /\ M \in Nat /\ M <= limit /\ M <= N
  <2>1. N \in Nat
    BY Zenon, FS_CardinalityType
  <2> HIDE DEF N
  <2> QED BY <2>1
<1>2. s = [n \in 1 .. M |-> At(n)]
  BY Zenon DEF NewestFirst, Ahead
<1>3. ASSUME NEW n \in 1 .. M
      PROVE  At(n) \in rows /\ Cardinality(Ahead(rows, At(n))) = n - 1
  <2>1. n - 1 \in 0 .. N - 1
    BY <1>1
  <2>2. \E e \in rows : Cardinality(Ahead(rows, e)) = n - 1
    BY Zenon, <2>1, Places
  <2> QED BY Zenon, <2>2
<1> HIDE DEF At
<1>4. s \in [1 .. M -> rows] /\ \A n \in 1 .. M : s[n] = At(n)
  BY Zenon, <1>2, <1>3
<1> HIDE DEF M, N
<1>5. s \in Seq(rows) /\ Len(s) = M /\ DOMAIN s = 1 .. M
  BY <1>1, <1>4
<1>6. \A n \in 1 .. M : s[n] \in rows /\ Cardinality(Ahead(rows, s[n])) = n - 1
  BY Zenon, <1>3, <1>4
<1>7. ASSUME NEW i \in 1 .. M, NEW j \in 1 .. M, i < j PROVE NewerThan(s[i], s[j])
  <2>1. i - 1 < j - 1
    BY <1>1, <1>7
  <2>2. Cardinality(Ahead(rows, s[i])) < Cardinality(Ahead(rows, s[j]))
    BY Zenon, <1>6, <2>1
  <2> QED BY Zenon, <1>6, <2>2, Places
<1>8. ASSUME NEW e \in rows
      PROVE  \/ \E i \in 1 .. M : s[i] = e
             \/ M = limit /\ \A i \in 1 .. M : NewerThan(s[i], e)
  <2> DEFINE c == Cardinality(Ahead(rows, e))
  <2>1. c \in 0 .. N - 1
    BY Zenon, Places DEF N
  <2>2. CASE c < M
    <3>1. c + 1 \in 1 .. M /\ (c + 1) - 1 = c
      BY <1>1, <2>1, <2>2
    <3>2. s[c + 1] \in rows /\ Cardinality(Ahead(rows, s[c + 1])) = c
      <4> DEFINE k == c + 1
      <4>1. k \in 1 .. M /\ k - 1 = c
        BY Zenon, <3>1
      <4> HIDE DEF k
      <4>2. s[k] \in rows /\ Cardinality(Ahead(rows, s[k])) = c
        BY Zenon, <1>6, <4>1
      <4> QED BY Zenon, <4>2 DEF k
    <3>3. c \in Nat /\ ~ (c < c)
      BY <2>1
    <3>4. ~ NewerThan(s[c + 1], e) /\ ~ NewerThan(e, s[c + 1])
      BY Zenon, <3>2, <3>3, Places
    <3>5. s[c + 1] = e
      BY Zenon, <3>2, <3>4, NewerThanIsAnOrder
    <3> QED BY Zenon, <3>1, <3>5
  <2>3. CASE ~ (c < M)
    <3>1. M = limit
      BY <1>1, <2>1, <2>3 DEF M
    <3>2. ASSUME NEW i \in 1 .. M PROVE NewerThan(s[i], e)
      <4>1. i - 1 < c
        BY <1>1, <2>1, <2>3
      <4>2. s[i] \in rows /\ Cardinality(Ahead(rows, s[i])) < Cardinality(Ahead(rows, e))
        BY Zenon, <1>6, <4>1
      <4> QED BY Zenon, <4>2, Places
    <3> QED BY Zenon, <3>1, <3>2
  <2> QED BY Zenon, <2>2, <2>3
<1> QED BY Zenon, <1>1, <1>5, <1>7, <1>8

-----------------------------------------------------------------------------
(* Writing one transition *)

IsDatabase(db) == db = [incidents |-> db.incidents, events |-> db.events, error |-> db.error]

(* An event with the identifier of this one is the same evidence.           *)
NoConflict(db, g, t) ==
  \A e \in db.events : EventID(e) = EventID(EventRow(g, t)) => e = EventRow(g, t)

Known(db, g, t) == Occurrence(db.incidents, g, t.violation, t.openingFrame)

(* The rows after an opening is written.                                    *)
OpeningWritten(db, g, t) ==
  [incidents |-> IF Known(db, g, t) = {} THEN db.incidents \cup {OpeningRow(g, t)}
                 ELSE db.incidents,
   events |-> db.events \cup {EventRow(g, t)}, error |-> "none"]

(* The incident of a resolution, after it is written.                       *)
Resolved(i, g, t) ==
  IF SameOccurrence(i, g, t.violation, t.openingFrame)
  THEN [i EXCEPT !.state = "resolved", !.resolvedAt = FrameTimes[t.frame],
                 !.resolution = EventID(EventRow(g, t))]
  ELSE i

ResolutionWritten(db, g, t) ==
  [incidents |-> {Resolved(i, g, t) : i \in db.incidents},
   events |-> db.events \cup {EventRow(g, t)}, error |-> "none"]

(* A step of the loop changes the rows or fails.                            *)
LEMMA Failing ==
  ASSUME NEW db, IsDatabase(db), NEW error
  PROVE  IsDatabase(Failed(db, error)) /\ Failed(db, error).error = error
<1>1. Failed(db, error) = [incidents |-> db.incidents, events |-> db.events, error |-> error]
  BY DEF Failed, IsDatabase
<1> QED BY <1>1 DEF IsDatabase

(* An event is inserted, unless its identifier stands for other evidence.   *)
LEMMA Inserting ==
  ASSUME NEW db, IsDatabase(db), NEW g, NEW t
  PROVE  \/ /\ ~ NoConflict(db, g, t)
            /\ InsertEvent(db, g, t) = Failed(db, "message_conflict")
         \/ /\ NoConflict(db, g, t)
            /\ InsertEvent(db, g, t) =
                 [incidents |-> db.incidents, events |-> db.events \cup {EventRow(g, t)},
                  error |-> db.error]
<1>1. NoConflict(db, g, t) <=>
        ~ \E e \in db.events : EventID(e) = EventID(EventRow(g, t)) /\ e # EventRow(g, t)
  BY Zenon DEF NoConflict
<1>2. CASE ~ NoConflict(db, g, t)
  BY Zenon, <1>1, <1>2 DEF InsertEvent
<1>3. CASE NoConflict(db, g, t)
  <2>1. InsertEvent(db, g, t) = [db EXCEPT !.events = @ \cup {EventRow(g, t)}]
    BY Zenon, <1>1, <1>3 DEF InsertEvent
  <2> QED BY Zenon, <1>3, <2>1 DEF IsDatabase
<1> QED BY Zenon, <1>2, <1>3

(* An opening that meets no error is written; the errors it may meet.       *)
LEMMA WriteOpening ==
  ASSUME NEW db, IsDatabase(db), db.error = "none", NEW g, NEW t, t.kind = "opened"
  PROVE  \/ /\ WriteTransition(db, g, t) = OpeningWritten(db, g, t)
            /\ NoConflict(db, g, t)
         \/ /\ IsDatabase(WriteTransition(db, g, t))
            /\ WriteTransition(db, g, t).error # "none"
            /\ \/ ~ NoConflict(db, g, t)
               \/ \E i \in Known(db, g, t) : i.openedAt # FrameTimes[t.frame]
               \/ /\ Known(db, g, t) = {}
                  /\ \E i \in db.incidents :
                       i.generation = g /\ i.violation = t.violation /\ i.state = "open"
<1> DEFINE d == OpenIncident(db, g, t)
           w == WriteTransition(db, g, t)
           other == \E i \in db.incidents :
                      i.generation = g /\ i.violation = t.violation /\ i.state = "open"
<1>1. w = IF d.error = "none" THEN InsertEvent(d, g, t) ELSE d
  BY Zenon DEF WriteTransition
<1> HIDE DEF w
<1>2. CASE \E i \in Known(db, g, t) : i.openedAt # FrameTimes[t.frame]
  <2>1. d = Failed(db, "message_conflict")
    BY Zenon, <1>2 DEF OpenIncident, Known
  <2> HIDE DEF d
  <2>2. IsDatabase(d) /\ d.error = "message_conflict"
    BY Zenon, <2>1, Failing
  <2>3. w = d /\ w.error # "none"
    BY Zenon, <1>1, <2>2
  <2> QED BY Zenon, <1>2, <2>2, <2>3 DEF w
<1>3. CASE /\ ~ \E i \in Known(db, g, t) : i.openedAt # FrameTimes[t.frame]
           /\ Known(db, g, t) # {}
  <2>1. d = db
    BY Zenon, <1>3 DEF OpenIncident, Known
  <2> HIDE DEF d
  <2>2. w = InsertEvent(db, g, t)
    BY Zenon, <1>1, <2>1
  <2>3. CASE ~ NoConflict(db, g, t)
    <3>1. w = Failed(db, "message_conflict")
      BY Zenon, <2>2, <2>3, Inserting
    <3>2. IsDatabase(w) /\ w.error = "message_conflict"
      BY Zenon, <3>1, Failing
    <3> QED BY Zenon, <2>3, <3>2 DEF w
  <2>4. CASE NoConflict(db, g, t)
    <3>1. w = [incidents |-> db.incidents, events |-> db.events \cup {EventRow(g, t)},
               error |-> "none"]
      BY Zenon, <2>2, <2>4, Inserting
    <3> QED BY Zenon, <1>3, <2>4, <3>1 DEF OpeningWritten, w
  <2> QED BY Zenon, <2>3, <2>4
<1>4. CASE Known(db, g, t) = {} /\ other
  <2>1. d = Failed(db, "one_open_incident")
    BY Zenon, <1>4 DEF OpenIncident, Known
  <2> HIDE DEF d
  <2>2. IsDatabase(d) /\ d.error = "one_open_incident"
    BY Zenon, <2>1, Failing
  <2>3. w = d /\ w.error # "none"
    BY Zenon, <1>1, <2>2
  <2> QED BY Zenon, <1>4, <2>2, <2>3 DEF w
<1>5. CASE Known(db, g, t) = {} /\ ~ other
  <2> DEFINE opened == [incidents |-> db.incidents \cup {OpeningRow(g, t)},
                        events |-> db.events, error |-> "none"]
  <2>1. d = [db EXCEPT !.incidents = @ \cup {OpeningRow(g, t)}]
    BY Zenon, <1>5 DEF OpenIncident, Known
  <2>2. d = opened
    <3> HIDE DEF d
    <3> QED BY Zenon, <2>1 DEF IsDatabase
  <2> HIDE DEF d
  <2>3. IsDatabase(opened) /\ opened.error = "none" /\ opened.events = db.events
    BY Zenon DEF IsDatabase
  <2>4. NoConflict(opened, g, t) <=> NoConflict(db, g, t)
    BY Zenon, <2>3 DEF NoConflict
  <2>5. opened.incidents = db.incidents \cup {OpeningRow(g, t)}
    BY Zenon
  <2> HIDE DEF opened
  <2>6. w = InsertEvent(opened, g, t)
    BY Zenon, <1>1, <2>2, <2>3
  <2>7. CASE ~ NoConflict(db, g, t)
    <3>1. w = Failed(opened, "message_conflict")
      BY Zenon, <2>3, <2>4, <2>6, <2>7, Inserting
    <3>2. IsDatabase(w) /\ w.error = "message_conflict"
      BY Zenon, <2>3, <3>1, Failing
    <3> QED BY Zenon, <2>7, <3>2 DEF w
  <2>8. CASE NoConflict(db, g, t)
    <3>1. w = [incidents |-> opened.incidents, events |-> opened.events \cup {EventRow(g, t)},
               error |-> opened.error]
      BY Zenon, <2>3, <2>4, <2>6, <2>8, Inserting
    <3> QED BY Zenon, <1>5, <2>3, <2>5, <2>8, <3>1 DEF OpeningWritten, w
  <2> QED BY Zenon, <2>7, <2>8
<1> QED BY Zenon, <1>2, <1>3, <1>4, <1>5

(* A resolution that meets no error is written; the errors it may meet.     *)
LEMMA WriteResolution ==
  ASSUME NEW db, IsDatabase(db), db.error = "none", NEW g, NEW t, t.kind = "resolved"
  PROVE  \/ /\ WriteTransition(db, g, t) = ResolutionWritten(db, g, t)
            /\ NoConflict(db, g, t)
            /\ \E i \in Known(db, g, t) : i.openedAt <= FrameTimes[t.frame]
         \/ /\ IsDatabase(WriteTransition(db, g, t))
            /\ WriteTransition(db, g, t).error # "none"
            /\ \/ ~ NoConflict(db, g, t)
               \/ ~ \E i \in Known(db, g, t) : i.openedAt <= FrameTimes[t.frame]
<1> DEFINE found == \E i \in Known(db, g, t) : i.openedAt <= FrameTimes[t.frame]
           d == FindOpening(db, g, t)
           c == IF d.error = "none" THEN InsertEvent(d, g, t) ELSE d
           w == WriteTransition(db, g, t)
<1>1. w = IF c.error = "none" THEN ResolveIncident(c, g, t) ELSE c
  BY Zenon DEF WriteTransition
<1> HIDE DEF w
<1>2. CASE ~ found
  <2>1. d = Failed(db, "opening_not_found")
    BY Zenon, <1>2 DEF FindOpening, Known
  <2> HIDE DEF d
  <2>2. IsDatabase(d) /\ d.error = "opening_not_found"
    BY Zenon, <2>1, Failing
  <2>3. c = d
    BY Zenon, <2>2
  <2> HIDE DEF c
  <2>4. w = d /\ w.error # "none"
    BY Zenon, <1>1, <2>2, <2>3
  <2> QED BY Zenon, <1>2, <2>2, <2>4 DEF w
<1>3. CASE found
  <2>1. d = db
    BY Zenon, <1>3 DEF FindOpening, Known
  <2> HIDE DEF d
  <2>2. c = InsertEvent(db, g, t)
    BY Zenon, <2>1
  <2> HIDE DEF c
  <2>3. CASE ~ NoConflict(db, g, t)
    <3>1. c = Failed(db, "message_conflict")
      BY Zenon, <2>2, <2>3, Inserting
    <3>2. IsDatabase(c) /\ c.error = "message_conflict"
      BY Zenon, <3>1, Failing
    <3>3. w = c /\ w.error # "none"
      BY Zenon, <1>1, <3>2
    <3> QED BY Zenon, <2>3, <3>2, <3>3 DEF w
  <2>4. CASE NoConflict(db, g, t)
    <3>1. c = [incidents |-> db.incidents, events |-> db.events \cup {EventRow(g, t)},
               error |-> "none"]
      BY Zenon, <2>2, <2>4, Inserting
    <3>2. c.error = "none" /\ c.incidents = db.incidents
      BY Zenon, <3>1
    <3>3. w = ResolveIncident(c, g, t)
      BY Zenon, <1>1, <3>2
    <3> DEFINE rows == {IF i \in Known(db, g, t)
                        THEN [i EXCEPT !.state = "resolved", !.resolvedAt = FrameTimes[t.frame],
                                       !.resolution = EventID(EventRow(g, t))]
                        ELSE i : i \in db.incidents}
    <3>4. w = [c EXCEPT !.incidents = rows]
      BY Zenon, <3>2, <3>3 DEF ResolveIncident, Known
    <3>5. rows = {Resolved(i, g, t) : i \in db.incidents}
      BY Zenon DEF Resolved, Known, Occurrence, SameOccurrence
    <3> HIDE DEF rows
    <3>6. w = [incidents |-> rows, events |-> db.events \cup {EventRow(g, t)}, error |-> "none"]
      BY Zenon, <3>1, <3>4
    <3> QED BY Zenon, <1>3, <2>4, <3>5, <3>6 DEF ResolutionWritten, w
  <2> QED BY Zenon, <2>3, <2>4
<1> QED BY Zenon, <1>2, <1>3

-----------------------------------------------------------------------------
(* Every transition that is written leaves evidence *)

(* The rows of a transition are well formed.                                *)
LEMMA RowTypes ==
  ASSUME NEW g \in Generations, NEW t \in Transitions
  PROVE  /\ EventRow(g, t) \in EventRows /\ Dated(EventRow(g, t))
         /\ OpeningRow(g, t) \in IncidentRows
         /\ EventID(EventRow(g, t)) \in EventIDs /\ EventID(EventRow(g, t)) # NoEvent
         /\ FrameTimes[t.frame] \in Nat
         /\ t.kind \in {"opened", "resolved"} /\ t.violation \in Violations
         /\ t.frame \in Frames /\ t.openingFrame \in Frames
         /\ t.kind = "opened" => t.openingFrame = t.frame
<1>1. /\ t.kind \in {"opened", "resolved"} /\ t.violation \in Violations
      /\ t.frame \in Frames /\ t.openingFrame \in Frames
      /\ t.kind = "opened" => t.openingFrame = t.frame
  BY Zenon DEF Transitions
<1>2. FrameTimes[t.frame] \in Nat
  BY Zenon, <1>1, FrameFacts
<1>3. EventRow(g, t) \in EventRows /\ Dated(EventRow(g, t))
  BY Zenon, <1>1, <1>2 DEF EventRow, EventRows, Dated
<1>4. OpeningRow(g, t) \in IncidentRows
  BY Zenon, <1>1, <1>2 DEF OpeningRow, IncidentRows
<1>5. EventID(EventRow(g, t)) \in EventIDs
  BY Zenon, <1>3, RankType
<1>6. EventID(EventRow(g, t)) # NoEvent
  BY Zenon DEF EventID, NoEvent
<1> QED BY Zenon, <1>1, <1>2, <1>3, <1>4, <1>5, <1>6

(* More events prove what fewer did.                                        *)
LEMMA ProvenGrows ==
  ASSUME NEW i, NEW rows, NEW more, rows \subseteq more, Proven(i, rows)
  PROVE  Proven(i, more)
BY Zenon DEF Proven

(* An event that is added leaves dates, identifiers and finiteness right.   *)
LEMMA EventAdded ==
  ASSUME NEW db, Evidence(db), NEW g \in Generations, NEW t \in Transitions,
         NoConflict(db, g, t), NEW rows, rows = db.events \cup {EventRow(g, t)}
  PROVE  EventsAreEvidence(rows)
<1>1. rows \subseteq EventRows
  <2>1. db.events \subseteq EventRows
    BY Zenon DEF Evidence, Databases
  <2> QED BY Zenon, <2>1, RowTypes
<1>2. IsFiniteSet(rows)
  BY Zenon, FS_AddElement DEF Evidence, EventsAreEvidence
<1>3. \A e \in rows : Dated(e)
  BY Zenon, RowTypes DEF Evidence, EventsAreEvidence
<1>4. \A d, e \in rows : EventID(d) = EventID(e) => d = e
  BY Zenon DEF Evidence, EventsAreEvidence, NoConflict
<1> QED BY Zenon, <1>1, <1>2, <1>3, <1>4 DEF EventsAreEvidence

(* The opening of an incident.                                              *)
LEMMA OpeningIsEvidence ==
  ASSUME NEW db, Evidence(db), NEW g \in Generations, NEW t \in Transitions,
         t.kind = "opened", NoConflict(db, g, t),
         NEW w, w = OpeningWritten(db, g, t)
  PROVE  Evidence(w) /\ Kept(db, w, g)
<1> DEFINE new == EventRow(g, t)
           row == OpeningRow(g, t)
<1>1. w.events = db.events \cup {new} /\ w.error = "none"
  BY Zenon DEF OpeningWritten
<1>2. w.incidents = IF Known(db, g, t) = {} THEN db.incidents \cup {row} ELSE db.incidents
  BY Zenon DEF OpeningWritten
<1>3. \A i \in w.incidents : i \in db.incidents \/ (i = row /\ Known(db, g, t) = {})
  BY Zenon, <1>2
<1>4. db.incidents \subseteq w.incidents /\ db.events \subseteq w.events
  BY Zenon, <1>1, <1>2
<1>5. /\ w.events \subseteq EventRows /\ IsFiniteSet(w.events)
      /\ \A e \in w.events : Dated(e)
      /\ \A d, e \in w.events : EventID(d) = EventID(e) => d = e
  <2> DEFINE rows == w.events
  <2>1. rows = db.events \cup {EventRow(g, t)}
    BY Zenon, <1>1
  <2> HIDE DEF rows
  <2>2. EventsAreEvidence(rows)
    BY Zenon, <2>1, EventAdded
  <2> QED BY Zenon, <2>2 DEF rows, EventsAreEvidence
<1>6. /\ row.generation = g /\ row.violation = t.violation
      /\ row.openingFrame = t.openingFrame /\ row.openedAt = FrameTimes[t.frame]
      /\ row.state = "open" /\ row.resolution = NoEvent
  BY Zenon DEF OpeningRow
<1>7. /\ new.generation = g /\ new.violation = t.violation /\ new.kind = "opened"
      /\ new.frame = t.frame /\ new.observedAt = FrameTimes[t.frame]
  BY Zenon DEF EventRow
<1>8. /\ new \in w.events /\ t.openingFrame = t.frame
      /\ row \in IncidentRows
  BY Zenon, <1>1, RowTypes
<1> HIDE DEF row, new
<1>9. w \in Databases
  <2>1. db.incidents \subseteq IncidentRows
    BY Zenon DEF Evidence, Databases
  <2>2. w.incidents \subseteq IncidentRows
    BY Zenon, <1>3, <1>8, <2>1
  <2>3. w = [incidents |-> w.incidents, events |-> w.events, error |-> "none"]
    BY Zenon DEF OpeningWritten
  <2> QED BY <1>5, <2>2, <2>3 DEF Databases, Errors
<1>10. ASSUME NEW i \in w.incidents
       PROVE  i.openedAt = FrameTimes[i.openingFrame] /\ Proven(i, w.events)
  <2>1. CASE i \in db.incidents
    BY Zenon, <1>4, <2>1, ProvenGrows DEF Evidence
  <2>2. CASE i = row
    <3>1. "open" # "resolved"
      BY Zenon
    <3> QED BY Zenon, <1>6, <1>7, <1>8, <2>2, <3>1 DEF Proven
  <2> QED BY Zenon, <1>3, <2>1, <2>2
<1>11. \A i, j \in w.incidents :
         SameOccurrence(i, j.generation, j.violation, j.openingFrame) => i = j
  <2>1. Known(db, g, t) = {} => \A i \in db.incidents :
          ~ SameOccurrence(i, g, t.violation, t.openingFrame)
    BY Zenon DEF Known, Occurrence, SameOccurrence
  <2>2. \A i, j \in db.incidents :
          SameOccurrence(i, j.generation, j.violation, j.openingFrame) => i = j
    BY Zenon DEF Evidence
  <2>3. Known(db, g, t) = {} => \A i \in db.incidents :
          ~ SameOccurrence(row, i.generation, i.violation, i.openingFrame)
    BY Zenon, <1>6, <2>1 DEF SameOccurrence
  <2>4. Known(db, g, t) = {} => \A i \in db.incidents :
          ~ SameOccurrence(i, row.generation, row.violation, row.openingFrame)
    BY Zenon, <1>6, <2>1
  <2> QED BY Zenon, <1>3, <2>2, <2>3, <2>4
<1>12. \A e \in w.events : e.kind = "resolved" =>
         \E i \in w.incidents : SameOccurrence(i, e.generation, e.violation, e.incident)
  <2>1. new.kind # "resolved"
    BY Zenon, <1>7
  <2> QED BY Zenon, <1>1, <1>4, <2>1 DEF Evidence
<1>13. Kept(db, w, g)
  BY Zenon, <1>1, <1>3, <1>4, <1>6, <1>7 DEF Kept
<1> QED BY Zenon, <1>5, <1>9, <1>10, <1>11, <1>12, <1>13 DEF Evidence, EventsAreEvidence

(* The resolution of an incident.                                           *)
LEMMA ResolvingIsEvidence ==
  ASSUME NEW db, Evidence(db), NEW g \in Generations, NEW t \in Transitions,
         t.kind = "resolved", NoConflict(db, g, t),
         \E i \in Known(db, g, t) : i.openedAt <= FrameTimes[t.frame],
         NEW w, w = ResolutionWritten(db, g, t)
  PROVE  Evidence(w) /\ Kept(db, w, g)
<1> DEFINE new == EventRow(g, t)
           id == EventID(new)
           Same(i) == SameOccurrence(i, g, t.violation, t.openingFrame)
<1>1. /\ w.events = db.events \cup {new} /\ w.error = "none"
      /\ w.incidents = {Resolved(i, g, t) : i \in db.incidents}
  BY Zenon DEF ResolutionWritten
<1>2. /\ w.events \subseteq EventRows /\ IsFiniteSet(w.events)
      /\ \A e \in w.events : Dated(e)
      /\ \A d, e \in w.events : EventID(d) = EventID(e) => d = e
  <2> DEFINE rows == w.events
  <2>1. rows = db.events \cup {EventRow(g, t)}
    BY Zenon, <1>1
  <2> HIDE DEF rows
  <2>2. EventsAreEvidence(rows)
    BY Zenon, <2>1, EventAdded
  <2> QED BY Zenon, <2>2 DEF rows, EventsAreEvidence
<1>3. /\ new.generation = g /\ new.violation = t.violation /\ new.kind = "resolved"
      /\ new.frame = t.frame /\ new.observedAt = FrameTimes[t.frame]
      /\ new.incident = t.openingFrame
  BY Zenon DEF EventRow
<1>4. db.incidents \subseteq IncidentRows
  BY Zenon DEF Evidence, Databases
<1>5. FrameTimes[t.frame] \in Nat /\ id \in EventIDs /\ id # NoEvent
  BY Zenon, RowTypes
<1> HIDE DEF new, id
<1>6. ASSUME NEW i \in db.incidents
      PROVE  /\ Resolved(i, g, t) \in IncidentRows
             /\ Resolved(i, g, t).generation = i.generation
             /\ Resolved(i, g, t).violation = i.violation
             /\ Resolved(i, g, t).openingFrame = i.openingFrame
             /\ Resolved(i, g, t).openedAt = i.openedAt
             /\ ~ Same(i) => Resolved(i, g, t) = i
             /\ Same(i) => /\ Resolved(i, g, t).state = "resolved"
                           /\ Resolved(i, g, t).resolvedAt = FrameTimes[t.frame]
                           /\ Resolved(i, g, t).resolution = id
  <2>1. i \in IncidentRows
    BY Zenon, <1>4
  <2>2. CASE Same(i)
    <3>1. Resolved(i, g, t) =
            [i EXCEPT !.state = "resolved", !.resolvedAt = FrameTimes[t.frame], !.resolution = id]
      BY Zenon, <2>2 DEF Resolved, id, new
    <3> HIDE DEF Same
    <3> QED BY Zenon, <1>5, <2>1, <2>2, <3>1 DEF IncidentRows
  <2>3. CASE ~ Same(i)
    BY Zenon, <2>1, <2>3 DEF Resolved
  <2> QED BY Zenon, <2>2, <2>3
<1>7. w \in Databases
  <2>1. w.incidents \subseteq IncidentRows
    BY Zenon, <1>1, <1>6
  <2>2. w = [incidents |-> w.incidents, events |-> w.events, error |-> "none"]
    BY Zenon DEF ResolutionWritten
  <2> QED BY <1>2, <2>1, <2>2 DEF Databases, Errors
<1>8. \A i, j \in db.incidents : SameOccurrence(i, j.generation, j.violation, j.openingFrame) => i = j
  BY Zenon DEF Evidence
<1>9. ASSUME NEW i \in db.incidents, Same(i) PROVE i.openedAt <= FrameTimes[t.frame]
  <2>1. PICK k \in Known(db, g, t) : k.openedAt <= FrameTimes[t.frame]
    BY Zenon
  <2>2. k \in db.incidents /\ SameOccurrence(k, i.generation, i.violation, i.openingFrame)
    BY Zenon, <1>9 DEF Known, Occurrence, SameOccurrence
  <2> QED BY Zenon, <1>8, <2>1, <2>2
<1>10. ASSUME NEW i \in db.incidents
       PROVE  /\ Resolved(i, g, t).openedAt = FrameTimes[Resolved(i, g, t).openingFrame]
              /\ Proven(Resolved(i, g, t), w.events)
  <2>1. i.openedAt = FrameTimes[i.openingFrame] /\ Proven(i, w.events)
    BY Zenon, <1>1, ProvenGrows DEF Evidence
  <2>2. CASE ~ Same(i)
    BY Zenon, <1>6, <2>1, <2>2
  <2>3. CASE Same(i)
    <3> DEFINE r == Resolved(i, g, t)
    <3>1. /\ r.generation = i.generation /\ r.violation = i.violation
          /\ r.openingFrame = i.openingFrame /\ r.openedAt = i.openedAt
          /\ r.state = "resolved" /\ r.resolvedAt = FrameTimes[t.frame] /\ r.resolution = id
      BY Zenon, <1>6, <2>3
    <3> HIDE DEF r
    <3>2. r.openedAt = FrameTimes[r.openingFrame]
      BY Zenon, <2>1, <3>1
    <3>3. \E e \in w.events :
            /\ e.generation = r.generation /\ e.violation = r.violation
            /\ e.kind = "opened" /\ e.frame = r.openingFrame /\ e.observedAt = r.openedAt
      BY Zenon, <2>1, <3>1 DEF Proven
    <3>4. r.generation = g /\ r.violation = t.violation /\ r.openingFrame = t.openingFrame
      BY Zenon, <2>3, <3>1 DEF SameOccurrence
    <3>5. \E e \in w.events :
            /\ EventID(e) = r.resolution
            /\ e.generation = r.generation /\ e.violation = r.violation
            /\ e.kind = "resolved" /\ e.incident = r.openingFrame
            /\ e.observedAt = r.resolvedAt /\ r.openedAt <= r.resolvedAt
      <4>1. new \in w.events /\ EventID(new) = r.resolution
        BY Zenon, <1>1, <3>1 DEF id
      <4>2. r.openedAt <= r.resolvedAt
        BY Zenon, <1>9, <2>3, <3>1
      <4> QED BY Zenon, <1>3, <3>1, <3>4, <4>1, <4>2
    <3>6. ~ (r.state = "open") /\ ~ (r.resolution = NoEvent)
      <4>1. "resolved" # "open"
        BY Zenon
      <4> QED BY Zenon, <1>5, <3>1, <4>1
    <3> QED BY Zenon, <3>2, <3>3, <3>5, <3>6 DEF Proven, r
  <2> QED BY Zenon, <2>2, <2>3
<1>11. \A i \in w.incidents : i.openedAt = FrameTimes[i.openingFrame] /\ Proven(i, w.events)
  BY Zenon, <1>1, <1>10
<1>12. \A i, j \in w.incidents :
         SameOccurrence(i, j.generation, j.violation, j.openingFrame) => i = j
  <2>1. ASSUME NEW i \in db.incidents, NEW j \in db.incidents,
               SameOccurrence(Resolved(i, g, t), Resolved(j, g, t).generation,
                              Resolved(j, g, t).violation, Resolved(j, g, t).openingFrame)
        PROVE  i = j
    <3>1. SameOccurrence(i, j.generation, j.violation, j.openingFrame)
      BY Zenon, <1>6, <2>1 DEF SameOccurrence
    <3> QED BY Zenon, <1>8, <3>1
  <2> TAKE i, j \in w.incidents
  <2> HAVE SameOccurrence(i, j.generation, j.violation, j.openingFrame)
  <2>2. PICK a \in db.incidents : i = Resolved(a, g, t)
    BY Zenon, <1>1
  <2>3. PICK b \in db.incidents : j = Resolved(b, g, t)
    BY Zenon, <1>1
  <2> QED BY Zenon, <2>1, <2>2, <2>3
<1>13. \A e \in w.events : e.kind = "resolved" =>
         \E i \in w.incidents : SameOccurrence(i, e.generation, e.violation, e.incident)
  <2>1. \A e \in w.events : e.kind = "resolved" =>
          \E i \in db.incidents : SameOccurrence(i, e.generation, e.violation, e.incident)
    <3>1. \E i \in db.incidents : SameOccurrence(i, new.generation, new.violation, new.incident)
      BY Zenon, <1>3 DEF Known, Occurrence, SameOccurrence
    <3> QED BY Zenon, <1>1, <3>1 DEF Evidence
  <2>2. ASSUME NEW i \in db.incidents, NEW a, NEW b, NEW c, SameOccurrence(i, a, b, c)
        PROVE  \E j \in w.incidents : SameOccurrence(j, a, b, c)
    <3>1. Resolved(i, g, t) \in w.incidents /\ SameOccurrence(Resolved(i, g, t), a, b, c)
      BY Zenon, <1>1, <1>6, <2>2 DEF SameOccurrence
    <3> QED BY Zenon, <3>1
  <2> QED BY Zenon, <2>1, <2>2
<1>14. Kept(db, w, g)
  <2>1. \A i \in db.incidents :
          \/ Resolved(i, g, t) = i
          \/ Same(i) /\ i.generation = g /\ Resolved(i, g, t).generation = g
    BY Zenon, <1>6 DEF SameOccurrence
  <2>2. \A i \in w.incidents : i \in db.incidents \/ i.generation = g
    BY Zenon, <1>1, <2>1
  <2>3. \A i \in db.incidents : i.generation # g => i \in w.incidents
    BY Zenon, <1>1, <2>1
  <2>4. ASSUME NEW i \in db.incidents
        PROVE  \E j \in w.incidents :
                 /\ i.generation = j.generation /\ i.violation = j.violation
                 /\ i.openingFrame = j.openingFrame /\ i.openedAt = j.openedAt
                 /\ i.state = "resolved" => j.state = "resolved"
    <3>1. Resolved(i, g, t) \in w.incidents
      BY Zenon, <1>1
    <3>2. i.state = "resolved" => Resolved(i, g, t).state = "resolved"
      BY Zenon, <1>6
    <3> QED BY Zenon, <1>6, <3>1, <3>2
  <2> QED BY Zenon, <1>1, <1>3, <2>2, <2>3, <2>4 DEF Kept
<1> QED BY Zenon, <1>2, <1>7, <1>11, <1>12, <1>13, <1>14 DEF Evidence, EventsAreEvidence

(* A transition that is written without an error leaves evidence.           *)
LEMMA TransitionIsEvidence ==
  ASSUME NEW db, Evidence(db), db.error = "none",
         NEW g \in Generations, NEW t \in Transitions, NEW w, w = WriteTransition(db, g, t),
         w.error = "none"
  PROVE  Evidence(w) /\ Kept(db, w, g)
<1>1. IsDatabase(db)
  BY Zenon DEF Evidence, Databases, IsDatabase
<1>2. CASE t.kind = "opened"
  <2>0. WriteTransition(db, g, t).error = "none"
    BY Zenon
  <2>1. w = OpeningWritten(db, g, t) /\ NoConflict(db, g, t)
    BY <1>1, <1>2, <2>0, WriteOpening
  <2> QED BY Zenon, <1>2, <2>1, OpeningIsEvidence
<1>3. CASE t.kind = "resolved"
  <2>1. /\ w = ResolutionWritten(db, g, t) /\ NoConflict(db, g, t)
        /\ \E i \in Known(db, g, t) : i.openedAt <= FrameTimes[t.frame]
    BY Zenon, <1>1, <1>3, WriteResolution
  <2> QED BY Zenon, <1>3, <2>1, ResolvingIsEvidence
<1> QED BY Zenon, <1>2, <1>3, RowTypes

(* What several writes leave alone.                                         *)
LEMMA KeptTransitive ==
  ASSUME NEW a, NEW b, NEW c, NEW g, Kept(a, b, g), Kept(b, c, g)
  PROVE  Kept(a, c, g)
<1>1. a.events \subseteq c.events
  BY Zenon DEF Kept
<1>2. \A e \in c.events : e \in a.events \/ e.generation = g
  BY Zenon DEF Kept
<1>3. \A i \in c.incidents : i \in a.incidents \/ i.generation = g
  BY Zenon DEF Kept
<1>4. \A i \in a.incidents : i.generation # g => i \in c.incidents
  BY Zenon DEF Kept
<1>5. ASSUME NEW i \in a.incidents
      PROVE  \E j \in c.incidents :
               /\ i.generation = j.generation /\ i.violation = j.violation
               /\ i.openingFrame = j.openingFrame /\ i.openedAt = j.openedAt
               /\ i.state = "resolved" => j.state = "resolved"
  <2>1. PICK k \in b.incidents :
          /\ i.generation = k.generation /\ i.violation = k.violation
          /\ i.openingFrame = k.openingFrame /\ i.openedAt = k.openedAt
          /\ i.state = "resolved" => k.state = "resolved"
    BY Zenon DEF Kept
  <2>2. PICK j \in c.incidents :
          /\ k.generation = j.generation /\ k.violation = j.violation
          /\ k.openingFrame = j.openingFrame /\ k.openedAt = j.openedAt
          /\ k.state = "resolved" => j.state = "resolved"
    BY Zenon DEF Kept
  <2> QED BY Zenon, <2>1, <2>2
<1> QED BY Zenon, <1>1, <1>2, <1>3, <1>4, <1>5 DEF Kept

(* An evaluation that is written without an error leaves evidence.          *)
LEMMA WritesAreEvidence ==
  ASSUME Evidence(Stored), NEW g \in Generations, NEW transitions \in Seq(Transitions),
         NEW w, w = writeEvaluation(g, transitions), w.error = "none"
  PROVE  Evidence(w) /\ Kept(Stored, w, g)
<1> DEFINE N == Len(transitions)
           W == Writes(g, transitions)
           T == {n \in 0 .. N : W[n].error = "none" => Evidence(W[n]) /\ Kept(Stored, W[n], g)}
<1>1. N \in Nat /\ \A n \in 1 .. N : transitions[n] \in Transitions
  OBVIOUS
<1>2. W[0] = Stored
  BY Zenon, <1>1, WritesRecursion DEF Stored, WrittenInTurn
<1>3. \A n \in 1 .. N : W[n] = IF W[n - 1].error = "none"
                              THEN WriteTransition(W[n - 1], g, transitions[n]) ELSE W[n - 1]
  <2>1. WrittenInTurn(g, transitions)
    BY Zenon, <1>1, WritesRecursion
  <2> QED BY ONLY Zenon, <2>1 DEF WrittenInTurn
<1> HIDE DEF W, N
<1>4. 0 \in T
  <2>1. 0 \in 0 .. N
    BY <1>1
  <2>2. Kept(Stored, Stored, g)
    BY Zenon DEF Kept
  <2> QED BY Zenon, <1>2, <2>1, <2>2
<1>5. ASSUME NEW n \in 0 .. N - 1, n \in T PROVE n + 1 \in T
  <2>1. n + 1 \in 1 .. N /\ n + 1 \in 0 .. N /\ (n + 1) - 1 = n
    BY <1>1
  <2>2. W[n + 1] = IF W[n].error = "none" THEN WriteTransition(W[n], g, transitions[n + 1])
                   ELSE W[n]
    BY Zenon, <1>3, <2>1
  <2>3. CASE W[n].error = "none"
    <3>1. Evidence(W[n]) /\ Kept(Stored, W[n], g)
      BY Zenon, <1>5, <2>3
    <3>2. transitions[n + 1] \in Transitions /\ W[n + 1] = WriteTransition(W[n], g, transitions[n + 1])
      BY Zenon, <1>1, <2>1, <2>2, <2>3 DEF N
    <3>3. W[n + 1].error = "none" => Evidence(W[n + 1]) /\ Kept(W[n], W[n + 1], g)
      BY Zenon, <2>3, <3>1, <3>2, TransitionIsEvidence
    <3> QED BY Zenon, <2>1, <3>1, <3>3, KeptTransitive
  <2>4. CASE W[n].error # "none"
    BY Zenon, <2>1, <2>2, <2>4
  <2> QED BY Zenon, <2>3, <2>4
<1>6. \A n \in 0 .. N : n \in T
  <2> HIDE DEF T
  <2> QED BY Zenon, <1>1, <1>4, <1>5, Induction
<1>7. N \in 0 .. N /\ w = W[N]
  <2>1. N \in 0 .. N
    BY <1>1
  <2> QED BY Zenon, <2>1 DEF writeEvaluation, W, N
<1> QED BY Zenon, <1>6, <1>7

-----------------------------------------------------------------------------
(* The evaluation of a batch *)

Steps == Frames \X Violations

(* What a step at frame f does to violation v.                              *)
TransitionAt(t, opening, f, v) ==
  /\ t \in Transitions /\ t.violation = v /\ t.frame = f
  /\ opening[v] = NoFrame => t.kind = "opened" /\ t.openingFrame = f
  /\ opening[v] # NoFrame =>
       t.kind = "resolved" /\ t.openingFrame = opening[v] /\ opening[v] \in Frames

(* A step that opens or resolves is a transition.                           *)
LEMMA TransitionType ==
  ASSUME NEW opening \in Openings, NEW f \in Frames, NEW v \in Violations,
         NEW t, t = Transition(f, v, opening[v])
  PROVE  TransitionAt(t, opening, f, v)
<1>1. opening[v] \in 0 .. Len(FrameTimes)
  BY Zenon DEF Openings
<1>2. opening[v] # NoFrame => opening[v] \in Frames
  BY <1>1, FrameFacts DEF Frames, NoFrame
<1>3. CASE opening[v] = NoFrame
  <2>1. t = [kind |-> "opened", violation |-> v, frame |-> f, openingFrame |-> f]
    BY Zenon, <1>3 DEF Transition
  <2> QED BY <1>3, <2>1 DEF Transitions, TransitionAt
<1>4. CASE opening[v] # NoFrame
  <2>1. t = [kind |-> "resolved", violation |-> v, frame |-> f, openingFrame |-> opening[v]]
    BY Zenon, <1>4 DEF Transition
  <2> QED BY <1>2, <1>4, <2>1 DEF Transitions, TransitionAt
<1> QED BY Zenon, <1>3, <1>4

(* Every move adds the transition from the state before it.                 *)
LEMMA EvaluationFacts ==
  ASSUME NEW opening \in Openings, NEW moves \in Seq(Steps)
  PROVE  \A n \in 0 .. Len(moves) :
           LET e == Evaluations(opening, moves)
           IN  /\ e[n].opening \in Openings
               /\ e[n].transitions \in Seq(Transitions) /\ Len(e[n].transitions) = n
               /\ \A k \in 1 .. n : e[n].transitions[k] =
                    Transition(moves[k][1], moves[k][2], e[k - 1].opening[moves[k][2]])
<1> DEFINE N == Len(moves)
           e == Evaluations(opening, moves)
           T == {n \in 0 .. N :
                   /\ e[n].opening \in Openings
                   /\ e[n].transitions \in Seq(Transitions) /\ Len(e[n].transitions) = n
                   /\ \A k \in 1 .. n : e[n].transitions[k] =
                        Transition(moves[k][1], moves[k][2], e[k - 1].opening[moves[k][2]])}
<1>1. N \in Nat /\ \A n \in 1 .. N : moves[n] \in Steps
  OBVIOUS
<1>2. e[0] = [opening |-> opening, transitions |-> <<>>]
  BY Zenon, <1>1, EvaluationsRecursion DEF EvaluatedInTurn
<1>3. \A n \in 1 .. N : e[n] = Move(e[n - 1], moves[n][1], moves[n][2])
  <2>1. EvaluatedInTurn(opening, moves)
    BY Zenon, <1>1, EvaluationsRecursion
  <2> QED BY ONLY Zenon, <2>1 DEF EvaluatedInTurn
<1> HIDE DEF e, N
<1>4. 0 \in T
  <2>1. e[0].opening = opening /\ e[0].transitions = <<>>
    BY <1>2
  <2>2. <<>> \in Seq(Transitions) /\ Len(<<>>) = 0 /\ 1 .. 0 = {} /\ 0 \in 0 .. N
    BY <1>1
  <2> QED BY Zenon, <2>1, <2>2
<1>5. ASSUME NEW n \in 0 .. N - 1, n \in T PROVE n + 1 \in T
  <2> DEFINE f == moves[n + 1][1]
             v == moves[n + 1][2]
             o == e[n].opening
             ts == e[n].transitions
             t == Transition(f, v, o[v])
  <2>1. n + 1 \in 1 .. N /\ n + 1 \in 0 .. N /\ (n + 1) - 1 = n /\ n \in Nat
    BY <1>1
  <2>2. moves[n + 1] \in Steps
    BY Zenon, <1>1, <2>1
  <2>3. f \in Frames /\ v \in Violations
    BY Zenon, <2>2 DEF Steps
  <2>4. e[n + 1] = Move(e[n], f, v)
    BY Zenon, <1>3, <2>1
  <2>5. e[n + 1].opening = [o EXCEPT ![v] = IF @ = NoFrame THEN f ELSE NoFrame]
    BY <2>4 DEF Move
  <2>6. e[n + 1].transitions = Append(ts, t)
    BY <2>4 DEF Move
  <2>7. /\ o \in Openings /\ ts \in Seq(Transitions) /\ Len(ts) = n
        /\ \A k \in 1 .. n : ts[k] =
             Transition(moves[k][1], moves[k][2], e[k - 1].opening[moves[k][2]])
    BY Zenon, <1>5
  <2>8. t \in Transitions
    <3> HIDE DEF f, v, o
    <3>1. t = Transition(f, v, o[v])
      BY Zenon
    <3> HIDE DEF t
    <3>2. o \in Openings
      BY Zenon, <2>7
    <3>3. TransitionAt(t, o, f, v)
      BY Zenon, <2>3, <3>1, <3>2, TransitionType
    <3> QED BY Zenon, <3>3 DEF TransitionAt
  <2>9. e[n + 1].opening \in Openings
    <3>1. f \in 0 .. Len(FrameTimes) /\ NoFrame \in 0 .. Len(FrameTimes)
      BY <2>3, FrameFacts DEF Frames, NoFrame
    <3> HIDE DEF f, v, o
    <3> QED BY Zenon, <2>3, <2>5, <2>7, <3>1 DEF Openings
  <2>10. t = Transition(moves[n + 1][1], moves[n + 1][2], e[(n + 1) - 1].opening[moves[n + 1][2]])
    BY Zenon, <2>1
  <2> DEFINE us == e[n + 1].transitions
  <2>11. /\ us \in Seq(Transitions) /\ Len(us) = n + 1 /\ us[n + 1] = t
         /\ \A k \in 1 .. n : us[k] = ts[k]
    <3> HIDE DEF us, t, ts
    <3>1. us = Append(ts, t)
      BY Zenon, <2>6 DEF us, ts, t
    <3> QED BY <2>1, <2>7, <2>8, <3>1
  <2>12. ASSUME NEW k \in 1 .. n + 1
         PROVE  us[k] = Transition(moves[k][1], moves[k][2], e[k - 1].opening[moves[k][2]])
    <3>1. k \in 1 .. n \/ k = n + 1
      BY <2>1
    <3>2. CASE k \in 1 .. n
      BY Zenon, <2>7, <2>11, <3>2
    <3>3. CASE k = n + 1
      BY Zenon, <2>10, <2>11, <3>3
    <3> QED BY Zenon, <3>1, <3>2, <3>3
  <2> QED BY Zenon, <2>1, <2>9, <2>11, <2>12
<1>6. \A n \in 0 .. N : n \in T
  <2> HIDE DEF T
  <2> QED BY Zenon, <1>1, <1>4, <1>5, Induction
<1> QED BY Zenon, <1>6 DEF e, N

(* The moves of a batch are of frames after its start, in order.            *)
LEMMA MovesFacts ==
  ASSUME NEW from \in 0 .. Len(FrameTimes), NEW to \in 0 .. Len(FrameTimes),
         NEW moves \in Moves(from, to)
  PROVE  /\ moves \in Seq(Steps)
         /\ \A n \in 1 .. Len(moves) : from < moves[n][1] /\ moves[n][1] <= to
         /\ \A i, j \in 1 .. Len(moves) : i < j => Precedes(moves[i], moves[j])
<1> DEFINE C == (to - from) * Cardinality(Violations)
           P == (from + 1 .. to) \X Violations
<1>1. C \in Int
  <2>1. Cardinality(Violations) \in Nat
    BY Zenon, FramesAssumption, FS_CardinalityType
  <2>2. from \in Int /\ to \in Int
    BY FrameFacts
  <2> QED BY <2>1, <2>2
<1>2. PICK n \in 0 .. C : moves \in [1 .. n -> P]
  <2> HIDE DEF C, P
  <2> QED BY Zenon DEF Moves, C, P
<1>3. \A i, j \in DOMAIN moves : i < j => Precedes(moves[i], moves[j])
  BY Zenon DEF Moves
<1>4. P \subseteq Steps /\ \A p \in P : from < p[1] /\ p[1] <= to
  BY FrameFacts DEF Steps, Frames
<1> HIDE DEF C, P
<1>5. n \in Nat
  BY <1>1
<1>6. moves \in Seq(P) /\ Len(moves) = n /\ DOMAIN moves = 1 .. n
  BY <1>2, <1>5
<1>7. \A k \in 1 .. n : moves[k] \in P
  BY Zenon, <1>2
<1>8. moves \in Seq(Steps)
  <2>1. moves \in [1 .. n -> Steps]
    BY Zenon, <1>2, <1>4
  <2> QED BY <1>5, <2>1
<1> QED BY Zenon, <1>3, <1>4, <1>6, <1>7, <1>8

-----------------------------------------------------------------------------
(* Live commits *)

NextOpening(opening, f, v) == [opening EXCEPT ![v] = IF @ = NoFrame THEN f ELSE NoFrame]

(* No stored event is at the step that comes next.                          *)
LEMMA NothingThere ==
  ASSUME NEW db, Evidence(db), NEW g, NEW f \in Frames, NEW v \in Violations,
         Behind(db, g, <<f, v>>)
  PROVE  /\ \A e \in db.events : e.generation = g /\ e.violation = v => e.frame < f
         /\ \A i \in db.incidents : i.generation = g /\ i.violation = v =>
              i.openingFrame < f /\ i.openingFrame # f /\ i.openedAt <= FrameTimes[f]
<1>1. f \in Nat /\ v \in Nat
  BY FrameFacts, FramesAssumption DEF Frames
<1>2. \A e \in db.events : e.frame \in Nat /\ e.violation \in Nat
  <2>1. db.events \subseteq EventRows
    BY Zenon DEF Evidence, EventsAreEvidence
  <2>2. \A e \in EventRows : e.frame \in Frames /\ e.violation \in Violations
    BY Zenon DEF EventRows
  <2>3. Frames \subseteq Nat /\ Violations \subseteq Nat
    BY FrameFacts, FramesAssumption DEF Frames
  <2> QED BY Zenon, <2>1, <2>2, <2>3
<1>3. ASSUME NEW e \in db.events, e.generation = g, e.violation = v PROVE e.frame < f
  <2>1. Precedes(<<e.frame, e.violation>>, <<f, v>>)
    BY Zenon, <1>3 DEF Behind
  <2>2. e.frame < f \/ (e.frame = f /\ e.violation < v)
    BY Zenon, <2>1 DEF Precedes
  <2> QED BY <1>1, <1>2, <1>3, <2>2
<1>4. ASSUME NEW i \in db.incidents, i.generation = g, i.violation = v
      PROVE  i.openingFrame < f /\ i.openingFrame # f /\ i.openedAt <= FrameTimes[f]
  <2>1. Proven(i, db.events) /\ i.openedAt = FrameTimes[i.openingFrame]
    BY Zenon DEF Evidence
  <2>2. PICK e \in db.events : e.generation = i.generation /\ e.violation = i.violation
                               /\ e.frame = i.openingFrame
    BY Zenon, <2>1 DEF Proven
  <2>3. i.openingFrame < f
    BY Zenon, <1>3, <1>4, <2>2
  <2>4. i.openingFrame \in Frames
    BY Zenon DEF Evidence, Databases, IncidentRows
  <2>5. i.openingFrame # f /\ i.openingFrame <= f
    BY <1>1, <2>3, <2>4 DEF Frames
  <2>6. FrameTimes[i.openingFrame] <= FrameTimes[f]
    BY Zenon, <2>4, <2>5, TimeIsMonotone
  <2> QED BY Zenon, <2>1, <2>3, <2>5, <2>6
<1> QED BY Zenon, <1>3, <1>4

LiveWritten(db, g, opening, f, v, t, w) ==
  /\ w.error = "none" /\ w.events = db.events \cup {EventRow(g, t)}
  /\ Agrees(w, g, NextOpening(opening, f, v))

(* A step that follows all stored events of the generation meets no error   *)
(* where evaluator and rows agree, and they agree after it.                 *)
LEMMA LiveStep ==
  ASSUME NEW db, Evidence(db), db.error = "none", NEW g \in Generations,
         NEW opening \in Openings, NEW f \in Frames, NEW v \in Violations,
         NEW t, t = Transition(f, v, opening[v]),
         Behind(db, g, <<f, v>>), Agrees(db, g, opening),
         NEW w, w = WriteTransition(db, g, t)
  PROVE  LiveWritten(db, g, opening, f, v, t, w)
<1> DEFINE after == NextOpening(opening, f, v)
<1>1. IsDatabase(db)
  BY Zenon DEF Evidence, Databases, IsDatabase
<1>2. /\ t \in Transitions /\ t.violation = v /\ t.frame = f
      /\ opening[v] = NoFrame => t.kind = "opened" /\ t.openingFrame = f
      /\ opening[v] # NoFrame =>
           t.kind = "resolved" /\ t.openingFrame = opening[v] /\ opening[v] \in Frames
  <2>1. TransitionAt(t, opening, f, v)
    BY Zenon, TransitionType
  <2> QED BY Zenon, <2>1 DEF TransitionAt
<1>3. /\ after[v] = IF opening[v] = NoFrame THEN f ELSE NoFrame
      /\ \A u \in Violations : u # v => after[u] = opening[u]
  BY Zenon DEF NextOpening, Openings
<1> HIDE DEF after
<1>4. \A i \in db.incidents :
        i.generation \in Generations /\ i.violation \in Violations
        /\ i.openingFrame \in Frames /\ i.openingFrame # NoFrame
  BY FrameFacts DEF Evidence, Databases, IncidentRows, Frames, NoFrame
<1>5. /\ \A e \in db.events : e.generation = g /\ e.violation = v => e.frame < f
      /\ \A i \in db.incidents : i.generation = g /\ i.violation = v =>
           i.openingFrame < f /\ i.openingFrame # f /\ i.openedAt <= FrameTimes[f]
  BY Zenon, NothingThere
<1>6. NoConflict(db, g, t)
  <2>1. EventID(EventRow(g, t)) = <<g, v, t.kind, f>>
    BY Zenon, <1>2 DEF EventID, EventRow
  <2>2. ASSUME NEW e \in db.events, EventID(e) = EventID(EventRow(g, t)) PROVE FALSE
    <3>1. e.generation = g /\ e.violation = v /\ e.frame = f
      BY Zenon, <2>1, <2>2 DEF EventID
    <3>2. f < f /\ f \in Nat
      BY <1>5, <3>1, FrameFacts DEF Frames
    <3> QED BY <3>2
  <2> QED BY Zenon, <2>2 DEF NoConflict
<1>7. \A i \in db.incidents : i \in Known(db, g, t) <=>
        i.generation = g /\ i.violation = v /\ i.openingFrame = t.openingFrame
  BY Zenon, <1>2 DEF Known, Occurrence
<1>8. \A i \in db.incidents : i.generation = g =>
        (i.state = "open" <=> i.openingFrame = opening[i.violation])
  BY Zenon DEF Agrees
<1>9. CASE opening[v] = NoFrame
  <2> DEFINE row == OpeningRow(g, t)
  <2>1. t.kind = "opened" /\ t.openingFrame = f /\ after[v] = f
    BY Zenon, <1>2, <1>3, <1>9
  <2>2. Known(db, g, t) = {}
    BY Zenon, <1>5, <2>1, <1>2 DEF Known, Occurrence
  <2>3. ~ \E i \in db.incidents :
            i.generation = g /\ i.violation = t.violation /\ i.state = "open"
    BY Zenon, <1>2, <1>4, <1>8, <1>9
  <2>4. w = OpeningWritten(db, g, t)
    BY <1>1, <1>6, <2>1, <2>2, <2>3, WriteOpening
  <2>5. /\ w.error = "none" /\ w.events = db.events \cup {EventRow(g, t)}
        /\ w.incidents = db.incidents \cup {row}
    BY <2>2, <2>4 DEF OpeningWritten
  <2>6. /\ row.generation = g /\ row.violation = v /\ row.openingFrame = f
        /\ row.state = "open"
    BY Zenon, <1>2, <2>1 DEF OpeningRow
  <2> HIDE DEF row
  <2>7. ASSUME NEW i \in w.incidents, i.generation = g
        PROVE  i.state = "open" <=> i.openingFrame = after[i.violation]
    <3>1. CASE i = row
      BY Zenon, <2>1, <2>6, <3>1
    <3>2. CASE i \in db.incidents /\ i.violation = v
      BY Zenon, <1>4, <1>5, <1>8, <1>9, <2>1, <2>7, <3>2
    <3>3. CASE i \in db.incidents /\ i.violation # v
      BY Zenon, <1>3, <1>4, <1>8, <2>7, <3>3
    <3> QED BY Zenon, <2>5, <3>1, <3>2, <3>3
  <2>8. ASSUME NEW u \in Violations, after[u] # NoFrame
        PROVE  \E i \in w.incidents : SameOccurrence(i, g, u, after[u])
    <3>1. CASE u = v
      BY Zenon, <2>1, <2>5, <2>6, <3>1 DEF SameOccurrence
    <3>2. CASE u # v
      BY Zenon, <1>3, <2>5, <2>8, <3>2 DEF Agrees
    <3> QED BY Zenon, <3>1, <3>2
  <2> QED BY Zenon, <2>5, <2>7, <2>8 DEF Agrees, after, LiveWritten
<1>10. CASE opening[v] # NoFrame
  <2>1. t.kind = "resolved" /\ t.openingFrame = opening[v] /\ after[v] = NoFrame
    BY Zenon, <1>2, <1>3, <1>10
  <2>2. \E i \in Known(db, g, t) : i.openedAt <= FrameTimes[t.frame]
    <3>1. PICK i \in db.incidents : SameOccurrence(i, g, v, opening[v])
      BY Zenon, <1>10 DEF Agrees
    <3>2. i \in Known(db, g, t) /\ i.openedAt <= FrameTimes[f]
      BY Zenon, <1>5, <1>7, <2>1, <3>1 DEF SameOccurrence
    <3> QED BY Zenon, <1>2, <3>2
  <2>3. w = ResolutionWritten(db, g, t)
    BY Zenon, <1>1, <1>6, <2>1, <2>2, WriteResolution
  <2>4. /\ w.error = "none" /\ w.events = db.events \cup {EventRow(g, t)}
        /\ w.incidents = {Resolved(i, g, t) : i \in db.incidents}
    BY <2>3 DEF ResolutionWritten
  <2>5. ASSUME NEW i \in db.incidents
        PROVE  /\ Resolved(i, g, t).generation = i.generation
               /\ Resolved(i, g, t).violation = i.violation
               /\ Resolved(i, g, t).openingFrame = i.openingFrame
               /\ ~ SameOccurrence(i, g, v, opening[v]) => Resolved(i, g, t) = i
               /\ SameOccurrence(i, g, v, opening[v]) => Resolved(i, g, t).state = "resolved"
    <3>1. i \in IncidentRows
      BY Zenon DEF Evidence, Databases
    <3>2. CASE SameOccurrence(i, g, v, opening[v])
      <4>1. Resolved(i, g, t) =
              [i EXCEPT !.state = "resolved", !.resolvedAt = FrameTimes[t.frame],
                        !.resolution = EventID(EventRow(g, t))]
        BY Zenon, <1>2, <2>1, <3>2 DEF Resolved
      <4> QED BY Zenon, <3>1, <3>2, <4>1 DEF IncidentRows
    <3>3. CASE ~ SameOccurrence(i, g, v, opening[v])
      <4>1. Resolved(i, g, t) = i
        BY Zenon, <1>2, <2>1, <3>3 DEF Resolved
      <4> QED BY Zenon, <3>3, <4>1
    <3> QED BY Zenon, <3>2, <3>3
  <2>6. ASSUME NEW i \in db.incidents, i.generation = g
        PROVE  Resolved(i, g, t).state = "open" <=> i.openingFrame = after[i.violation]
    <3>1. CASE i.violation = v /\ i.openingFrame = opening[v]
      <4>1. Resolved(i, g, t).state = "resolved"
        BY Zenon, <2>5, <2>6, <3>1 DEF SameOccurrence
      <4>2. Resolved(i, g, t).state # "open"
        BY Zenon, <4>1
      <4> QED BY Zenon, <1>4, <2>1, <3>1, <4>2
    <3>2. CASE i.violation = v /\ i.openingFrame # opening[v]
      <4>1. Resolved(i, g, t) = i
        BY Zenon, <2>5, <3>2 DEF SameOccurrence
      <4>2. i.state # "open"
        BY Zenon, <1>8, <2>6, <3>2
      <4> QED BY Zenon, <1>4, <2>1, <3>2, <4>1, <4>2
    <3>3. CASE i.violation # v
      <4>1. Resolved(i, g, t) = i
        BY Zenon, <2>5, <3>3 DEF SameOccurrence
      <4> QED BY Zenon, <1>3, <1>4, <1>8, <2>6, <3>3, <4>1
    <3> QED BY Zenon, <3>1, <3>2, <3>3
  <2>7. \A j \in w.incidents : j.generation = g =>
          (j.state = "open" <=> j.openingFrame = after[j.violation])
    <3> TAKE j \in w.incidents
    <3>1. PICK i \in db.incidents : j = Resolved(i, g, t)
      BY Zenon, <2>4
    <3> QED BY Zenon, <2>5, <2>6, <3>1
  <2>8. ASSUME NEW u \in Violations, after[u] # NoFrame
        PROVE  \E j \in w.incidents : SameOccurrence(j, g, u, after[u])
    <3>1. u # v /\ after[u] = opening[u]
      BY Zenon, <1>3, <2>1, <2>8
    <3>2. PICK i \in db.incidents : SameOccurrence(i, g, u, opening[u])
      BY Zenon, <2>8, <3>1 DEF Agrees
    <3>3. Resolved(i, g, t) \in w.incidents /\ SameOccurrence(Resolved(i, g, t), g, u, after[u])
      BY Zenon, <2>4, <2>5, <3>1, <3>2 DEF SameOccurrence
    <3> QED BY Zenon, <3>3
  <2> QED BY Zenon, <2>4, <2>7, <2>8 DEF Agrees, after, LiveWritten
<1> QED BY Zenon, <1>9, <1>10

LiveCommitted(g, opening, to, w) ==
  /\ w.error = "none" /\ Agrees(w, g, opening)
  /\ \A e \in w.events : e.generation = g => e.frame <= to

(* A live evaluation is written without an error.                           *)
LEMMA LiveWrites ==
  ASSUME Evidence(Stored), NEW g \in Generations, NEW opening \in Openings,
         NEW moves \in Seq(Steps),
         \A i, j \in 1 .. Len(moves) : i < j => Precedes(moves[i], moves[j]),
         \A n \in 1 .. Len(moves) : Behind(Stored, g, moves[n]),
         Agrees(Stored, g, opening),
         NEW to, \A n \in 1 .. Len(moves) : moves[n][1] <= to,
         \A e \in events : e.generation = g => e.frame <= to,
         NEW transitions, transitions = Evaluations(opening, moves)[Len(moves)].transitions,
         NEW w, w = writeEvaluation(g, transitions)
  PROVE  LiveCommitted(g, Evaluations(opening, moves)[Len(moves)].opening, to, w)
<1> DEFINE N == Len(moves)
           e == Evaluations(opening, moves)
           W == Writes(g, transitions)
           T == {n \in 0 .. N :
                   /\ W[n].error = "none" /\ Evidence(W[n])
                   /\ Agrees(W[n], g, e[n].opening)
                   /\ \A k \in n + 1 .. N : Behind(W[n], g, moves[k])
                   /\ \A c \in W[n].events : c.generation = g => c.frame <= to}
<1>1. N \in Nat /\ N \in 0 .. N /\ \A n \in 1 .. N : moves[n] \in Steps
  OBVIOUS
<1>2. /\ transitions \in Seq(Transitions) /\ Len(transitions) = N
      /\ \A k \in 1 .. N : transitions[k] =
           Transition(moves[k][1], moves[k][2], e[k - 1].opening[moves[k][2]])
  BY Zenon, <1>1, EvaluationFacts
<1>3. \A n \in 0 .. N : e[n].opening \in Openings
  BY Zenon, EvaluationFacts
<1>4. e[0] = [opening |-> opening, transitions |-> <<>>]
  BY Zenon, <1>1, EvaluationsRecursion DEF EvaluatedInTurn
<1>5. \A n \in 1 .. N : e[n] = Move(e[n - 1], moves[n][1], moves[n][2])
  <2>1. EvaluatedInTurn(opening, moves)
    BY Zenon, <1>1, EvaluationsRecursion
  <2> QED BY ONLY Zenon, <2>1 DEF EvaluatedInTurn
<1>6. W[0] = Stored
  BY Zenon, <1>1, <1>2, WritesRecursion DEF Stored, WrittenInTurn
<1>7. \A n \in 1 .. N : W[n] = IF W[n - 1].error = "none"
                              THEN WriteTransition(W[n - 1], g, transitions[n]) ELSE W[n - 1]
  <2>1. WrittenInTurn(g, transitions)
    BY Zenon, <1>1, <1>2, WritesRecursion
  <2>2. \A n \in 1 .. Len(transitions) : W[n] =
          IF W[n - 1].error = "none" THEN WriteTransition(W[n - 1], g, transitions[n])
          ELSE W[n - 1]
    BY ONLY Zenon, <2>1 DEF WrittenInTurn
  <2> QED BY Zenon, <1>2, <2>2
<1>8. w = W[N]
  BY Zenon, <1>2 DEF writeEvaluation
<1> HIDE DEF W, e, N
<1>9. 0 \in T
  <2>1. /\ e[0].opening = opening /\ Stored.error = "none" /\ 0 \in 0 .. N
        /\ Stored.events = events
    BY <1>1, <1>4 DEF Stored
  <2>2. \A k \in 0 + 1 .. N : k \in 1 .. N
    BY <1>1
  <2> QED BY Zenon, <1>6, <2>1, <2>2 DEF N
<1>10. ASSUME NEW n \in 0 .. N - 1, n \in T PROVE n + 1 \in T
  <2> DEFINE m == n + 1
             f == moves[m][1]
             v == moves[m][2]
             o == e[n].opening
             t == transitions[m]
             d == W[n]
             x == W[m]
  <2>1. m \in 1 .. N /\ m \in 0 .. N /\ m - 1 = n /\ m \in n + 1 .. N /\ n \in 0 .. N
    BY <1>1
  <2>2. /\ d.error = "none" /\ Evidence(d) /\ Agrees(d, g, o)
        /\ \A k \in n + 1 .. N : Behind(d, g, moves[k])
        /\ \A c \in d.events : c.generation = g => c.frame <= to
    BY Zenon, <1>10
  <2>3. f \in Frames /\ v \in Violations /\ moves[m] = <<f, v>>
    <3>1. moves[m] \in Steps
      BY Zenon, <1>1, <2>1
    <3> HIDE DEF m
    <3> QED BY <3>1 DEF Steps
  <2>4. Behind(d, g, <<f, v>>)
    BY Zenon, <2>1, <2>2, <2>3
  <2>5. t = Transition(f, v, o[v]) /\ t \in Transitions
    <3>1. t = Transition(f, v, o[v])
      BY Zenon, <1>2, <2>1
    <3>2. t \in Transitions
      <4> HIDE DEF m
      <4> QED BY <1>2, <2>1
    <3> QED BY Zenon, <3>1, <3>2
  <2>6. o \in Openings
    BY Zenon, <1>3, <2>1
  <2>7. x = WriteTransition(d, g, t)
    BY Zenon, <1>7, <2>1, <2>2
  <2>8. e[m].opening = NextOpening(o, f, v)
    <3>1. e[m] = Move(e[n], f, v)
      BY Zenon, <1>5, <2>1
    <3> QED BY <3>1 DEF Move, NextOpening
  <2> HIDE DEF f, v, o, t, d, x
  <2>9. /\ x.error = "none" /\ x.events = d.events \cup {EventRow(g, t)}
        /\ Agrees(x, g, NextOpening(o, f, v))
    <3>1. LiveWritten(d, g, o, f, v, t, x)
      BY Zenon, <2>2, <2>3, <2>4, <2>5, <2>6, <2>7, LiveStep
    <3> QED BY Zenon, <3>1 DEF LiveWritten
  <2>10. Evidence(x)
    BY Zenon, <2>2, <2>5, <2>7, <2>9, TransitionIsEvidence
  <2>11. EventRow(g, t).frame = f /\ EventRow(g, t).violation = v
    <3>1. TransitionAt(t, o, f, v)
      BY Zenon, <2>3, <2>5, <2>6, TransitionType
    <3>2. t.frame = f /\ t.violation = v
      BY Zenon, <3>1 DEF TransitionAt
    <3> QED BY Zenon, <3>2 DEF EventRow
  <2>12. ASSUME NEW k \in m + 1 .. N PROVE Behind(x, g, moves[k])
    <3>1. k \in n + 1 .. N /\ k \in 1 .. N /\ m < k
      BY <1>1, <2>1
    <3>2. Precedes(moves[m], moves[k])
      BY Zenon, <2>1, <3>1 DEF N
    <3>4. <<EventRow(g, t).frame, EventRow(g, t).violation>> = moves[m]
      BY Zenon, <2>3, <2>11
    <3>5. Behind(d, g, moves[k])
      BY Zenon, <2>2, <3>1
    <3> QED BY Zenon, <2>9, <3>2, <3>4, <3>5 DEF Behind
  <2>13. Agrees(x, g, e[m].opening)
    BY Zenon, <2>8, <2>9
  <2>14. \A c \in x.events : c.generation = g => c.frame <= to
    <3>1. f <= to
      BY Zenon, <2>1 DEF f, N
    <3> QED BY Zenon, <2>2, <2>9, <2>11, <3>1
  <2> QED BY Zenon, <2>1, <2>9, <2>10, <2>12, <2>13, <2>14 DEF x
<1>11. \A n \in 0 .. N : n \in T
  <2> HIDE DEF T
  <2> QED BY Zenon, <1>1, <1>9, <1>10, Induction
<1> QED BY Zenon, <1>1, <1>8, <1>11 DEF e, N, LiveCommitted

=============================================================================
