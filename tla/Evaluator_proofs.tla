--------------------------- MODULE Evaluator_proofs ---------------------------
(***************************************************************************)
(* Proofs about Evaluator, for any volumes, policy, readings and batches.  *)
(***************************************************************************)
EXTENDS Evaluator, FiniteSetTheorems, WellFoundedInduction, SequenceTheorems, TLAPS

-----------------------------------------------------------------------------
(* Numbers *)

LessThan == {p \in Nat \X Nat : p[1] < p[2]}

(* Every set of numbers has a smallest one.                                 *)
LEMMA Smallest ==
  ASSUME NEW T, T \subseteq Nat, T # {}
  PROVE  \E n \in T : \A m \in T : n <= m
<1>1. IsWellFoundedOn(LessThan, Nat)
  BY Zenon, NatLessThanWellFounded DEF OpToRel, LessThan
<1>2. PICK n \in T : \A m \in T : ~(<<m, n>> \in LessThan)
  BY Zenon, <1>1, WFMin
<1>3. ASSUME NEW m \in T PROVE n <= m
  <2>1. n \in Nat /\ m \in Nat /\ <<m, n>> \notin LessThan
    BY Zenon, <1>2
  <2> QED BY <2>1 DEF LessThan
<1> QED BY Zenon, <1>3

(* Induction: a set of numbers that holds 0 and each successor up to N.     *)
LEMMA Induction ==
  ASSUME NEW N \in Nat, NEW T, 0 \in T, \A n \in 0 .. N - 1 : n \in T => n + 1 \in T
  PROVE  \A n \in 0 .. N : n \in T
<1> DEFINE bad == {n \in Nat : n <= N /\ n \notin T}
<1> SUFFICES ASSUME bad # {} PROVE FALSE
  OBVIOUS
<1>1. PICK n \in bad : \A m \in bad : n <= m
  BY Zenon, Smallest
<1>2. n # 0
  BY Zenon, <1>1
<1>3. n - 1 \in Nat /\ n - 1 \notin bad /\ n - 1 \in 0 .. N - 1
  BY <1>1, <1>2
<1> QED BY <1>1, <1>3

-----------------------------------------------------------------------------
(* Recursion *)

(* The batch is evaluated one observation after the other.                  *)
LEMMA EvaluationsRecursion ==
  ASSUME NEW batch, Len(batch) \in Nat
  PROVE  /\ Evaluations(batch)[0] = [states |-> violations, transitions |-> transitions]
         /\ \A n \in 1 .. Len(batch) :
              LET before == Evaluations(batch)[n - 1]
                  r == Evaluate(Len(frames) + n, batch[n], before.states)
              IN  Evaluations(batch)[n] =
                    [states |-> r.states, transitions |-> before.transitions \o r.transitions]
<1> DEFINE N == Len(batch)
           Body(n, before) ==
             IF n = 0 THEN [states |-> violations, transitions |-> transitions]
             ELSE LET r == Evaluate(Len(frames) + n, batch[n], before.states)
                  IN  [states |-> r.states, transitions |-> before.transitions \o r.transitions]
           Defined == {m \in Nat : \E f : f = [n \in 0 .. m |-> Body(n, f[n - 1])]}
<1>1. \A x, y : Body(0, x) = Body(0, y)
  BY Zenon
<1>2. N \in Defined
  <2> HIDE DEF Body
  <2>1. 0 \in Defined
    <3> DEFINE f == [n \in 0 .. 0 |-> Body(n, 0)]
    <3>1. f = [n \in 0 .. 0 |-> Body(n, f[n - 1])]
      BY <1>1
    <3> QED BY Zenon, <3>1
  <2>2. ASSUME NEW m \in 0 .. N - 1, m \in Defined PROVE m + 1 \in Defined
    <3>1. PICK f : f = [n \in 0 .. m |-> Body(n, f[n - 1])]
      BY Zenon, <2>2
    <3> DEFINE g == [n \in 0 .. m + 1 |-> IF n <= m THEN f[n] ELSE Body(n, f[m])]
    <3>2. ASSUME NEW n \in 0 .. m + 1 PROVE g[n] = Body(n, g[n - 1])
      <4>1. CASE n = 0
        BY <1>1, <3>1, <4>1
      <4>2. CASE n \in 1 .. m
        <5>1. n - 1 \in 0 .. m /\ g[n - 1] = f[n - 1] /\ g[n] = f[n]
          BY <4>2
        <5> QED BY <3>1, <4>2, <5>1
      <4>3. CASE n = m + 1
        <5>1. n - 1 = m /\ g[n - 1] = f[m] /\ g[n] = Body(n, f[m])
          BY <4>3
        <5> QED BY Zenon, <5>1
      <4> QED BY <4>1, <4>2, <4>3
    <3>3. g = [n \in 0 .. m + 1 |-> Body(n, g[n - 1])]
      <4> HIDE DEF g
      <4>1. g = [n \in 0 .. m + 1 |-> g[n]]
        BY Zenon DEF g
      <4> QED BY Zenon, <3>2, <4>1
    <3>4. m + 1 \in Nat
      OBVIOUS
    <3> HIDE DEF g
    <3> QED BY <3>3, <3>4, Zenon
  <2>3. \A n \in 0 .. N : n \in Defined
    <3> HIDE DEF Defined
    <3> QED BY Zenon, <2>1, <2>2, Induction
  <2> HIDE DEF Defined
  <2> QED BY <2>3
<1>3. Evaluations(batch) = [n \in 0 .. N |-> Body(n, Evaluations(batch)[n - 1])]
  BY <1>2, Zenon DEF Evaluations
<1>4. \A n \in 0 .. N : Evaluations(batch)[n] = Body(n, Evaluations(batch)[n - 1])
  <2> HIDE DEF Body
  <2> QED BY Zenon, <1>3
<1>5. Evaluations(batch)[0] = Body(0, Evaluations(batch)[0 - 1])
  <2> HIDE DEF Body
  <2> QED BY <1>4
<1>6. ASSUME NEW n \in 1 .. N
      PROVE  n # 0 /\ Evaluations(batch)[n] = Body(n, Evaluations(batch)[n - 1])
  <2> HIDE DEF Body
  <2> QED BY <1>4
<1> QED BY <1>5, <1>6, Zenon

(* The condition is made up one violation after the other.                  *)
LEMMA ConditionsRecursion ==
  ASSUME NEW states, NEW order, Len(order) \in Nat
  PROVE  /\ ConditionsOver(states, order)[0] = "conforming"
         /\ \A n \in 1 .. Len(order) :
              ConditionsOver(states, order)[n] =
                ConditionStep(ConditionsOver(states, order)[n - 1], states[order[n]].phase)
<1> DEFINE N == Len(order)
           Body(n, before) ==
             IF n = 0 THEN "conforming" ELSE ConditionStep(before, states[order[n]].phase)
           Defined == {m \in Nat : \E f : f = [n \in 0 .. m |-> Body(n, f[n - 1])]}
<1>1. \A x, y : Body(0, x) = Body(0, y)
  BY Zenon
<1>2. N \in Defined
  <2> HIDE DEF Body
  <2>1. 0 \in Defined
    <3> DEFINE f == [n \in 0 .. 0 |-> Body(n, 0)]
    <3>1. f = [n \in 0 .. 0 |-> Body(n, f[n - 1])]
      BY <1>1
    <3> QED BY Zenon, <3>1
  <2>2. ASSUME NEW m \in 0 .. N - 1, m \in Defined PROVE m + 1 \in Defined
    <3>1. PICK f : f = [n \in 0 .. m |-> Body(n, f[n - 1])]
      BY Zenon, <2>2
    <3> DEFINE g == [n \in 0 .. m + 1 |-> IF n <= m THEN f[n] ELSE Body(n, f[m])]
    <3>2. ASSUME NEW n \in 0 .. m + 1 PROVE g[n] = Body(n, g[n - 1])
      <4>1. CASE n = 0
        BY <1>1, <3>1, <4>1
      <4>2. CASE n \in 1 .. m
        <5>1. n - 1 \in 0 .. m /\ g[n - 1] = f[n - 1] /\ g[n] = f[n]
          BY <4>2
        <5> QED BY <3>1, <4>2, <5>1
      <4>3. CASE n = m + 1
        <5>1. n - 1 = m /\ g[n - 1] = f[m] /\ g[n] = Body(n, f[m])
          BY <4>3
        <5> QED BY Zenon, <5>1
      <4> QED BY <4>1, <4>2, <4>3
    <3>3. g = [n \in 0 .. m + 1 |-> Body(n, g[n - 1])]
      <4> HIDE DEF g
      <4>1. g = [n \in 0 .. m + 1 |-> g[n]]
        BY Zenon DEF g
      <4> QED BY Zenon, <3>2, <4>1
    <3>4. m + 1 \in Nat
      OBVIOUS
    <3> HIDE DEF g
    <3> QED BY <3>3, <3>4, Zenon
  <2>3. \A n \in 0 .. N : n \in Defined
    <3> HIDE DEF Defined
    <3> QED BY Zenon, <2>1, <2>2, Induction
  <2> HIDE DEF Defined
  <2> QED BY <2>3
<1>3. ConditionsOver(states, order) = [n \in 0 .. N |-> Body(n, ConditionsOver(states, order)[n - 1])]
  BY <1>2, Zenon DEF ConditionsOver
<1>4. \A n \in 0 .. N : ConditionsOver(states, order)[n] = Body(n, ConditionsOver(states, order)[n - 1])
  <2> HIDE DEF Body
  <2> QED BY Zenon, <1>3
<1>5. ConditionsOver(states, order)[0] = Body(0, ConditionsOver(states, order)[0 - 1])
  <2> HIDE DEF Body
  <2> QED BY <1>4
<1>6. ASSUME NEW n \in 1 .. N
      PROVE  n # 0 /\ ConditionsOver(states, order)[n] = Body(n, ConditionsOver(states, order)[n - 1])
  <2> HIDE DEF Body
  <2> QED BY <1>4
<1> QED BY <1>5, <1>6, Zenon

-----------------------------------------------------------------------------
(* Streaks *)

(* Those of the frames that come after all the others.                      *)
Latest(these, others) == {x \in these : \A y \in others : y < x}

(* Sets of frames before frame m.                                           *)
Before(m, these) == these \subseteq 1 .. m - 1

(* Frame numbers up to m form finite sets.                                  *)
LEMMA IntervalFinite ==
  ASSUME NEW m \in Nat, NEW S, S \subseteq 1 .. m
  PROVE  IsFiniteSet(S) /\ Cardinality(S) \in Nat
<1>1. IsFiniteSet(1 .. m)
  BY FS_Interval
<1> QED BY Zenon, <1>1, FS_Subset, FS_CardinalityType

(* A subset of the frames has at most as many members.                      *)
LEMMA FewerFrames ==
  ASSUME NEW m \in Nat, NEW S, S \subseteq 1 .. m, NEW T, T \subseteq S
  PROVE  Cardinality(T) <= Cardinality(S) /\ Cardinality(T) \in Nat /\ Cardinality(S) \in Nat
BY Zenon, IntervalFinite, FS_Subset

(* A frame that is last continues the streak of its kind.                   *)
LEMMA LatestGrows ==
  ASSUME NEW m \in Nat \ {0}, NEW these, NEW others, Before(m, these), Before(m, others),
         NEW all, all = these \cup {m}
  PROVE  /\ Latest(all, others) = Latest(these, others) \cup {m}
         /\ Cardinality(Latest(all, others)) = Cardinality(Latest(these, others)) + 1
         /\ Cardinality(Latest(these, others)) \in Nat
         /\ Latest(others, all) = {}
<1>1. Latest(all, others) = Latest(these, others) \cup {m}
  BY DEF Latest, Before
<1>2. Latest(these, others) \subseteq 1 .. m - 1 /\ m \notin Latest(these, others)
  <2>1. Latest(these, others) \subseteq these
    BY Zenon DEF Latest
  <2>2. m \notin 1 .. m - 1
    OBVIOUS
  <2> QED BY Zenon, <2>1, <2>2 DEF Before
<1>3. IsFiniteSet(Latest(these, others)) /\ Cardinality(Latest(these, others)) \in Nat
  BY <1>2, IntervalFinite
<1>4. Latest(others, all) = {}
  <2> SUFFICES ASSUME NEW x \in Latest(others, all) PROVE FALSE
    BY Zenon
  <2>1. x \in 1 .. m - 1 /\ m < x
    BY Zenon DEF Latest, Before
  <2> QED BY <2>1
<1>5. Cardinality(Latest(these, others) \cup {m}) = Cardinality(Latest(these, others)) + 1
  <2> HIDE DEF Latest, Before
  <2> QED BY Zenon, <1>2, <1>3, FS_AddElement
<1> QED BY Zenon, <1>1, <1>3, <1>4, <1>5

(* A streak at the end is one in a row.                                     *)
LEMMA LatestInARow ==
  ASSUME NEW m \in Nat \ {0}, NEW these, NEW others, Before(m, these), Before(m, others),
         NEW n \in Nat, Cardinality(Latest(these \cup {m}, others)) >= n
  PROVE  \E i \in these \cup {m} :
           /\ InARow(n, these \cup {m}, others, i, m)
           /\ \A y \in others : y < i
<1> DEFINE all == these \cup {m}
           latest == Latest(all, others)
<1>1. latest \subseteq all /\ all \subseteq 1 .. m /\ m \in latest
  BY LatestGrows DEF Latest, Before
<1>2. PICK i \in latest : \A x \in latest : i <= x
  <2>1. latest \subseteq Nat /\ latest # {}
    BY <1>1
  <2> HIDE DEF latest
  <2> QED BY Zenon, <2>1, Smallest
<1>3. i \in all /\ i \in Nat /\ \A y \in others : y < i
  BY <1>1, <1>2 DEF Latest
<1>4. latest \subseteq all \cap (i .. m)
  BY <1>1, <1>2
<1>5. Cardinality(latest) <= Cardinality(all \cap (i .. m)) /\ Cardinality(latest) \in Nat
      /\ Cardinality(all \cap (i .. m)) \in Nat
  <2>1. all \cap (i .. m) \subseteq 1 .. m
    BY Zenon, <1>1
  <2> HIDE DEF latest, all
  <2> QED BY Zenon, <1>4, <2>1, FewerFrames
<1>6. others \cap (i .. m) = {}
  BY <1>3 DEF Before
<1>7. InARow(n, all, others, i, m)
  BY <1>5, <1>6 DEF InARow
<1> QED BY Zenon, <1>3, <1>7

(* What is in a row up to the last frame is part of the streak at the end.  *)
LEMMA InARowIsLatest ==
  ASSUME NEW m \in Nat \ {0}, NEW these, NEW others, Before(m, these), Before(m, others),
         NEW n \in Nat, NEW i \in Nat, InARow(n, these \cup {m}, others, i, m)
  PROVE  Cardinality(Latest(these \cup {m}, others)) >= n
<1> DEFINE all == these \cup {m}
           row == all \cap (i .. m)
<1>1. row \subseteq Latest(all, others)
  BY DEF Latest, Before, InARow
<1>2. Latest(all, others) \subseteq 1 .. m
  <2>1. Latest(all, others) \subseteq all
    BY Zenon DEF Latest
  <2>2. all \subseteq 1 .. m
    BY DEF Before
  <2> QED BY Zenon, <2>1, <2>2
<1>3. Cardinality(row) <= Cardinality(Latest(all, others)) /\ Cardinality(row) \in Nat
      /\ Cardinality(Latest(all, others)) \in Nat
  <2> HIDE DEF row, all
  <2> QED BY Zenon, <1>1, <1>2, FewerFrames
<1>4. Cardinality(row) >= n
  BY Zenon DEF InARow
<1> QED BY <1>3, <1>4

(* What is in a row before a frame is so with and without that frame.       *)
LEMMA InARowBefore ==
  ASSUME NEW m \in Nat \ {0}, NEW these, NEW others, Before(m, these), Before(m, others),
         NEW n, NEW i \in Nat, NEW j \in 1 .. m - 1
  PROVE  /\ InARow(n, these \cup {m}, others, i, j) <=> InARow(n, these, others, i, j)
         /\ InARow(n, these, others \cup {m}, i, j) <=> InARow(n, these, others, i, j)
<1>1. (these \cup {m}) \cap (i .. j) = these \cap (i .. j)
  OBVIOUS
<1>2. (others \cup {m}) \cap (i .. j) = others \cap (i .. j)
  OBVIOUS
<1> QED BY Zenon, <1>1, <1>2 DEF InARow

(* A row of at least one is not empty.                                      *)
LEMMA RowIsAnInterval ==
  ASSUME NEW n \in Nat \ {0}, NEW these, NEW others, NEW i \in Nat, NEW j \in Nat,
         InARow(n, these, others, i, j)
  PROVE  i <= j
<1> SUFFICES ASSUME j < i PROVE FALSE
  OBVIOUS
<1>1. these \cap (i .. j) = {}
  OBVIOUS
<1>2. Cardinality(these \cap (i .. j)) = 0
  BY Zenon, <1>1, FS_EmptySet
<1> QED BY <1>2 DEF InARow

(* A breach at frame m.                                                     *)
LEMMA BreachAdded ==
  ASSUME NEW m \in Nat \ {0}, NEW outside, NEW inside, Before(m, outside), Before(m, inside)
  PROVE  /\ InIncident(outside, inside) => InIncident(outside \cup {m}, inside)
         /\ Cardinality(Latest(outside \cup {m}, inside)) >= OpenAfterSamples =>
              InIncident(outside \cup {m}, inside)
         /\ InIncident(outside \cup {m}, inside) =>
              \/ InIncident(outside, inside)
              \/ Cardinality(Latest(outside \cup {m}, inside)) >= OpenAfterSamples
<1> DEFINE all == outside \cup {m}
           Recovered(out, j) == \E k, l \in inside :
             j < k /\ InARow(RecoverAfterSamples, inside, out, k, l)
<1>0. OpenAfterSamples \in Nat \ {0} /\ outside \subseteq Nat /\ inside \subseteq 1 .. m - 1
  BY PolicyAssumption DEF Before
<1>1. ASSUME NEW j PROVE Recovered(all, j) <=> Recovered(outside, j)
  <2>1. ASSUME NEW k \in inside, NEW l \in inside
        PROVE  InARow(RecoverAfterSamples, inside, all, k, l) <=>
                 InARow(RecoverAfterSamples, inside, outside, k, l)
    <3>1. k \in Nat /\ l \in 1 .. m - 1
      BY <1>0
    <3> QED BY Zenon, <3>1, InARowBefore
  <2> QED BY Zenon, <2>1
<1>2. ASSUME NEW i \in outside, NEW j \in outside
      PROVE  InARow(OpenAfterSamples, all, inside, i, j) <=>
               InARow(OpenAfterSamples, outside, inside, i, j)
  BY Zenon, <1>0, InARowBefore DEF Before
<1> HIDE DEF Recovered
<1>3. /\ InIncident(outside, inside) <=> \E i, j \in outside :
           InARow(OpenAfterSamples, outside, inside, i, j) /\ ~Recovered(outside, j)
      /\ InIncident(all, inside) <=> \E i, j \in all :
           InARow(OpenAfterSamples, all, inside, i, j) /\ ~Recovered(all, j)
  BY Zenon DEF InIncident, Recovered
<1>4. InIncident(outside, inside) => InIncident(all, inside)
  BY Zenon, <1>1, <1>2, <1>3
<1>5. ASSUME Cardinality(Latest(all, inside)) >= OpenAfterSamples PROVE InIncident(all, inside)
  <2>1. PICK i \in all : InARow(OpenAfterSamples, all, inside, i, m)
    BY Zenon, <1>0, <1>5, LatestInARow
  <2>2. ~Recovered(all, m)
    BY <1>0 DEF Recovered
  <2> QED BY Zenon, <1>3, <2>1, <2>2
<1>6. ASSUME InIncident(all, inside), ~InIncident(outside, inside)
      PROVE  Cardinality(Latest(all, inside)) >= OpenAfterSamples
  <2>1. PICK i \in all, j \in all :
          InARow(OpenAfterSamples, all, inside, i, j) /\ ~Recovered(all, j)
    BY Zenon, <1>3, <1>6
  <2>2. i \in Nat /\ j \in Nat /\ i <= j
    BY Zenon, <1>0, <2>1, RowIsAnInterval
  <2>3. CASE j = m
    BY Zenon, <1>0, <2>1, <2>2, <2>3, InARowIsLatest
  <2>4. CASE j # m
    <3>1. i \in outside /\ j \in outside
      BY <2>2, <2>4 DEF Before
    <3> QED BY Zenon, <1>1, <1>2, <1>3, <1>6, <2>1, <3>1
  <2> QED BY Zenon, <2>3, <2>4
<1> QED BY Zenon, <1>4, <1>5, <1>6

(* Evidence of no breach at frame m.                                        *)
LEMMA InsideAdded ==
  ASSUME NEW m \in Nat \ {0}, NEW outside, NEW inside, Before(m, outside), Before(m, inside)
  PROVE  /\ InIncident(outside, inside \cup {m}) => InIncident(outside, inside)
         /\ Cardinality(Latest(inside \cup {m}, outside)) >= RecoverAfterSamples =>
              ~InIncident(outside, inside \cup {m})
         /\ InIncident(outside, inside) =>
              \/ InIncident(outside, inside \cup {m})
              \/ Cardinality(Latest(inside \cup {m}, outside)) >= RecoverAfterSamples
<1> DEFINE all == inside \cup {m}
           Recovered(in, j) == \E k, l \in in :
             j < k /\ InARow(RecoverAfterSamples, in, outside, k, l)
<1>0. RecoverAfterSamples \in Nat \ {0} /\ inside \subseteq Nat /\ outside \subseteq 1 .. m - 1
      /\ inside \subseteq 1 .. m - 1
  BY PolicyAssumption DEF Before
<1>1. ASSUME NEW i \in outside, NEW j \in outside
      PROVE  InARow(OpenAfterSamples, outside, all, i, j) <=>
               InARow(OpenAfterSamples, outside, inside, i, j)
  <2>1. i \in Nat /\ j \in 1 .. m - 1
    BY <1>0
  <2> QED BY Zenon, <2>1, InARowBefore
<1>2. ASSUME NEW k \in inside, NEW l \in inside
      PROVE  InARow(RecoverAfterSamples, all, outside, k, l) <=>
               InARow(RecoverAfterSamples, inside, outside, k, l)
  BY Zenon, <1>0, InARowBefore
<1>3. ASSUME NEW j, Recovered(inside, j) PROVE Recovered(all, j)
  BY Zenon, <1>2, <1>3
<1>4. ASSUME NEW j \in outside, Recovered(all, j), ~Recovered(inside, j)
      PROVE  Cardinality(Latest(all, outside)) >= RecoverAfterSamples
  <2>1. PICK k \in all, l \in all :
          j < k /\ InARow(RecoverAfterSamples, all, outside, k, l)
    BY Zenon, <1>4
  <2>2. k \in Nat /\ l \in Nat /\ k <= l
    BY Zenon, <1>0, <2>1, RowIsAnInterval
  <2>3. CASE l = m
    BY Zenon, <1>0, <2>1, <2>2, <2>3, InARowIsLatest
  <2>4. CASE l # m
    <3>1. k \in inside /\ l \in inside
      BY <2>2, <2>4 DEF Before
    <3> QED BY Zenon, <1>2, <1>4, <2>1, <3>1
  <2> QED BY Zenon, <2>3, <2>4
<1>5. ASSUME Cardinality(Latest(all, outside)) >= RecoverAfterSamples, NEW j \in outside
      PROVE  Recovered(all, j)
  <2>1. PICK k \in all : /\ InARow(RecoverAfterSamples, all, outside, k, m)
                         /\ \A y \in outside : y < k
    BY Zenon, <1>0, <1>5, LatestInARow
  <2> QED BY Zenon, <2>1
<1> HIDE DEF Recovered
<1>6. /\ InIncident(outside, inside) <=> \E i, j \in outside :
           InARow(OpenAfterSamples, outside, inside, i, j) /\ ~Recovered(inside, j)
      /\ InIncident(outside, all) <=> \E i, j \in outside :
           InARow(OpenAfterSamples, outside, all, i, j) /\ ~Recovered(all, j)
  BY Zenon DEF InIncident, Recovered
<1> QED BY Zenon, <1>1, <1>3, <1>4, <1>5, <1>6

-----------------------------------------------------------------------------
(* One observation of one violation *)

(* The states advance() is given: IncidentStates and ZeroState.             *)
AnyStates ==
  [phase : Phases \cup {""}, openingFrame : Nat, outside : Nat, inside : Nat,
   firstSuspectedAt : Nat \cup {NoTime}, openedAt : Nat \cup {NoTime},
   lastObservedAt : Nat \cup {NoTime}]

(* The zero state and a state that was written are the two kinds there are. *)
LEMMA KindsOfStates == ZeroState \in AnyStates /\ IncidentStates \subseteq AnyStates
BY Zenon DEF ZeroState, AnyStates, IncidentStates, Phases, NoTime, NoFrame

(* The fields of either kind of state.                                      *)
LEMMA StateFields ==
  ASSUME NEW s \in AnyStates
  PROVE  /\ s.phase \in {"", "clear", "suspected", "open", "recovering"}
         /\ s.openingFrame \in Nat /\ s.outside \in Nat /\ s.inside \in Nat
         /\ s.firstSuspectedAt \in Nat \cup {NoTime} /\ s.openedAt \in Nat \cup {NoTime}
         /\ s.lastObservedAt \in Nat \cup {NoTime}
BY Zenon DEF AnyStates, Phases

(* A breach opens an incident; evidence of no breach resolves one.          *)
Opens(s) == s.phase \notin {"open", "recovering"} /\ s.outside + 1 >= OpenAfterSamples
Resolves(s) == s.phase \in {"open", "recovering"} /\ s.inside + 1 >= RecoverAfterSamples

(* What a breach does to the state.                                         *)
BreachResult(v, s, frame, at, r) ==
  /\ r.state \in IncidentStates
  /\ r.state.phase = IF Opens(s) \/ s.phase \in {"open", "recovering"} THEN "open" ELSE "suspected"
  /\ r.state.outside = s.outside + 1
  /\ r.state.inside = 0
  /\ r.state.openingFrame = IF Opens(s) THEN frame ELSE s.openingFrame
  /\ r.state.firstSuspectedAt =
       IF s.phase \in {"", "clear"} THEN at ELSE s.firstSuspectedAt
  /\ r.transitions = IF Opens(s) THEN <<Opened(v, frame)>> ELSE <<>>

(* What advance does with evidence of a breach.                             *)
LEMMA OutsideStep ==
  ASSUME NEW v, NEW s \in AnyStates, NEW frame \in Nat, NEW at \in Nat
  PROVE  BreachResult(v, s, frame, at, advanceOutside(v, s, frame, at))
<1> DEFINE r == advanceOutside(v, s, frame, at)
           counted == CountOutside(s, at)
           moved ==
             CASE s.phase \in {"", "clear"} ->
                    [counted EXCEPT !.phase = "suspected", !.firstSuspectedAt = at]
               [] s.phase = "recovering" -> [counted EXCEPT !.phase = "open"]
               [] OTHER -> counted
           after == [moved EXCEPT !.phase = "open", !.openedAt = moved.firstSuspectedAt,
                                  !.openingFrame = frame]
<1>0. SUFFICES BreachResult(v, s, frame, at, r)
  BY Zenon
<1>1. /\ counted \in AnyStates /\ counted.lastObservedAt = at
      /\ counted.phase = s.phase /\ counted.openingFrame = s.openingFrame
      /\ counted.outside = s.outside + 1 /\ counted.inside = 0
      /\ counted.firstSuspectedAt = s.firstSuspectedAt
  <2>0. s.outside \in Nat
    BY Zenon, StateFields
  <2>1. s.outside + 1 \in Nat
    BY <2>0
  <2>2. counted = [s EXCEPT !.inside = 0, !.outside = s.outside + 1, !.lastObservedAt = at]
    BY Zenon DEF AnyStates, CountOutside
  <2>3. counted \in AnyStates
    <3>1. \A n \in Nat :
            [s EXCEPT !.inside = 0, !.outside = n, !.lastObservedAt = at] \in AnyStates
      BY Zenon DEF AnyStates
    <3> QED BY Zenon, <2>1, <2>2, <3>1
  <2> QED BY Zenon, <2>2, <2>3 DEF AnyStates
<1> HIDE DEF counted
<1>2. /\ moved \in AnyStates /\ moved.lastObservedAt = at
      /\ moved.phase = (CASE s.phase \in {"", "clear"} -> "suspected"
                         [] s.phase = "recovering" -> "open"
                         [] OTHER -> s.phase)
      /\ moved.openingFrame = s.openingFrame
      /\ moved.outside = s.outside + 1 /\ moved.inside = 0
      /\ moved.firstSuspectedAt = IF s.phase \in {"", "clear"} THEN at ELSE s.firstSuspectedAt
  <2>1. CASE s.phase \in {"", "clear"}
    BY Zenon, <1>1, <2>1 DEF AnyStates, Phases
  <2>2. CASE s.phase = "recovering"
    BY Zenon, <1>1, <2>2 DEF AnyStates, Phases
  <2>3. CASE s.phase \in {"suspected", "open"}
    BY Zenon, <1>1, <2>3
  <2> QED BY Zenon, <2>1, <2>2, <2>3 DEF AnyStates, Phases
<1>3. moved.phase \in {"suspected", "open"} /\ (moved.phase = "open" <=> s.phase \in {"open", "recovering"})
  BY Zenon, <1>2 DEF AnyStates, Phases
<1>4. r = IF Opens(s) THEN Result(after, <<Opened(v, frame)>>) ELSE Result(moved, <<>>)
  <2>1. r = IF moved.phase = "suspected" /\ moved.outside >= OpenAfterSamples
            THEN Result(after, <<Opened(v, frame)>>) ELSE Result(moved, <<>>)
    BY Zenon DEF advanceOutside, counted
  <2> HIDE DEF moved, after
  <2> QED BY Zenon, <1>2, <1>3, <2>1 DEF Opens
<1> HIDE DEF moved
<1> HIDE DEF r
<1>5. /\ after \in AnyStates /\ after.lastObservedAt = at /\ after.phase = "open"
      /\ after.openingFrame = frame /\ after.outside = moved.outside
      /\ after.inside = moved.inside /\ after.firstSuspectedAt = moved.firstSuspectedAt
  BY Zenon, <1>2 DEF AnyStates, Phases
<1> HIDE DEF after
<1>6. after \in IncidentStates /\ moved \in IncidentStates
  BY Zenon, <1>2, <1>3, <1>5 DEF AnyStates, IncidentStates, Phases
<1>7. r.state = (IF Opens(s) THEN after ELSE moved)
      /\ r.transitions = IF Opens(s) THEN <<Opened(v, frame)>> ELSE <<>>
  BY Zenon, <1>4 DEF Result
<1>8. Opens(s) => s.phase \notin {"open", "recovering"}
  BY Zenon DEF Opens
<1> QED BY Zenon, <1>2, <1>3, <1>5, <1>6, <1>7, <1>8 DEF BreachResult

(* What evidence of no breach does to the state.                            *)
InsideResult(v, s, frame, r) ==
  /\ r.state \in IncidentStates
  /\ r.state.phase =
       IF ~Resolves(s) /\ s.phase \in {"open", "recovering"} THEN "recovering" ELSE "clear"
  /\ r.state.outside = 0
  /\ r.state.phase = "recovering" =>
       /\ r.state.inside = s.inside + 1
       /\ r.state.openingFrame = s.openingFrame
       /\ r.state.firstSuspectedAt = s.firstSuspectedAt
  /\ r.transitions = IF Resolves(s) THEN <<Resolved(v, frame, s.openingFrame)>> ELSE <<>>

(* What advance does with evidence of no breach.                            *)
LEMMA InsideStep ==
  ASSUME NEW v, NEW s \in AnyStates, NEW frame \in Nat, NEW at \in Nat
  PROVE  InsideResult(v, s, frame, advanceInside(v, s, frame, at))
<1> DEFINE r == advanceInside(v, s, frame, at)
           counted == [s EXCEPT !.outside = 0, !.inside = @ + 1, !.lastObservedAt = at]
           moved == IF s.phase = "open" THEN [counted EXCEPT !.phase = "recovering"] ELSE counted
           seen == [moved EXCEPT !.phase = "clear"]
<1>0. SUFFICES InsideResult(v, s, frame, r)
  BY Zenon
<1>1. /\ counted \in AnyStates /\ counted.lastObservedAt = at
      /\ counted.phase = s.phase /\ counted.openingFrame = s.openingFrame
      /\ counted.outside = 0 /\ counted.inside = s.inside + 1
      /\ counted.firstSuspectedAt = s.firstSuspectedAt
  <2>0. s.inside \in Nat
    BY Zenon, StateFields
  <2>1. s.inside + 1 \in Nat
    BY <2>0
  <2>2. counted = [s EXCEPT !.outside = 0, !.inside = s.inside + 1, !.lastObservedAt = at]
    BY Zenon DEF AnyStates
  <2>3. counted \in AnyStates
    BY Zenon, <2>1, <2>2 DEF AnyStates
  <2> QED BY Zenon, <2>2, <2>3 DEF AnyStates
<1> HIDE DEF counted
<1>2. /\ moved \in AnyStates /\ moved.lastObservedAt = at
      /\ moved.phase = IF s.phase = "open" THEN "recovering" ELSE s.phase
      /\ moved.openingFrame = s.openingFrame
      /\ moved.outside = 0 /\ moved.inside = s.inside + 1
      /\ moved.firstSuspectedAt = s.firstSuspectedAt
  <2>1. CASE s.phase = "open"
    BY Zenon, <1>1, <2>1 DEF AnyStates, Phases
  <2>2. CASE s.phase # "open"
    BY Zenon, <1>1, <2>2
  <2> QED BY Zenon, <2>1, <2>2
<1>3. r = CASE s.phase = "suspected" -> Result(ClearState(at), <<>>)
            [] moved.phase = "recovering" /\ moved.inside >= RecoverAfterSamples ->
                 Result(ClearState(at), <<Resolved(v, frame, s.openingFrame)>>)
            [] s.phase = "" -> Result(seen, <<>>)
            [] OTHER -> Result(moved, <<>>)
  BY Zenon DEF advanceInside, counted
<1> HIDE DEF moved
<1> HIDE DEF r
<1>4. seen \in IncidentStates /\ seen.phase = "clear" /\ seen.outside = 0
  BY Zenon, <1>2 DEF AnyStates, IncidentStates, Phases
<1> HIDE DEF seen
<1>5. /\ ClearState(at) \in IncidentStates
      /\ ClearState(at).phase = "clear" /\ ClearState(at).outside = 0
  BY Zenon DEF ClearState, ZeroState, IncidentStates, Phases, NoTime, NoFrame
<1>6. s.phase # "" => moved \in IncidentStates
  BY Zenon, <1>2 DEF AnyStates, IncidentStates, Phases
<1>7. s.phase \in {"", "clear", "suspected", "open", "recovering"}
  BY Zenon DEF AnyStates, Phases
<1>8. CASE s.phase \in {"", "clear", "suspected"}
  <2>1. ~Resolves(s) /\ ~(moved.phase = "recovering" /\ moved.inside >= RecoverAfterSamples)
    BY Zenon, <1>2, <1>8 DEF Resolves
  <2>2. CASE s.phase = "suspected"
    <3>1. r = Result(ClearState(at), <<>>)
      BY Zenon, <1>3, <2>1, <2>2
    <3> QED BY Zenon, <1>5, <2>1, <2>2, <3>1 DEF Result, InsideResult
  <2>3. CASE s.phase = ""
    <3>1. r = Result(seen, <<>>)
      BY Zenon, <1>3, <2>1, <2>3
    <3>2. r.state = seen /\ r.transitions = <<>>
      BY Zenon, <3>1 DEF Result
    <3> QED BY Zenon, <1>4, <2>1, <2>3, <3>2 DEF InsideResult
  <2>4. CASE s.phase = "clear"
    <3>1. r = Result(moved, <<>>)
      BY Zenon, <1>3, <2>1, <2>4
    <3> QED BY Zenon, <1>2, <1>6, <2>1, <2>4, <3>1 DEF Result, InsideResult
  <2> QED BY Zenon, <1>8, <2>2, <2>3, <2>4
<1>9. CASE s.phase \in {"open", "recovering"}
  <2>1. moved.phase = "recovering" /\ (Resolves(s) <=> moved.inside >= RecoverAfterSamples)
    BY Zenon, <1>2, <1>9 DEF Resolves
  <2>2. CASE Resolves(s)
    <3>1. r = Result(ClearState(at), <<Resolved(v, frame, s.openingFrame)>>)
      BY Zenon, <1>3, <1>9, <2>1, <2>2
    <3> QED BY Zenon, <1>5, <2>2, <3>1 DEF Result, InsideResult
  <2>3. CASE ~Resolves(s)
    <3>1. r = Result(moved, <<>>)
      BY Zenon, <1>3, <1>9, <2>1, <2>3
    <3>2. r.state = moved /\ r.transitions = <<>>
      BY Zenon, <3>1 DEF Result
    <3>3. moved \in IncidentStates
      BY Zenon, <1>6, <1>9
    <3> QED BY Zenon, <1>2, <1>9, <2>1, <2>3, <3>2, <3>3 DEF InsideResult
  <2> QED BY Zenon, <2>2, <2>3
<1> QED BY Zenon, <1>7, <1>8, <1>9

(* What the state of a violation says of the frames with evidence of it:    *)
(* whether there is an incident, which kind of evidence is the latest, and  *)
(* how long the streak at the end is that may open or resolve one.          *)
Matches(s, outside, inside) ==
  /\ InIncident(outside, inside) <=> s.phase \in {"open", "recovering"}
  /\ Latest(outside, inside) = {} <=> s.phase \in {"", "clear", "recovering"}
  /\ s.phase \notin {"open", "recovering"} => Cardinality(Latest(outside, inside)) = s.outside
  /\ s.phase \in {"open", "recovering"} => Cardinality(Latest(inside, outside)) = s.inside

(* A violation without evidence has the zero state.                         *)
LEMMA NoFramesMatch == Matches(ZeroState, {}, {})
<1>1. ~InIncident({}, {}) /\ Latest({}, {}) = {}
  BY Zenon DEF InIncident, Latest
<1>2. Cardinality({}) = 0
  BY Zenon, FS_EmptySet
<1> QED BY Zenon, <1>1, <1>2 DEF Matches, ZeroState

(* A breach keeps the state of a violation and its evidence in step.        *)
LEMMA BreachMatches ==
  ASSUME NEW v, NEW s \in AnyStates, NEW m \in Nat \ {0}, NEW at \in Nat,
         NEW outside, NEW inside, Before(m, outside), Before(m, inside),
         Matches(s, outside, inside)
  PROVE  Matches(advanceOutside(v, s, m, at).state, outside \cup {m}, inside)
<1> DEFINE t == advanceOutside(v, s, m, at).state
           all == outside \cup {m}
<1>0. SUFFICES Matches(t, all, inside)
  BY Zenon
<1>2. /\ t.phase = IF Opens(s) \/ s.phase \in {"open", "recovering"} THEN "open" ELSE "suspected"
      /\ t.outside = s.outside + 1
      /\ t.inside = 0
  <2>1. BreachResult(v, s, m, at, advanceOutside(v, s, m, at))
    BY Zenon, OutsideStep
  <2> QED BY Zenon, <2>1 DEF BreachResult
<1> HIDE DEF t
<1> HIDE DEF all
<1>3. /\ Cardinality(Latest(all, inside)) = Cardinality(Latest(outside, inside)) + 1
      /\ Latest(all, inside) # {}
      /\ Latest(inside, all) = {}
  BY LatestGrows DEF all
<1>4. Cardinality(Latest(inside, all)) = 0
  BY Zenon, <1>3, FS_EmptySet
<1>5. CASE s.phase \in {"open", "recovering"}
  <2>1. InIncident(all, inside)
    BY Zenon, <1>5, BreachAdded DEF Matches, all
  <2> QED BY Zenon, <1>2, <1>3, <1>4, <1>5, <2>1 DEF Matches
<1>6. CASE s.phase \notin {"open", "recovering"}
  <2>1. Cardinality(Latest(all, inside)) = t.outside
    BY Zenon, <1>2, <1>3, <1>6 DEF Matches
  <2>2. InIncident(all, inside) <=> t.outside >= OpenAfterSamples
    BY Zenon, <1>6, <2>1, BreachAdded DEF Matches, all
  <2> QED BY Zenon, <1>2, <1>3, <1>4, <1>6, <2>1, <2>2 DEF Matches, Opens
<1> QED BY Zenon, <1>5, <1>6

(* So does a frame inside.                                                  *)
LEMMA InsideMatches ==
  ASSUME NEW v, NEW s \in AnyStates, NEW m \in Nat \ {0}, NEW at \in Nat,
         NEW outside, NEW inside, Before(m, outside), Before(m, inside),
         Matches(s, outside, inside)
  PROVE  Matches(advanceInside(v, s, m, at).state, outside, inside \cup {m})
<1> DEFINE r == advanceInside(v, s, m, at)
           t == r.state
           all == inside \cup {m}
<1>0. SUFFICES Matches(t, outside, all)
  BY Zenon
<1>1. InsideResult(v, s, m, r)
  BY Zenon, InsideStep
<1> HIDE DEF r
<1>2. /\ t.phase = IF ~Resolves(s) /\ s.phase \in {"open", "recovering"} THEN "recovering" ELSE "clear"
      /\ t.outside = 0
      /\ t.phase = "recovering" => t.inside = s.inside + 1
  BY Zenon, <1>1 DEF InsideResult
<1> HIDE DEF t
<1> HIDE DEF all
<1>3. /\ Cardinality(Latest(all, outside)) = Cardinality(Latest(inside, outside)) + 1
      /\ Latest(outside, all) = {}
  BY LatestGrows DEF all
<1>4. Cardinality(Latest(outside, all)) = 0
  BY Zenon, <1>3, FS_EmptySet
<1>5. CASE s.phase \in {"open", "recovering"}
  <2>1. Cardinality(Latest(all, outside)) = s.inside + 1
    BY Zenon, <1>3, <1>5 DEF Matches
  <2>2. InIncident(outside, all) <=> ~(s.inside + 1 >= RecoverAfterSamples)
    BY Zenon, <1>5, <2>1, InsideAdded DEF Matches, all
  <2> QED BY Zenon, <1>2, <1>3, <1>4, <1>5, <2>1, <2>2 DEF Matches, Resolves
<1>6. CASE s.phase \notin {"open", "recovering"}
  <2>1. ~InIncident(outside, all)
    BY Zenon, <1>6, InsideAdded DEF Matches, all
  <2> QED BY Zenon, <1>2, <1>3, <1>4, <1>6, <2>1 DEF Matches, Resolves
<1> QED BY Zenon, <1>5, <1>6

-----------------------------------------------------------------------------
(* One observation of all violations *)

(* EvaluatorState.Violations.                                               *)
StateMap(states) ==
  /\ DOMAIN states \subseteq ViolationTypes
  /\ \A v \in DOMAIN states : states[v] \in IncidentStates

(* The state of a violation, whether or not the map has an entry for it.    *)
LEMMA StateOfType ==
  ASSUME NEW states, StateMap(states), NEW v
  PROVE  /\ StateOf(states, v) \in AnyStates
         /\ v \in DOMAIN states <=> StateOf(states, v).phase # ""
<1>1. ZeroState.phase = "" /\ \A s \in IncidentStates : s.phase # ""
  BY Zenon DEF ZeroState, IncidentStates, Phases
<1>2. CASE v \in DOMAIN states
  BY Zenon, <1>1, <1>2, KindsOfStates DEF StateMap, StateOf
<1>3. CASE v \notin DOMAIN states
  BY Zenon, <1>1, <1>3, KindsOfStates DEF StateOf
<1> QED BY Zenon, <1>2, <1>3

(* advance returns a state.                                                 *)
LEMMA AdvanceType ==
  ASSUME NEW v, NEW s \in AnyStates, NEW breached, NEW frame \in Nat, NEW at \in Nat
  PROVE  advance(v, s, breached, frame, at).state \in IncidentStates
<1>1. BreachResult(v, s, frame, at, advanceOutside(v, s, frame, at))
  BY Zenon, OutsideStep
<1>2. InsideResult(v, s, frame, advanceInside(v, s, frame, at))
  BY Zenon, InsideStep
<1> QED BY Zenon, <1>1, <1>2 DEF advance, BreachResult, InsideResult

(* What Evaluate leaves of the state of a violation.                        *)
StateAfter(v, o, frame, before, after) ==
  IF Known(v, o)
  THEN /\ v \in DOMAIN after
       /\ after[v] = advance(v, StateOf(before, v), Breached(v, o), frame, o.at).state
  ELSE IF StateOf(before, v).phase \in {"", "clear"}
       THEN v \notin DOMAIN after
       ELSE v \in DOMAIN before /\ v \in DOMAIN after /\ after[v] = before[v]

(* Evaluate advances the state of each violation by its own evidence, and of*)
(* no other.                                                                *)
LEMMA EvaluateStates ==
  ASSUME NEW states, StateMap(states), NEW frame \in Nat, NEW o, o.at \in Nat
  PROVE  LET after == Evaluate(frame, o, states).states
         IN  StateMap(after) /\ \A v \in ViolationTypes : StateAfter(v, o, frame, states, after)
<1> DEFINE next == [v \in ViolationTypes |->
                      advance(v, StateOf(states, v), Breached(v, o), frame, o.at)]
           known == {v \in ViolationTypes : Known(v, o)}
           kept == UNION {markNotEvaluated(states, v) : v \in ViolationTypes \ known}
           after == [v \in known \cup kept |-> IF v \in known THEN next[v].state ELSE states[v]]
<1>1. Evaluate(frame, o, states).states = after
  BY Zenon DEF Evaluate
<1>2. ASSUME NEW v
      PROVE  v \in kept <=> /\ v \in ViolationTypes /\ ~Known(v, o)
                            /\ StateOf(states, v).phase \notin {"", "clear"}
  BY Zenon DEF markNotEvaluated
<1>3. ASSUME NEW v \in kept PROVE v \in DOMAIN states
  BY Zenon, <1>2, <1>3, StateOfType
<1>4. ASSUME NEW v \in known
      PROVE  next[v].state = advance(v, StateOf(states, v), Breached(v, o), frame, o.at).state
             /\ next[v].state \in IncidentStates
  BY Zenon, StateOfType, AdvanceType
<1>5. ASSUME NEW v \in ViolationTypes PROVE v \in known <=> Known(v, o)
  BY Zenon
<1> HIDE DEF next, known, kept
<1>6. DOMAIN after = known \cup kept
  BY Zenon
<1>7. known \subseteq ViolationTypes /\ kept \subseteq ViolationTypes
  BY Zenon, <1>2 DEF known
<1>8. StateMap(after)
  BY Zenon, <1>3, <1>4, <1>6, <1>7 DEF StateMap
<1>9. ASSUME NEW v \in ViolationTypes PROVE StateAfter(v, o, frame, states, after)
  <2>1. CASE Known(v, o)
    <3>1. v \in DOMAIN after /\ after[v] = next[v].state
      BY Zenon, <1>5, <2>1
    <3> HIDE DEF after
    <3> QED BY Zenon, <1>4, <1>5, <2>1, <3>1 DEF StateAfter
  <2>2. CASE ~Known(v, o) /\ StateOf(states, v).phase \in {"", "clear"}
    <3>1. v \notin DOMAIN after
      BY Zenon, <1>2, <1>5, <2>2
    <3> HIDE DEF after
    <3> QED BY Zenon, <2>2, <3>1 DEF StateAfter
  <2>3. CASE ~Known(v, o) /\ StateOf(states, v).phase \notin {"", "clear"}
    <3>1. v \in DOMAIN states /\ v \in DOMAIN after /\ after[v] = states[v]
      BY Zenon, <1>2, <1>3, <1>5, <2>3
    <3> HIDE DEF after
    <3> QED BY Zenon, <2>3, <3>1 DEF StateAfter
  <2> QED BY Zenon, <2>1, <2>2, <2>3
<1> HIDE DEF after
<1> QED BY Zenon, <1>1, <1>8, <1>9

(* The frames with evidence of a violation, one frame later.                *)
LEMMA EvidenceGrows ==
  ASSUME NEW F, NEW m \in Nat \ {0}, NEW v
  PROVE  /\ Before(m, OutsideFrames(F, m - 1, v)) /\ Before(m, InsideFrames(F, m - 1, v))
         /\ OutsideFrames(F, m, v) = IF Known(v, F[m]) /\ Breached(v, F[m])
              THEN OutsideFrames(F, m - 1, v) \cup {m} ELSE OutsideFrames(F, m - 1, v)
         /\ InsideFrames(F, m, v) = IF Known(v, F[m]) /\ ~Breached(v, F[m])
              THEN InsideFrames(F, m - 1, v) \cup {m} ELSE InsideFrames(F, m - 1, v)
<1>1. 1 .. m = (1 .. m - 1) \cup {m} /\ m \notin 1 .. m - 1
  OBVIOUS
<1>2. OutsideFrames(F, m - 1, v) \subseteq 1 .. m - 1 /\ InsideFrames(F, m - 1, v) \subseteq 1 .. m - 1
  BY Zenon DEF OutsideFrames, InsideFrames
<1>3. OutsideFrames(F, m, v) = IF Known(v, F[m]) /\ Breached(v, F[m])
        THEN OutsideFrames(F, m - 1, v) \cup {m} ELSE OutsideFrames(F, m - 1, v)
  BY Zenon, <1>1 DEF OutsideFrames
<1>4. InsideFrames(F, m, v) = IF Known(v, F[m]) /\ ~Breached(v, F[m])
        THEN InsideFrames(F, m - 1, v) \cup {m} ELSE InsideFrames(F, m - 1, v)
  BY Zenon, <1>1 DEF InsideFrames
<1> QED BY Zenon, <1>2, <1>3, <1>4 DEF Before

(* The states are the ones the first m frames of F call for.                *)
Follows(F, m, states) ==
  \A v \in ViolationTypes :
    /\ Matches(StateOf(states, v), OutsideFrames(F, m, v), InsideFrames(F, m, v))
    /\ v \notin DOMAIN states => m = 0 \/ ~Known(v, F[m])

(* Forgetting a clear state loses nothing.                                  *)
LEMMA ClearIsZero ==
  ASSUME NEW s \in AnyStates, s.phase \in {"", "clear"}, NEW outside, NEW inside,
         Matches(s, outside, inside)
  PROVE  Matches(ZeroState, outside, inside)
<1>1. Cardinality({}) = 0
  BY Zenon, FS_EmptySet
<1>2. ZeroState.phase = "" /\ ZeroState.outside = 0
  BY Zenon DEF ZeroState
<1> QED BY Zenon, <1>1, <1>2 DEF Matches

(* One more frame keeps every state in step with its evidence.              *)
LEMMA FollowsStep ==
  ASSUME NEW F, NEW m \in Nat \ {0}, NEW before, NEW after, StateMap(before), StateMap(after),
         F[m].at \in Nat, Follows(F, m - 1, before),
         \A v \in ViolationTypes : StateAfter(v, F[m], m, before, after)
  PROVE  Follows(F, m, after)
<1> SUFFICES ASSUME NEW v \in ViolationTypes
             PROVE  /\ Matches(StateOf(after, v), OutsideFrames(F, m, v), InsideFrames(F, m, v))
                    /\ v \notin DOMAIN after => ~Known(v, F[m])
  BY Zenon DEF Follows
<1> DEFINE s == StateOf(before, v)
           outside == OutsideFrames(F, m - 1, v)
           inside == InsideFrames(F, m - 1, v)
<1>1. s \in AnyStates /\ Matches(s, outside, inside) /\ StateAfter(v, F[m], m, before, after)
  BY Zenon, StateOfType DEF Follows
<1>2. /\ Before(m, outside) /\ Before(m, inside)
      /\ OutsideFrames(F, m, v) =
           IF Known(v, F[m]) /\ Breached(v, F[m]) THEN outside \cup {m} ELSE outside
      /\ InsideFrames(F, m, v) =
           IF Known(v, F[m]) /\ ~Breached(v, F[m]) THEN inside \cup {m} ELSE inside
  BY EvidenceGrows, Zenon
<1>3. v \in DOMAIN after => StateOf(after, v) = after[v]
  BY Zenon DEF StateOf
<1> HIDE DEF outside, inside
<1>4. CASE Known(v, F[m]) /\ Breached(v, F[m])
  <2>1. v \in DOMAIN after /\ after[v] = advanceOutside(v, s, m, F[m].at).state
    BY Zenon, <1>1, <1>4 DEF StateAfter, advance
  <2> HIDE DEF s
  <2>2. Matches(advanceOutside(v, s, m, F[m].at).state, outside \cup {m}, inside)
    BY Zenon, <1>1, <1>2, BreachMatches
  <2> QED BY Zenon, <1>2, <1>3, <1>4, <2>1, <2>2
<1>5. CASE Known(v, F[m]) /\ ~Breached(v, F[m])
  <2>1. v \in DOMAIN after /\ after[v] = advanceInside(v, s, m, F[m].at).state
    BY Zenon, <1>1, <1>5 DEF StateAfter, advance
  <2> HIDE DEF s
  <2>2. Matches(advanceInside(v, s, m, F[m].at).state, outside, inside \cup {m})
    BY Zenon, <1>1, <1>2, InsideMatches
  <2> QED BY Zenon, <1>2, <1>3, <1>5, <2>1, <2>2
<1>6. CASE ~Known(v, F[m])
  <2>1. OutsideFrames(F, m, v) = outside /\ InsideFrames(F, m, v) = inside
    BY Zenon, <1>2, <1>6
  <2>2. CASE s.phase \in {"", "clear"}
    <3>1. v \notin DOMAIN after
      BY Zenon, <1>1, <1>6, <2>2 DEF StateAfter
    <3>2. StateOf(after, v) = ZeroState
      BY Zenon, <3>1 DEF StateOf
    <3> HIDE DEF s
    <3> QED BY Zenon, <1>1, <1>6, <2>1, <2>2, <3>2, ClearIsZero
  <2>3. CASE s.phase \notin {"", "clear"}
    <3>1. v \in DOMAIN after /\ after[v] = s
      BY Zenon, <1>1, <1>6, <2>3 DEF StateAfter, StateOf
    <3> QED BY Zenon, <1>1, <1>3, <2>1, <3>1
  <2> QED BY Zenon, <2>2, <2>3
<1> QED BY Zenon, <1>4, <1>5, <1>6

(* Where the first m frames of F have brought the states, PhaseOfHistory    *)
(* is the phase.                                                            *)
LEMMA FollowedPhase ==
  ASSUME NEW F, NEW m, NEW states, StateMap(states), Follows(F, m, states),
         NEW v \in ViolationTypes
  PROVE  /\ v \in DOMAIN states => states[v].phase = PhaseOfHistory(F, m, v)
         /\ v \notin DOMAIN states =>
              PhaseOfHistory(F, m, v) = "clear" /\ (m = 0 \/ ~Known(v, F[m]))
<1> DEFINE s == StateOf(states, v)
           outside == OutsideFrames(F, m, v)
           inside == InsideFrames(F, m, v)
<1>1. /\ s \in AnyStates /\ Matches(s, outside, inside)
      /\ v \in DOMAIN states <=> s.phase # ""
      /\ v \notin DOMAIN states => m = 0 \/ ~Known(v, F[m])
      /\ v \in DOMAIN states => states[v] = s
  BY Zenon, StateOfType DEF Follows, StateOf
<1> HIDE DEF s
<1>2. s.phase \in {"", "clear", "suspected", "open", "recovering"}
  BY Zenon, <1>1, StateFields
<1>3. EndsOutside(outside, inside) <=> Latest(outside, inside) # {}
  BY Zenon DEF EndsOutside, Latest
<1>4. PhaseOfHistory(F, m, v) =
        IF InIncident(outside, inside)
        THEN (IF EndsOutside(outside, inside) THEN "open" ELSE "recovering")
        ELSE (IF EndsOutside(outside, inside) THEN "suspected" ELSE "clear")
  BY Zenon DEF PhaseOfHistory
<1> HIDE DEF outside, inside
<1>5. PhaseOfHistory(F, m, v) = IF s.phase = "" THEN "clear" ELSE s.phase
  BY Zenon, <1>1, <1>2, <1>3, <1>4 DEF Matches
<1> QED BY Zenon, <1>1, <1>5

-----------------------------------------------------------------------------
(* Transitions *)

InProgress(s) == s.phase \in {"open", "recovering"}

(* What advance() emits for the change from s to t at frame m.              *)
Emits(v, s, t, m, emitted) ==
  \/ /\ emitted = <<>>
     /\ InProgress(s) <=> InProgress(t)
     /\ InProgress(s) => t.openingFrame = s.openingFrame
  \/ /\ emitted = <<Opened(v, m)>>
     /\ ~InProgress(s) /\ InProgress(t) /\ t.openingFrame = m
  \/ /\ emitted = <<Resolved(v, m, s.openingFrame)>>
     /\ InProgress(s) /\ ~InProgress(t)

(* advance emits a transition exactly when an incident opens or resolves.   *)
LEMMA AdvanceEmits ==
  ASSUME NEW v, NEW s \in AnyStates, NEW breached \in BOOLEAN, NEW m \in Nat, NEW at \in Nat
  PROVE  LET r == advance(v, s, breached, m, at) IN Emits(v, s, r.state, m, r.transitions)
<1>1. BreachResult(v, s, m, at, advanceOutside(v, s, m, at))
  BY Zenon, OutsideStep
<1>2. InsideResult(v, s, m, advanceInside(v, s, m, at))
  BY Zenon, InsideStep
<1>3. Emits(v, s, advanceOutside(v, s, m, at).state, m, advanceOutside(v, s, m, at).transitions)
  <2> DEFINE r == advanceOutside(v, s, m, at)
  <2> SUFFICES Emits(v, s, r.state, m, r.transitions)
    BY Zenon
  <2>1. BreachResult(v, s, m, at, r)
    BY Zenon, <1>1
  <2> HIDE DEF r
  <2> QED BY Zenon, <2>1 DEF BreachResult, Emits, InProgress, Opens
<1>4. Emits(v, s, advanceInside(v, s, m, at).state, m, advanceInside(v, s, m, at).transitions)
  <2> DEFINE r == advanceInside(v, s, m, at)
  <2> SUFFICES Emits(v, s, r.state, m, r.transitions)
    BY Zenon
  <2>1. InsideResult(v, s, m, r)
    BY Zenon, <1>2
  <2> HIDE DEF r
  <2> QED BY Zenon, <2>1 DEF InsideResult, Emits, InProgress, Resolves
<1> QED BY Zenon, <1>3, <1>4 DEF advance

TransitionRecords ==
  [violation : ViolationTypes, transition : {"opened", "resolved"}, frame : Nat, openingFrame : Nat]

(* The latest transition of v, if there is one.                             *)
LastOf(v, ts) ==
  {i \in 1 .. Len(ts) : /\ ts[i].violation = v
                        /\ \A k \in i + 1 .. Len(ts) : ts[k].violation # v}

(* The latest transition of v is the opening of the incident that is in     *)
(* progress, and a resolution if none is.                                   *)
Tied(v, s, ts) ==
  IF InProgress(s)
  THEN \E i \in LastOf(v, ts) : ts[i].transition = "opened" /\ ts[i].frame = s.openingFrame
  ELSE \A i \in LastOf(v, ts) : ts[i].transition = "resolved"

(* Transition j continues the ones before it: IncidentsAlternate.           *)
Preceding(ts, j) ==
  {i \in 1 .. j - 1 : /\ ts[i].violation = ts[j].violation
                      /\ \A k \in i + 1 .. j - 1 : ts[k].violation # ts[j].violation}

Continues(ts, j) ==
  \/ /\ ts[j].transition = "opened" /\ ts[j].openingFrame = ts[j].frame
     /\ \A i \in Preceding(ts, j) : ts[i].transition = "resolved"
  \/ /\ ts[j].transition = "resolved"
     /\ \E i \in Preceding(ts, j) : /\ ts[i].transition = "opened"
                                  /\ ts[i].frame = ts[j].openingFrame
                                  /\ ts[j].openingFrame < ts[j].frame

Alternates(ts) == \A j \in 1 .. Len(ts) : Continues(ts, j)

(* The elements of a sequence with one more at its end.                     *)
LEMMA AppendOne ==
  ASSUME NEW S, NEW ts \in Seq(S), NEW x \in S, NEW longer, longer = ts \o <<x>>
  PROVE  /\ longer \in Seq(S) /\ Len(longer) = Len(ts) + 1 /\ Len(ts) \in Nat
         /\ \A i \in 1 .. Len(ts) : longer[i] = ts[i]
         /\ longer[Len(ts) + 1] = x
OBVIOUS

(* One more transition, after the ones that alternate.                      *)
LEMMA OneMore ==
  ASSUME NEW S, NEW ts \in Seq(S), NEW x \in S, NEW longer, longer = ts \o <<x>>, Alternates(ts)
  PROVE  /\ LastOf(x.violation, longer) = {Len(ts) + 1}
         /\ \A w : w # x.violation => LastOf(w, longer) = LastOf(w, ts)
         /\ Continues(longer, Len(ts) + 1) => Alternates(longer)
<1>1. /\ Len(longer) = Len(ts) + 1 /\ Len(ts) \in Nat
      /\ \A i \in 1 .. Len(ts) : longer[i] = ts[i]
      /\ longer[Len(ts) + 1] = x
  BY AppendOne
<1>2. LastOf(x.violation, longer) = {Len(ts) + 1}
  <2>1. Len(ts) + 1 \in LastOf(x.violation, longer)
    BY <1>1 DEF LastOf
  <2>2. ASSUME NEW i \in LastOf(x.violation, longer), i # Len(ts) + 1 PROVE FALSE
    <3>1. Len(ts) + 1 \in i + 1 .. Len(longer)
      BY <1>1, <2>2 DEF LastOf
    <3> QED BY Zenon, <1>1, <3>1 DEF LastOf
  <2> QED BY Zenon, <2>1, <2>2
<1>3. ASSUME NEW w, w # x.violation PROVE LastOf(w, longer) = LastOf(w, ts)
  <2>1. ASSUME NEW i PROVE i \in LastOf(w, longer) <=> i \in LastOf(w, ts)
    <3>1. ASSUME i \in LastOf(w, longer) PROVE i \in LastOf(w, ts)
      BY <1>1, <1>3, <3>1 DEF LastOf
    <3>2. ASSUME i \in LastOf(w, ts) PROVE i \in LastOf(w, longer)
      BY <1>1, <1>3, <3>2 DEF LastOf
    <3> QED BY Zenon, <3>1, <3>2
  <2>2. ASSUME NEW i \in LastOf(w, longer) PROVE i \in LastOf(w, ts)
    BY Zenon, <2>1
  <2>3. ASSUME NEW i \in LastOf(w, ts) PROVE i \in LastOf(w, longer)
    BY Zenon, <2>1
  <2> QED BY Zenon, <2>2, <2>3
<1>4. ASSUME NEW j \in 1 .. Len(ts) PROVE Continues(longer, j)
  <2>1. Continues(ts, j)
    BY Zenon DEF Alternates
  <2>2. longer[j] = ts[j] /\ \A i \in 1 .. j - 1 : longer[i] = ts[i]
    BY <1>1
  <2>3. Preceding(longer, j) = Preceding(ts, j)
    <3>1. ASSUME NEW i \in 1 .. j - 1, NEW k \in i + 1 .. j - 1 PROVE longer[k] = ts[k]
      BY <2>2
    <3>2. ASSUME NEW i \in 1 .. j - 1
          PROVE  (\A k \in i + 1 .. j - 1 : longer[k].violation # longer[j].violation)
                 <=> (\A k \in i + 1 .. j - 1 : ts[k].violation # ts[j].violation)
      BY Zenon, <2>2, <3>1
    <3> QED BY <2>2, <3>2, Zenon DEF Preceding
  <2>4. \A i \in Preceding(ts, j) : longer[i] = ts[i]
    BY Zenon, <2>2 DEF Preceding
  <2> QED BY Zenon, <2>1, <2>2, <2>3, <2>4 DEF Continues
<1>5. ASSUME Continues(longer, Len(ts) + 1) PROVE Alternates(longer)
  BY <1>1, <1>4, <1>5 DEF Alternates
<1> QED BY Zenon, <1>2, <1>3, <1>5

(* The transitions that v adds at frame m.                                  *)
LEMMA EmittedAlternates ==
  ASSUME NEW S, S \subseteq TransitionRecords, NEW ts \in Seq(S), Alternates(ts),
         NEW v, NEW s, NEW t, NEW m \in Nat, NEW emitted \in Seq(S), NEW longer,
         longer = ts \o emitted,
         Emits(v, s, t, m, emitted), Tied(v, s, ts),
         InProgress(s) => s.openingFrame \in Nat /\ s.openingFrame < m
  PROVE  /\ longer \in Seq(S) /\ Alternates(longer) /\ Tied(v, t, longer)
         /\ \A w, u : w # v /\ Tied(w, u, ts) => Tied(w, u, longer)
<1>1. CASE emitted = <<>>
  <2>1. longer = ts
    BY <1>1
  <2>2. Tied(v, t, ts)
    BY Zenon, <1>1 DEF Emits, Tied
  <2> QED BY Zenon, <2>1, <2>2
<1>2. ASSUME emitted # <<>> PROVE longer \in Seq(S) /\ Alternates(longer) /\ Tied(v, t, longer)
                                  /\ \A w, u : w # v /\ Tied(w, u, ts) => Tied(w, u, longer)
  <2>1. PICK x : /\ emitted = <<x>> /\ x.violation = v
                 /\ \/ x = Opened(v, m) /\ ~InProgress(s) /\ InProgress(t) /\ t.openingFrame = m
                    \/ x = Resolved(v, m, s.openingFrame) /\ InProgress(s) /\ ~InProgress(t)
    BY Zenon, <1>2 DEF Emits, Opened, Resolved
  <2>2. x \in S
    BY <2>1
  <2>3. longer = ts \o <<x>>
    BY Zenon, <2>1
  <2>4. /\ longer \in Seq(S) /\ Len(longer) = Len(ts) + 1 /\ Len(ts) \in Nat
        /\ \A i \in 1 .. Len(ts) : longer[i] = ts[i]
        /\ longer[Len(ts) + 1] = x
    BY <2>2, <2>3, AppendOne
  <2>5. /\ LastOf(v, longer) = {Len(ts) + 1}
        /\ \A w : w # v => LastOf(w, longer) = LastOf(w, ts)
        /\ Continues(longer, Len(ts) + 1) => Alternates(longer)
    <3>1. /\ LastOf(x.violation, longer) = {Len(ts) + 1}
          /\ \A w : w # x.violation => LastOf(w, longer) = LastOf(w, ts)
          /\ Continues(longer, Len(ts) + 1) => Alternates(longer)
      BY <2>2, <2>3, OneMore, Zenon
    <3>2. x.violation = v
      BY Zenon, <2>1
    <3> QED BY <3>1, <3>2, Zenon
  <2>6. Preceding(longer, Len(ts) + 1) = LastOf(v, ts)
    <3>1. Len(ts) + 1 - 1 = Len(ts) /\ longer[Len(ts) + 1].violation = v
      BY <2>1, <2>4
    <3> DEFINE n == Len(ts)
    <3>2. ASSUME NEW i \in 1 .. n, NEW k \in i + 1 .. n PROVE longer[k] = ts[k]
      BY <2>4
    <3>3. \A i \in 1 .. n : longer[i] = ts[i]
      BY Zenon, <2>4
    <3>4. Preceding(longer, n + 1) =
            {i \in 1 .. n : /\ longer[i].violation = v
                            /\ \A k \in i + 1 .. n : longer[k].violation # v}
      BY <3>1 DEF Preceding
    <3> HIDE DEF n
    <3>5. Preceding(longer, n + 1) =
            {i \in 1 .. n : /\ ts[i].violation = v
                            /\ \A k \in i + 1 .. n : ts[k].violation # v}
      BY <3>2, <3>3, <3>4, Zenon
    <3> QED BY <3>5, Zenon DEF LastOf, n
  <2>7. ASSUME NEW i \in LastOf(v, ts) PROVE i \in 1 .. Len(ts) /\ longer[i] = ts[i]
    BY Zenon, <2>4 DEF LastOf
  <2>8. Continues(longer, Len(ts) + 1) /\ Tied(v, t, longer)
    <3>1. CASE x = Opened(v, m) /\ ~InProgress(s) /\ InProgress(t) /\ t.openingFrame = m
      <4>1. x.transition = "opened" /\ x.openingFrame = x.frame /\ x.frame = m
        BY Zenon, <3>1 DEF Opened
      <4>2. \A i \in LastOf(v, ts) : longer[i].transition = "resolved"
        BY Zenon, <2>7, <3>1 DEF Tied
      <4>3. Continues(longer, Len(ts) + 1)
        BY Zenon, <2>1, <2>4, <2>6, <4>1, <4>2 DEF Continues
      <4>4. Tied(v, t, longer)
        BY <2>4, <2>5, <3>1, <4>1 DEF Tied
      <4> QED BY Zenon, <4>3, <4>4
    <3>2. CASE x = Resolved(v, m, s.openingFrame) /\ InProgress(s) /\ ~InProgress(t)
      <4>1. x.transition = "resolved" /\ x.openingFrame = s.openingFrame /\ x.frame = m
        BY Zenon, <3>2 DEF Resolved
      <4>2. \E i \in LastOf(v, ts) : longer[i].transition = "opened" /\ longer[i].frame = x.openingFrame
        BY Zenon, <2>7, <3>2, <4>1 DEF Tied
      <4>3. x.openingFrame < x.frame
        BY Zenon, <3>2, <4>1
      <4>4. Continues(longer, Len(ts) + 1)
        BY Zenon, <2>1, <2>4, <2>6, <4>1, <4>2, <4>3 DEF Continues
      <4>5. Tied(v, t, longer)
        BY Zenon, <2>4, <2>5, <3>2, <4>1 DEF Tied
      <4> QED BY Zenon, <4>4, <4>5
    <3> QED BY Zenon, <2>1, <3>1, <3>2
  <2>9. ASSUME NEW w, NEW u, w # v, Tied(w, u, ts) PROVE Tied(w, u, longer)
    <3>1. LastOf(w, longer) = LastOf(w, ts)
      BY Zenon, <2>5, <2>9
    <3>2. ASSUME NEW i \in LastOf(w, ts) PROVE longer[i] = ts[i]
      BY Zenon, <2>4 DEF LastOf
    <3> QED BY Zenon, <2>9, <3>1, <3>2 DEF Tied
  <2> QED BY Zenon, <2>4, <2>5, <2>8, <2>9
<1> QED BY Zenon, <1>1, <1>2

(* Transitions of the first m frames of F; from frame b on, they rest on    *)
(* nothing from before c.                                                   *)
Recorded(F, m, b, c) ==
  {x \in TransitionRecords :
     /\ x.frame \in 1 .. m /\ x.openingFrame \in 1 .. m
     /\ x.frame >= b => F[x.openingFrame].at >= c}

(* A state that is not clear rests on one of the first m frames of F, and   *)
(* on nothing from before c.                                                *)
Anchored(F, m, c, s) ==
  /\ s.phase \notin {"", "clear"} =>
       m # 0 /\ c <= s.firstSuspectedAt /\ s.firstSuspectedAt <= F[m].at
  /\ InProgress(s) => s.openingFrame \in 1 .. m /\ s.firstSuspectedAt <= F[s.openingFrame].at

(* advance keeps the frame and the times an incident in progress started at.*)
LEMMA AnchoredStep ==
  ASSUME NEW F, NEW m \in Nat \ {0}, NEW c \in Nat, NEW v, NEW s \in AnyStates,
         F[m].at \in Nat, c <= F[m].at,
         m # 1 => F[m - 1].at \in Nat /\ F[m - 1].at <= F[m].at,
         \A i \in 1 .. m : F[i].at \in Nat,
         Anchored(F, m - 1, c, s)
  PROVE  /\ Anchored(F, m, c, s)
         /\ Anchored(F, m, c, advanceOutside(v, s, m, F[m].at).state)
         /\ Anchored(F, m, c, advanceInside(v, s, m, F[m].at).state)
<1>1. /\ s.phase \in {"", "clear", "suspected", "open", "recovering"}
      /\ s.openingFrame \in Nat /\ s.firstSuspectedAt \in Int
  <2>1. /\ s.phase \in {"", "clear", "suspected", "open", "recovering"}
        /\ s.openingFrame \in Nat /\ s.firstSuspectedAt \in Nat \cup {NoTime}
    BY Zenon, StateFields
  <2>2. Nat \cup {NoTime} \subseteq Int
    BY DEF NoTime
  <2> QED BY Zenon, <2>1, <2>2
<1>2. Anchored(F, m, c, s)
  <2>1. ASSUME s.phase \notin {"", "clear"}
        PROVE  c <= s.firstSuspectedAt /\ s.firstSuspectedAt <= F[m].at
    <3>1. m - 1 # 0 /\ c <= s.firstSuspectedAt /\ s.firstSuspectedAt <= F[m - 1].at
      BY Zenon, <2>1 DEF Anchored
    <3>2. F[m - 1].at \in Nat /\ F[m - 1].at <= F[m].at
      BY <3>1
    <3>3. \A x \in Int : \A y, z \in Nat : x <= y /\ y <= z => x <= z
      OBVIOUS
    <3> QED BY <1>1, <3>1, <3>2, <3>3, Zenon
  <2>2. ASSUME InProgress(s)
        PROVE  s.openingFrame \in 1 .. m /\ s.firstSuspectedAt <= F[s.openingFrame].at
    <3>1. s.openingFrame \in 1 .. m - 1 /\ s.firstSuspectedAt <= F[s.openingFrame].at
      BY <2>2, Zenon DEF Anchored
    <3>2. 1 .. m - 1 \subseteq 1 .. m
      OBVIOUS
    <3> QED BY <3>1, <3>2, Zenon
  <2> QED BY Zenon, <2>1, <2>2 DEF Anchored
<1>3. Anchored(F, m, c, advanceOutside(v, s, m, F[m].at).state)
  <2> DEFINE t == advanceOutside(v, s, m, F[m].at).state
  <2>1. /\ t.phase = IF Opens(s) \/ s.phase \in {"open", "recovering"} THEN "open" ELSE "suspected"
        /\ t.openingFrame = IF Opens(s) THEN m ELSE s.openingFrame
        /\ t.firstSuspectedAt = IF s.phase \in {"", "clear"} THEN F[m].at ELSE s.firstSuspectedAt
    <3>1. BreachResult(v, s, m, F[m].at, advanceOutside(v, s, m, F[m].at))
      BY Zenon, OutsideStep
    <3> QED BY Zenon, <3>1 DEF BreachResult
  <2> HIDE DEF t
  <2>2. c <= t.firstSuspectedAt /\ t.firstSuspectedAt <= F[m].at
    <3>1. CASE s.phase \in {"", "clear"}
      <4>1. t.firstSuspectedAt = F[m].at
        BY <2>1, <3>1, Zenon
      <4> QED BY <4>1
    <3>2. CASE s.phase \notin {"", "clear"}
      BY <1>2, <2>1, <3>2, Zenon DEF Anchored
    <3> QED BY Zenon, <3>1, <3>2
  <2>3. InProgress(t) => t.openingFrame \in 1 .. m /\ t.firstSuspectedAt <= F[t.openingFrame].at
    <3>1. CASE Opens(s)
      <4>1. t.openingFrame = m
        BY <2>1, <3>1, Zenon
      <4>2. m \in 1 .. m
        OBVIOUS
      <4> QED BY <2>2, <4>1, <4>2, Zenon
    <3>2. CASE ~Opens(s)
      BY Zenon, <1>1, <1>2, <2>1, <3>2 DEF Anchored, InProgress
    <3> QED BY Zenon, <3>1, <3>2
  <2> QED BY Zenon, <2>2, <2>3 DEF Anchored, t
<1>4. Anchored(F, m, c, advanceInside(v, s, m, F[m].at).state)
  <2> DEFINE t == advanceInside(v, s, m, F[m].at).state
  <2>1. /\ t.phase = IF ~Resolves(s) /\ s.phase \in {"open", "recovering"} THEN "recovering" ELSE "clear"
        /\ t.phase = "recovering" => /\ t.openingFrame = s.openingFrame
                                     /\ t.firstSuspectedAt = s.firstSuspectedAt
    <3>1. InsideResult(v, s, m, advanceInside(v, s, m, F[m].at))
      BY Zenon, InsideStep
    <3> QED BY Zenon, <3>1 DEF InsideResult
  <2> HIDE DEF t
  <2> SUFFICES Anchored(F, m, c, t)
    BY Zenon DEF t
  <2> QED BY Zenon, <1>2, <2>1 DEF Anchored, InProgress
<1> QED BY Zenon, <1>2, <1>3, <1>4

(* The transitions of one observation, violation by violation.              *)
LEMMA EvaluateEmits ==
  ASSUME NEW states, StateMap(states), NEW m \in Nat, NEW o, o.at \in Nat,
         NEW r, r = Evaluate(m, o, states)
  PROVE  \E lateral, vertical, temporal :
           /\ r.transitions = lateral \o vertical \o temporal
           /\ Emits("lateral", StateOf(states, "lateral"), StateOf(r.states, "lateral"), m, lateral)
           /\ Emits("vertical", StateOf(states, "vertical"), StateOf(r.states, "vertical"), m, vertical)
           /\ Emits("temporal", StateOf(states, "temporal"), StateOf(r.states, "temporal"), m, temporal)
<1> DEFINE next == [v \in ViolationTypes |->
                      advance(v, StateOf(states, v), Breached(v, o), m, o.at)]
           known == {v \in ViolationTypes : Known(v, o)}
           Emitted(v) == IF v \in known THEN next[v].transitions ELSE <<>>
<1>1. r.transitions = Emitted("lateral") \o Emitted("vertical") \o Emitted("temporal")
  BY Zenon DEF Evaluate
<1>2. ASSUME NEW v \in ViolationTypes
      PROVE  Emits(v, StateOf(states, v), StateOf(r.states, v), m, Emitted(v))
  <2>1. StateAfter(v, o, m, states, r.states)
    BY Zenon, EvaluateStates
  <2>2. StateOf(states, v) \in AnyStates
    BY Zenon, StateOfType
  <2>3. CASE Known(v, o)
    <3>1. Emitted(v) = advance(v, StateOf(states, v), Breached(v, o), m, o.at).transitions
      BY Zenon, <2>3
    <3>2. StateOf(r.states, v) = advance(v, StateOf(states, v), Breached(v, o), m, o.at).state
      BY Zenon, <2>1, <2>3 DEF StateAfter, StateOf
    <3>3. Breached(v, o) \in BOOLEAN
      BY Zenon DEF Breached, TemporalBreach, LateralBreach, VerticalBreach, ViolationTypes
    <3> HIDE DEF Emitted
    <3> QED BY Zenon, <2>2, <3>1, <3>2, <3>3, AdvanceEmits
  <2>4. CASE ~Known(v, o)
    <3>1. Emitted(v) = <<>>
      BY Zenon, <2>4
    <3>2. StateOf(states, v).phase \notin {"", "clear"} => StateOf(r.states, v) = StateOf(states, v)
      BY Zenon, <2>1, <2>4 DEF StateAfter, StateOf
    <3>3. StateOf(states, v).phase \in {"", "clear"} => StateOf(r.states, v) = ZeroState
      BY Zenon, <2>1, <2>4 DEF StateAfter, StateOf
    <3>4. ~InProgress(ZeroState)
      BY Zenon DEF InProgress, ZeroState
    <3> HIDE DEF Emitted
    <3> QED BY Zenon, <3>1, <3>2, <3>3, <3>4 DEF Emits, InProgress
  <2> QED BY Zenon, <2>3, <2>4
<1> HIDE DEF Emitted
<1>3. "lateral" \in ViolationTypes /\ "vertical" \in ViolationTypes /\ "temporal" \in ViolationTypes
  BY Zenon DEF ViolationTypes
<1> QED BY <1>1, <1>2, <1>3, Zenon

(* A new transition rests on a frame that is not before c.                  *)
LEMMA EmittedRecorded ==
  ASSUME NEW F, NEW m \in Nat \ {0}, NEW b, NEW c \in Nat, NEW v \in ViolationTypes,
         NEW s \in AnyStates, NEW t, NEW emitted, Emits(v, s, t, m, emitted),
         Anchored(F, m - 1, c, s), c <= F[m].at, \A i \in 1 .. m : F[i].at \in Nat
  PROVE  emitted \in Seq(Recorded(F, m, b, c))
<1>1. m \in 1 .. m /\ 1 .. m - 1 \subseteq 1 .. m /\ 1 .. m \subseteq Nat
  OBVIOUS
<1>2. F[m].at \in Nat /\ F[m].at >= c
  BY Zenon, <1>1
<1>3. Opened(v, m) \in Recorded(F, m, b, c)
  <2>1. Opened(v, m) \in TransitionRecords
    BY Zenon, <1>1 DEF Opened, TransitionRecords
  <2>2. Opened(v, m).frame = m /\ Opened(v, m).openingFrame = m
    BY Zenon DEF Opened
  <2> QED BY <1>1, <1>2, <2>1, <2>2, Zenon DEF Recorded
<1>4. ASSUME InProgress(s) PROVE Resolved(v, m, s.openingFrame) \in Recorded(F, m, b, c)
  <2> DEFINE k == s.openingFrame
             x == Resolved(v, m, k)
  <2>1. k \in 1 .. m - 1 /\ c <= s.firstSuspectedAt /\ s.firstSuspectedAt <= F[k].at
    BY <1>4, Zenon DEF Anchored, InProgress
  <2>2. s.firstSuspectedAt \in Nat \cup {NoTime} /\ k \in 1 .. m /\ k \in Nat /\ F[k].at \in Nat
    BY <1>1, <2>1, StateFields, Zenon
  <2>3. \A y \in Nat \cup {NoTime} : \A z \in Nat : c <= y /\ y <= z => z >= c
    BY DEF NoTime
  <2>4. F[k].at >= c
    BY <2>1, <2>2, <2>3, Zenon
  <2>5. x \in TransitionRecords
    BY Zenon, <1>1, <2>2 DEF Resolved, TransitionRecords
  <2>6. x.frame = m /\ x.openingFrame = k
    BY Zenon DEF Resolved
  <2> HIDE DEF x, k
  <2> QED BY <1>1, <2>2, <2>4, <2>5, <2>6, Zenon DEF Recorded, x, k
<1>5. \A S : \A x \in S : <<x>> \in Seq(S) /\ <<>> \in Seq(S)
  OBVIOUS
<1>6. \A S : <<>> \in Seq(S)
  OBVIOUS
<1> QED BY <1>3, <1>4, <1>5, <1>6, Zenon DEF Emits

(* All that the first m frames of F establish of the states and of the      *)
(* transitions.                                                             *)
Evaluated(F, m, b, c, states, ts) ==
  /\ StateMap(states)
  /\ Follows(F, m, states)
  /\ ts \in Seq(Recorded(F, m, b, c))
  /\ Alternates(ts)
  /\ \A v \in ViolationTypes : /\ Anchored(F, m, c, StateOf(states, v))
                               /\ Tied(v, StateOf(states, v), ts)

(* So does Evaluate, for each violation.                                    *)
LEMMA AnchoredAfter ==
  ASSUME NEW F, NEW m \in Nat \ {0}, NEW c \in Nat, c <= F[m].at,
         \A i \in 1 .. m : F[i].at \in Nat,
         m # 1 => F[m - 1].at <= F[m].at,
         NEW before, NEW after, StateMap(before), NEW v \in ViolationTypes,
         Anchored(F, m - 1, c, StateOf(before, v)), StateAfter(v, F[m], m, before, after)
  PROVE  Anchored(F, m, c, StateOf(after, v))
<1> DEFINE s == StateOf(before, v)
<1>1. s \in AnyStates
  BY Zenon, StateOfType
<1>2. F[m].at \in Nat /\ (m # 1 => F[m - 1].at \in Nat)
  OBVIOUS
<1>3. /\ Anchored(F, m, c, s)
      /\ Anchored(F, m, c, advanceOutside(v, s, m, F[m].at).state)
      /\ Anchored(F, m, c, advanceInside(v, s, m, F[m].at).state)
  <2> HIDE DEF s
  <2> USE DEF s
  <2> QED BY Zenon, <1>1, <1>2, AnchoredStep
<1>4. Anchored(F, m, c, ZeroState)
  BY Zenon DEF Anchored, ZeroState, InProgress
<1>5. StateOf(after, v) \in {ZeroState, s, advanceOutside(v, s, m, F[m].at).state,
                            advanceInside(v, s, m, F[m].at).state}
  BY Zenon DEF StateAfter, StateOf, advance
<1> QED BY Zenon, <1>3, <1>4, <1>5

(* Evaluate keeps all that holds of states and transitions.                 *)
LEMMA EvaluatedStep ==
  ASSUME NEW F, NEW m \in Nat \ {0}, NEW b, NEW c \in Nat, NEW states, NEW ts,
         Evaluated(F, m - 1, b, c, states, ts),
         c <= F[m].at, \A i \in 1 .. m : F[i].at \in Nat, m # 1 => F[m - 1].at <= F[m].at,
         NEW r, r = Evaluate(m, F[m], states)
  PROVE  Evaluated(F, m, b, c, r.states, ts \o r.transitions)
<1> DEFINE S == Recorded(F, m, b, c)
<1>1. /\ StateMap(states) /\ Follows(F, m - 1, states)
      /\ ts \in Seq(Recorded(F, m - 1, b, c)) /\ Alternates(ts)
      /\ \A v \in ViolationTypes : Anchored(F, m - 1, c, StateOf(states, v))
      /\ \A v \in ViolationTypes : Tied(v, StateOf(states, v), ts)
  BY Zenon DEF Evaluated
<1>2. F[m].at \in Nat /\ m \in Nat
  OBVIOUS
<1>3. /\ StateMap(r.states)
      /\ \A v \in ViolationTypes : StateAfter(v, F[m], m, states, r.states)
  BY Zenon, <1>1, <1>2, EvaluateStates
<1>4. Follows(F, m, r.states)
  BY Zenon, <1>1, <1>2, <1>3, FollowsStep
<1>5. ASSUME NEW v \in ViolationTypes PROVE Anchored(F, m, c, StateOf(r.states, v))
  BY Zenon, <1>1, <1>3, AnchoredAfter
<1>6. PICK lateral, vertical, temporal :
        /\ r.transitions = lateral \o vertical \o temporal
        /\ Emits("lateral", StateOf(states, "lateral"), StateOf(r.states, "lateral"), m, lateral)
        /\ Emits("vertical", StateOf(states, "vertical"), StateOf(r.states, "vertical"), m, vertical)
        /\ Emits("temporal", StateOf(states, "temporal"), StateOf(r.states, "temporal"), m, temporal)
  BY Zenon, <1>1, <1>2, EvaluateEmits
<1>7. S \subseteq TransitionRecords /\ Recorded(F, m - 1, b, c) \subseteq S
  <2>1. 1 .. m - 1 \subseteq 1 .. m
    OBVIOUS
  <2> QED BY <2>1, Zenon DEF Recorded
<1>8. ts \in Seq(S)
  <2> HIDE DEF S
  <2> QED BY Zenon, <1>1, <1>7, SeqMonotonic
<1>9. ASSUME NEW v \in ViolationTypes
      PROVE  /\ StateOf(states, v) \in AnyStates
             /\ InProgress(StateOf(states, v)) => /\ StateOf(states, v).openingFrame \in Nat
                                                  /\ StateOf(states, v).openingFrame < m
  <2> DEFINE s == StateOf(states, v)
  <2>1. s \in AnyStates /\ Anchored(F, m - 1, c, s)
    BY Zenon, <1>1, StateOfType
  <2> HIDE DEF s
  <2>2. InProgress(s) => s.openingFrame \in 1 .. m - 1
    BY <2>1, Zenon DEF Anchored
  <2>3. \A k \in 1 .. m - 1 : k \in Nat /\ k < m
    OBVIOUS
  <2> QED BY <2>1, <2>2, <2>3, Zenon DEF s
<1>10. "lateral" \in ViolationTypes /\ "vertical" \in ViolationTypes /\ "temporal" \in ViolationTypes
  BY Zenon DEF ViolationTypes
<1>11. lateral \in Seq(S) /\ vertical \in Seq(S) /\ temporal \in Seq(S)
  <2>1. ASSUME NEW v \in ViolationTypes, NEW emitted,
               Emits(v, StateOf(states, v), StateOf(r.states, v), m, emitted)
        PROVE  emitted \in Seq(S)
    BY Zenon, <1>1, <1>9, <2>1, EmittedRecorded
  <2> HIDE DEF S
  <2> QED BY Zenon, <1>6, <1>10, <2>1
<1> HIDE DEF S
<1>12. ASSUME NEW v \in ViolationTypes, NEW from \in Seq(S), Alternates(from),
              NEW emitted \in Seq(S), NEW to, to = from \o emitted,
              Emits(v, StateOf(states, v), StateOf(r.states, v), m, emitted),
              Tied(v, StateOf(states, v), from)
       PROVE  /\ to \in Seq(S) /\ Alternates(to) /\ Tied(v, StateOf(r.states, v), to)
              /\ \A w, u : w # v /\ Tied(w, u, from) => Tied(w, u, to)
  <2> DEFINE s == StateOf(states, v)
             t == StateOf(r.states, v)
  <2>1. /\ Emits(v, s, t, m, emitted) /\ Tied(v, s, from)
        /\ InProgress(s) => s.openingFrame \in Nat /\ s.openingFrame < m
    BY Zenon, <1>9, <1>12
  <2> HIDE DEF s, t
  <2>2. /\ to \in Seq(S) /\ Alternates(to) /\ Tied(v, t, to)
        /\ \A w, u : w # v /\ Tied(w, u, from) => Tied(w, u, to)
    BY Zenon, <1>2, <1>7, <1>12, <2>1, EmittedAlternates
  <2> QED BY Zenon, <2>2 DEF t
<1> DEFINE one == ts \o lateral
           two == one \o vertical
           three == two \o temporal
<1>13. /\ one \in Seq(S) /\ Alternates(one) /\ Tied("lateral", StateOf(r.states, "lateral"), one)
       /\ Tied("vertical", StateOf(states, "vertical"), one)
       /\ Tied("temporal", StateOf(states, "temporal"), one)
  BY Zenon, <1>1, <1>6, <1>8, <1>10, <1>11, <1>12
<1> HIDE DEF one
<1>14. /\ two \in Seq(S) /\ Alternates(two) /\ Tied("vertical", StateOf(r.states, "vertical"), two)
       /\ Tied("lateral", StateOf(r.states, "lateral"), two)
       /\ Tied("temporal", StateOf(states, "temporal"), two)
  <2>1. /\ two \in Seq(S) /\ Alternates(two) /\ Tied("vertical", StateOf(r.states, "vertical"), two)
        /\ \A w, u : w # "vertical" /\ Tied(w, u, one) => Tied(w, u, two)
    BY <1>6, <1>10, <1>11, <1>12, <1>13, Zenon
  <2> HIDE DEF two
  <2> QED BY Zenon, <1>13, <2>1
<1> HIDE DEF two
<1>15. /\ three \in Seq(S) /\ Alternates(three) /\ Tied("temporal", StateOf(r.states, "temporal"), three)
       /\ Tied("lateral", StateOf(r.states, "lateral"), three)
       /\ Tied("vertical", StateOf(r.states, "vertical"), three)
  <2>1. /\ three \in Seq(S) /\ Alternates(three) /\ Tied("temporal", StateOf(r.states, "temporal"), three)
        /\ \A w, u : w # "temporal" /\ Tied(w, u, two) => Tied(w, u, three)
    BY <1>6, <1>10, <1>11, <1>12, <1>14, Zenon
  <2> HIDE DEF three
  <2> QED BY Zenon, <1>14, <2>1
<1>16. ASSUME NEW v \in ViolationTypes PROVE Tied(v, StateOf(r.states, v), three)
  BY Zenon, <1>15 DEF ViolationTypes
<1>17. three = ts \o r.transitions
  <2> DEFINE both == lateral \o vertical
  <2>1. one = ts \o lateral /\ two = one \o vertical /\ both = lateral \o vertical
    BY Zenon DEF one, two
  <2>2. r.transitions = both \o temporal
    BY Zenon, <1>6
  <2> HIDE DEF both
  <2>3. both \in Seq(S)
    BY Zenon, <1>11, <2>1, ConcatProperties
  <2>4. (ts \o lateral) \o vertical = ts \o (lateral \o vertical)
    BY ONLY <1>8, <1>11
  <2>5. (ts \o both) \o temporal = ts \o (both \o temporal)
    BY ONLY <1>8, <1>11, <2>3
  <2> QED BY Zenon, <2>1, <2>2, <2>4, <2>5
<1> HIDE DEF three
<1> QED BY Zenon, <1>3, <1>4, <1>5, <1>15, <1>16, <1>17 DEF Evaluated, S

-----------------------------------------------------------------------------
(* A batch *)

FrameRecords == [at : Nat, reading : Readings]

(* Frames in event-time order.                                              *)
InOrder(F) ==
  F \in Seq(FrameRecords) /\ \A i \in 2 .. Len(F) : F[i - 1].at <= F[i].at

(* The fields of a frame that was evaluated.                                *)
LEMMA FrameFields ==
  ASSUME NEW F, InOrder(F)
  PROVE  /\ Len(F) \in Nat
         /\ \A i \in 1 .. Len(F) : F[i].at \in Nat /\ F[i].reading \in Readings
<1>1. F \in Seq(FrameRecords)
  BY Zenon DEF InOrder
<1>2. \A i \in 1 .. Len(F) : F[i] \in FrameRecords
  BY <1>1
<1> QED BY <1>1, <1>2 DEF FrameRecords

(* What is known of the frames so far is known of a longer history, and the *)
(* transitions so far are not of the batch that begins at frame b.          *)
LEMMA LongerHistory ==
  ASSUME NEW G, NEW F, NEW n \in Nat, \A i \in 1 .. n : F[i] = G[i],
         NEW b0, NEW c0, NEW states, NEW ts, Evaluated(G, n, b0, c0, states, ts),
         NEW b \in Nat, n < b, NEW c,
         \A v \in ViolationTypes : StateOf(states, v).phase \notin {"", "clear"} =>
           c <= StateOf(states, v).firstSuspectedAt
  PROVE  Evaluated(F, n, b, c, states, ts)
<1>1. /\ StateMap(states) /\ Follows(G, n, states)
      /\ ts \in Seq(Recorded(G, n, b0, c0)) /\ Alternates(ts)
      /\ \A v \in ViolationTypes : Anchored(G, n, c0, StateOf(states, v))
      /\ \A v \in ViolationTypes : Tied(v, StateOf(states, v), ts)
  BY Zenon DEF Evaluated
<1>2. n # 0 => F[n] = G[n]
  <2>1. n # 0 => n \in 1 .. n
    BY ONLY n \in Nat
  <2> QED BY <2>1, Zenon
<1>3. Follows(F, n, states)
  <2>1. ASSUME NEW v
        PROVE  OutsideFrames(F, n, v) = OutsideFrames(G, n, v) /\ InsideFrames(F, n, v) = InsideFrames(G, n, v)
    BY Zenon DEF OutsideFrames, InsideFrames
  <2> QED BY Zenon, <1>1, <1>2, <2>1 DEF Follows
<1>4. ts \in Seq(Recorded(F, n, b, c))
  <2>1. \A k \in 1 .. n : ~(k >= b)
    BY ONLY n \in Nat, b \in Nat, n < b
  <2>2. Recorded(G, n, b0, c0) \subseteq Recorded(F, n, b, c)
    BY <2>1, Zenon DEF Recorded
  <2> QED BY Zenon, <1>1, <2>2, SeqMonotonic
<1>5. ASSUME NEW v \in ViolationTypes PROVE Anchored(F, n, c, StateOf(states, v))
  <2> DEFINE s == StateOf(states, v)
  <2>1. Anchored(G, n, c0, s) /\ (s.phase \notin {"", "clear"} => c <= s.firstSuspectedAt)
    BY Zenon, <1>1
  <2> HIDE DEF s
  <2>2. Anchored(F, n, c, s)
    BY <1>2, <2>1, Zenon DEF Anchored
  <2> QED BY Zenon, <2>2 DEF s
<1> QED BY <1>1, <1>3, <1>4, <1>5, Zenon DEF Evaluated

(* Every observation of a batch is evaluated in the history that ends with  *)
(* it.                                                                      *)
LEMMA BatchEvaluated ==
  ASSUME NEW F, InOrder(F), NEW batch, Len(batch) \in Nat, Len(frames) \in Nat,
         Len(F) = Len(frames) + Len(batch),
         \A n \in 1 .. Len(batch) : F[Len(frames) + n] = batch[n],
         NEW b, NEW c \in Nat, \A n \in 1 .. Len(batch) : c <= batch[n].at,
         Evaluated(F, Len(frames), b, c, violations, transitions)
  PROVE  LET last == Evaluations(batch)[Len(batch)]
         IN  Evaluated(F, Len(F), b, c, last.states, last.transitions)
<1> DEFINE e(n) == Evaluations(batch)[n]
           Done == {n \in Nat : Evaluated(F, Len(frames) + n, b, c, e(n).states, e(n).transitions)}
<1>1. /\ e(0) = [states |-> violations, transitions |-> transitions]
      /\ \A n \in 1 .. Len(batch) :
           LET r == Evaluate(Len(frames) + n, batch[n], e(n - 1).states)
           IN  e(n) = [states |-> r.states, transitions |-> e(n - 1).transitions \o r.transitions]
  BY EvaluationsRecursion, Zenon
<1> HIDE DEF e
<1>2. 0 \in Done
  <2>1. e(0).states = violations /\ e(0).transitions = transitions
    BY <1>1
  <2>2. Len(frames) + 0 = Len(frames) /\ 0 \in Nat
    OBVIOUS
  <2> QED BY <2>1, <2>2, Zenon
<1>3. ASSUME NEW n \in 0 .. Len(batch) - 1, n \in Done PROVE n + 1 \in Done
  <2> DEFINE k == n + 1
             m == Len(frames) + k
             r == Evaluate(m, batch[k], e(n).states)
             longer == e(n).transitions \o r.transitions
  <2>1. /\ n \in Nat /\ k \in 1 .. Len(batch) /\ k - 1 = n /\ k \in Nat
        /\ m \in Nat \ {0} /\ m - 1 = Len(frames) + n /\ m \in 1 .. Len(F)
        /\ 1 .. m \subseteq 1 .. Len(F) /\ (m # 1 => m \in 2 .. Len(F))
    OBVIOUS
  <2> HIDE DEF k
  <2>2. e(k) = [states |-> r.states, transitions |-> longer]
    <3>1. e(k) = [states |-> Evaluate(m, batch[k], e(k - 1).states).states,
                  transitions |-> e(k - 1).transitions \o Evaluate(m, batch[k], e(k - 1).states).transitions]
      BY <1>1, <2>1, Zenon
    <3> QED BY <2>1, <3>1, Zenon
  <2>3. F[m] = batch[k] /\ c <= F[m].at
    BY Zenon, <2>1
  <2>4. /\ \A i \in 1 .. m : F[i].at \in Nat
        /\ m # 1 => F[m - 1].at <= F[m].at
    <3>1. \A i \in 1 .. Len(F) : F[i].at \in Nat
      BY Zenon, FrameFields
    <3>2. \A i \in 2 .. Len(F) : F[i - 1].at <= F[i].at
      BY Zenon DEF InOrder
    <3> HIDE DEF m
    <3> QED BY <2>1, <3>1, <3>2, Zenon
  <2>5. Evaluated(F, m - 1, b, c, e(n).states, e(n).transitions)
    BY Zenon, <1>3, <2>1
  <2>6. r = Evaluate(m, F[m], e(n).states)
    BY Zenon, <2>3
  <2> HIDE DEF r, m, longer
  <2>7. Evaluated(F, m, b, c, r.states, longer)
    BY Zenon, <2>1, <2>3, <2>4, <2>5, <2>6, EvaluatedStep DEF longer
  <2>8. e(k).states = r.states /\ e(k).transitions = longer
    BY <2>2
  <2> QED BY <2>1, <2>7, <2>8, Zenon DEF m, k
<1>4. Len(batch) \in Done
  <2>1. \A n \in 0 .. Len(batch) : n \in Done
    <3> HIDE DEF Done
    <3> QED BY Zenon, <1>2, <1>3, Induction
  <2> HIDE DEF Done
  <2> QED BY <2>1
<1> QED BY <1>4, Zenon DEF e

(* Observations in order are not before the first of them.                  *)
LEMMA FirstIsEarliest ==
  ASSUME NEW batch, Len(batch) \in Nat \ {0},
         \A n \in 1 .. Len(batch) : batch[n].at \in Nat,
         \A n \in 2 .. Len(batch) : batch[n - 1].at <= batch[n].at
  PROVE  \A n \in 1 .. Len(batch) : batch[1].at <= batch[n].at
<1> DEFINE Later == {n \in Nat : batch[1].at <= batch[n + 1].at}
           N == Len(batch) - 1
<1>1. 0 \in Later
  OBVIOUS
<1>2. ASSUME NEW n \in 0 .. N - 1, n \in Later PROVE n + 1 \in Later
  <2>1. n + 1 + 1 \in 2 .. Len(batch) /\ n + 1 + 1 - 1 = n + 1 /\ n + 1 \in 1 .. Len(batch)
        /\ n + 1 + 1 \in 1 .. Len(batch) /\ n + 1 \in Nat /\ 1 \in 1 .. Len(batch)
    OBVIOUS
  <2>2. batch[n + 1].at <= batch[n + 1 + 1].at
    BY <2>1
  <2>3. batch[1].at \in Nat /\ batch[n + 1].at \in Nat /\ batch[n + 1 + 1].at \in Nat
    BY <2>1, Zenon
  <2>4. batch[1].at <= batch[n + 1].at
    BY Zenon, <1>2
  <2>5. batch[1].at <= batch[n + 1 + 1].at
    BY <2>2, <2>3, <2>4
  <2> QED BY Zenon, <2>1, <2>5
<1>3. \A n \in 0 .. N : n \in Later
  <2>1. N \in Nat
    OBVIOUS
  <2> HIDE DEF Later, N
  <2> QED BY Zenon, <1>1, <1>2, <2>1, Induction
<1>4. ASSUME NEW n \in 1 .. Len(batch) PROVE batch[1].at <= batch[n].at
  <2>1. n - 1 \in 0 .. N /\ n - 1 + 1 = n
    OBVIOUS
  <2>2. n - 1 \in Later
    BY Zenon, <1>3, <2>1
  <2> QED BY Zenon, <2>1, <2>2
<1> QED BY Zenon, <1>4

-----------------------------------------------------------------------------
(* The condition *)

(* The condition that the worst of the phases calls for.                    *)
Worst(phases) ==
  CASE "open" \in phases -> "non_conforming"
    [] "open" \notin phases /\ "suspected" \in phases -> "suspected"
    [] phases \cap {"open", "suspected"} = {} /\ "recovering" \in phases -> "recovering"
    [] OTHER -> "conforming"

(* With no incident the aircraft conforms.                                  *)
LEMMA WorstOfNone == Worst({}) = "conforming"
BY Zenon DEF Worst

(* Looking at one more phase takes the worst of two.                        *)
LEMMA WorstStep ==
  ASSUME NEW phases, NEW p \in Phases, NEW more, more = phases \cup {p}
  PROVE  ConditionStep(Worst(phases), p) = Worst(more)
<1>1. Worst(phases) \in {"non_conforming", "suspected", "recovering", "conforming"}
  BY Zenon DEF Worst
<1>2. CASE p = "open"
  <2>1. "open" \in more
    BY Zenon, <1>2
  <2> QED BY Zenon, <1>2, <2>1 DEF Worst, ConditionStep
<1>3. CASE p = "suspected"
  <2>1. "suspected" \in more /\ ("open" \in more <=> "open" \in phases)
    BY Zenon, <1>3
  <2> QED BY Zenon, <1>3, <2>1 DEF Worst, ConditionStep
<1>4. CASE p = "recovering"
  <2>1. /\ "recovering" \in more /\ ("open" \in more <=> "open" \in phases)
        /\ "suspected" \in more <=> "suspected" \in phases
    BY Zenon, <1>4
  <2> QED BY Zenon, <1>4, <2>1 DEF Worst, ConditionStep
<1>5. CASE p = "clear"
  <2>1. /\ "recovering" \in more <=> "recovering" \in phases
        /\ "open" \in more <=> "open" \in phases
        /\ "suspected" \in more <=> "suspected" \in phases
    BY Zenon, <1>5
  <2> QED BY Zenon, <1>5, <2>1 DEF Worst, ConditionStep
<1> QED BY Zenon, <1>2, <1>3, <1>4, <1>5 DEF Phases

PhasesOf(states) == {states[v].phase : v \in DOMAIN states}

(* Whatever the order of the iteration, it ends with the worst phase.       *)
LEMMA IterationEndsWithTheWorst ==
  ASSUME NEW states, StateMap(states), NEW order \in Orders(DOMAIN states)
  PROVE  ConditionsOver(states, order)[Len(order)] = Worst(PhasesOf(states))
<1> DEFINE N == Len(order)
           c(n) == ConditionsOver(states, order)[n]
           seen(n) == {states[order[i]].phase : i \in 1 .. n}
           Right == {n \in Nat : c(n) = Worst(seen(n))}
<1>1. /\ N \in Nat /\ order \in [1 .. N -> DOMAIN states]
      /\ \A v \in DOMAIN states : \E i \in 1 .. N : order[i] = v
  <2>1. IsFiniteSet(ViolationTypes)
    <3>1. IsFiniteSet({"lateral"}) /\ IsFiniteSet({"vertical"}) /\ IsFiniteSet({"temporal"})
      BY Zenon, FS_Singleton
    <3>2. IsFiniteSet({"lateral"} \cup {"vertical"})
      BY Zenon, <3>1, FS_Union
    <3>3. IsFiniteSet(({"lateral"} \cup {"vertical"}) \cup {"temporal"})
      BY Zenon, <3>1, <3>2, FS_Union
    <3>4. ViolationTypes = ({"lateral"} \cup {"vertical"}) \cup {"temporal"}
      BY Zenon DEF ViolationTypes
    <3> QED BY Zenon, <3>3, <3>4
  <2>2. Cardinality(DOMAIN states) \in Nat
    BY Zenon, <2>1, FS_Subset, FS_CardinalityType DEF StateMap
  <2>3. order \in [1 .. Cardinality(DOMAIN states) -> DOMAIN states]
        /\ \A v \in DOMAIN states : \E i \in DOMAIN order : order[i] = v
    BY Zenon DEF Orders
  <2>4. N = Cardinality(DOMAIN states)
    BY <2>2, <2>3
  <2> QED BY Zenon, <2>2, <2>3, <2>4
<1>2. /\ c(0) = "conforming"
      /\ \A n \in 1 .. N : c(n) = ConditionStep(c(n - 1), states[order[n]].phase)
  BY <1>1, ConditionsRecursion
<1> HIDE DEF c
<1>3. 0 \in Right
  <2>1. seen(0) = {}
    OBVIOUS
  <2> QED BY Zenon, <1>2, <2>1, WorstOfNone
<1>4. ASSUME NEW n \in 0 .. N - 1, n \in Right PROVE n + 1 \in Right
  <2> DEFINE k == n + 1
             p == states[order[k]].phase
  <2>1. k \in 1 .. N /\ k - 1 = n /\ k \in Nat /\ n \in Nat /\ 1 .. k = (1 .. n) \cup {k}
    BY <1>1
  <2>2. seen(k) = seen(n) \cup {p}
    <3> HIDE DEF k
    <3> QED BY Zenon, <2>1
  <2>3. p \in Phases
    <3>1. order[k] \in DOMAIN states
      BY Zenon, <1>1, <2>1
    <3> QED BY Zenon, <3>1 DEF StateMap, IncidentStates
  <2>4. c(k) = ConditionStep(c(n), p)
    <3> HIDE DEF k
    <3>1. c(k) = ConditionStep(c(k - 1), p)
      BY <1>2, <2>1, Zenon DEF p
    <3> QED BY <2>1, <3>1, Zenon
  <2>5. c(n) = Worst(seen(n))
    BY Zenon, <1>4
  <2> HIDE DEF p, seen, k
  <2>6. c(k) = Worst(seen(k))
    BY <2>2, <2>3, <2>4, <2>5, WorstStep
  <2> QED BY <2>1, <2>6, Zenon DEF k
<1>5. N \in Right
  <2>1. \A n \in 0 .. N : n \in Right
    <3> HIDE DEF Right, N
    <3> QED BY Zenon, <1>1, <1>3, <1>4, Induction
  <2> HIDE DEF Right
  <2> QED BY <1>1, <2>1
<1>6. seen(N) = PhasesOf(states)
  BY Zenon, <1>1 DEF PhasesOf
<1> QED BY <1>5, <1>6, Zenon DEF c

(* The least of some times.                                                 *)
LEMMA MinimumIsLeast ==
  ASSUME NEW S, S \subseteq Nat, S # {}
  PROVE  Minimum(S) \in S /\ \A y \in S : Minimum(S) <= y
<1>1. \E x \in S : \A y \in S : x <= y
  BY Zenon, Smallest
<1> QED BY Zenon, <1>1 DEF Minimum

(* CausalFrom is not after the batch or the retained evidence.              *)
LEMMA CausalBound ==
  ASSUME NEW states, StateMap(states), NEW fallback \in Nat,
         NEW c, c = earliestCausalTimestamp(states, fallback)
  PROVE  /\ c \in Nat /\ c <= fallback
         /\ \A v \in ViolationTypes :
              /\ StateOf(states, v).phase \notin {"", "clear"}
              /\ StateOf(states, v).firstSuspectedAt # NoTime
              => c <= StateOf(states, v).firstSuspectedAt
<1> DEFINE active == {v \in DOMAIN states : states[v].phase # "clear"}
           times == {states[v].firstSuspectedAt : v \in active} \cup {states[v].openedAt : v \in active}
           S == {fallback} \cup (times \ {NoTime})
<1>1. c = Minimum(S)
  BY Zenon DEF earliestCausalTimestamp
<1>2. times \subseteq Nat \cup {NoTime}
  BY Zenon DEF StateMap, IncidentStates
<1>3. S \subseteq Nat /\ S # {}
  <2> HIDE DEF times
  <2> QED BY Zenon, <1>2
<1>4. c \in S /\ \A y \in S : c <= y
  <2> HIDE DEF S
  <2> QED BY Zenon, <1>1, <1>3, MinimumIsLeast
<1>5. ASSUME NEW v \in ViolationTypes, StateOf(states, v).phase \notin {"", "clear"},
             StateOf(states, v).firstSuspectedAt # NoTime
      PROVE  StateOf(states, v).firstSuspectedAt \in S
  <2>1. v \in DOMAIN states
    BY Zenon, <1>5, StateOfType
  <2>2. states[v].phase # "clear" /\ StateOf(states, v) = states[v]
    BY Zenon, <1>5, <2>1 DEF StateOf
  <2> QED BY Zenon, <1>5, <2>1, <2>2
<1>6. fallback \in S
  BY Zenon
<1> HIDE DEF S
<1> QED BY Zenon, <1>3, <1>4, <1>5, <1>6

-----------------------------------------------------------------------------
(* The invariant *)

IInv ==
  /\ InOrder(frames)
  /\ Evaluated(frames, Len(frames), batchFrom, causalFrom, violations, transitions)
  /\ frames = <<>> => condition = "unknown"
  /\ frames # <<>> =>
       /\ causalFrom \in Nat /\ batchFrom \in 1 .. Len(frames)
       /\ \A i \in batchFrom .. Len(frames) : causalFrom <= frames[i].at
       /\ \E order \in Orders(DOMAIN violations) :
            condition = Condition(frames[Len(frames)], violations, order)

(* The inductive invariant holds before the first batch.                    *)
LEMMA InitIInv == Init => IInv
<1> SUFFICES ASSUME Init PROVE IInv
  BY Zenon
<1>1. Len(frames) = 0 /\ InOrder(frames)
  BY DEF Init, InOrder
<1>2. StateMap(violations) /\ \A v : StateOf(violations, v) = ZeroState
  BY Zenon DEF Init, StateMap, StateOf
<1>3. \A v : OutsideFrames(frames, 0, v) = {} /\ InsideFrames(frames, 0, v) = {}
  BY DEF OutsideFrames, InsideFrames
<1>4. Follows(frames, 0, violations)
  BY Zenon, <1>2, <1>3, NoFramesMatch DEF Follows
<1>5. Len(transitions) = 0 /\ \A S : transitions \in Seq(S)
  BY DEF Init
<1>6. Alternates(transitions) /\ \A v : LastOf(v, transitions) = {}
  BY <1>5 DEF Alternates, LastOf
<1>7. ASSUME NEW v PROVE Anchored(frames, 0, causalFrom, ZeroState) /\ Tied(v, ZeroState, transitions)
  BY Zenon, <1>6 DEF Anchored, Tied, ZeroState, InProgress
<1>8. Evaluated(frames, Len(frames), batchFrom, causalFrom, violations, transitions)
  BY Zenon, <1>1, <1>2, <1>4, <1>5, <1>6, <1>7 DEF Evaluated
<1> QED BY Zenon, <1>1, <1>8 DEF Init, IInv

(* A batch keeps the inductive invariant.                                   *)
LEMMA NextIInv == IInv /\ [Next]_vars => IInv'
<1> SUFFICES ASSUME IInv, [Next]_vars PROVE IInv'
  BY Zenon
<1>1. CASE UNCHANGED vars
  BY Zenon, <1>1 DEF vars, IInv, InOrder
<1>2. CASE Next
  <2>0. PICK n \in 1 .. MaxBatch : \E batch \in [1 .. n -> Observations] : EvaluateBatch(batch)
    BY Zenon, <1>2 DEF Next
  <2>1. PICK batch \in [1 .. n -> Observations] : EvaluateBatch(batch)
    BY Zenon, <2>0
  <2> DEFINE N == Len(frames)
             F == frames \o batch
             c == earliestCausalTimestamp(violations, batch[1].at)
             b == N + 1
             last == Evaluations(batch)[Len(batch)]
  <2>2. /\ InOrder(frames)
        /\ Evaluated(frames, N, batchFrom, causalFrom, violations, transitions)
        /\ N \in Nat /\ frames \in Seq(FrameRecords)
        /\ frames # <<>> => causalFrom \in Nat
    BY Zenon, FrameFields DEF IInv, InOrder
  <2>3. n \in Nat \ {0} /\ Len(batch) = n
    BY <2>1, StreamAssumption
  <2>4. Watermark \in Nat /\ (N # 0 => Watermark = frames[N].at)
    BY <2>2, FrameFields, AssignmentAssumption DEF Watermark
  <2>5. \A i \in 1 .. n : batch[i] \in FrameRecords /\ Watermark <= batch[i].at
    BY <2>4, StreamAssumption DEF Observations, FrameRecords
  <2> HIDE DEF N
  <2>6. batch \in Seq(FrameRecords)
    BY <2>3, <2>5
  <2>7. /\ F \in Seq(FrameRecords) /\ Len(F) = N + n
        /\ \A i \in 1 .. N : F[i] = frames[i]
        /\ \A i \in 1 .. n : F[N + i] = batch[i]
    BY <2>2, <2>3, <2>6 DEF N
  <2>8. /\ batch[1].at \in Nat
        /\ \A i \in 1 .. n : batch[i].at \in Nat
        /\ \A i \in 2 .. n : batch[i - 1].at <= batch[i].at
    BY <2>1, <2>3, <2>5 DEF EvaluateBatch, FrameRecords
  <2> HIDE DEF F
  <2>9. InOrder(F)
    <3>1. ASSUME NEW i \in 2 .. N + n PROVE F[i - 1].at <= F[i].at
      <4>1. CASE i <= N
        <5>1. i \in 2 .. N /\ i \in 1 .. N /\ i - 1 \in 1 .. N
          BY <2>2, <2>3, <4>1
        <5>2. frames[i - 1].at <= frames[i].at
          BY Zenon, <2>2, <5>1 DEF InOrder, N
        <5> QED BY Zenon, <2>7, <5>1, <5>2
      <4>2. CASE i = N + 1
        <5>1. i - 1 = N /\ N \in 1 .. N /\ N # 0 /\ 1 \in 1 .. n
          BY <2>2, <2>3, <4>2
        <5>2. F[i - 1].at = Watermark /\ F[i] = batch[1]
          BY Zenon, <2>4, <2>7, <4>2, <5>1
        <5> QED BY Zenon, <2>5, <5>1, <5>2
      <4>3. CASE i > N + 1
        <5> DEFINE j == i - N
        <5>1. j \in 2 .. n /\ j - 1 \in 1 .. n /\ j \in 1 .. n /\ N + j = i /\ N + (j - 1) = i - 1
          BY <2>2, <2>3, <4>3
        <5> HIDE DEF j
        <5>2. F[i] = batch[j] /\ F[i - 1] = batch[j - 1]
          BY <2>7, <5>1, Zenon
        <5> QED BY Zenon, <2>8, <5>1, <5>2
      <4> QED BY <2>2, <2>3, <4>1, <4>2, <4>3
    <3> QED BY Zenon, <2>7, <3>1 DEF InOrder
  <2>10. /\ frames' = F /\ causalFrom' = c /\ batchFrom' = b
         /\ violations' = last.states /\ transitions' = last.transitions
         /\ \E order \in Orders(DOMAIN violations') :
              condition' = Condition(batch[Len(batch)], violations', order)
    BY Zenon, <2>1 DEF EvaluateBatch, F, N
  <2>11. /\ StateMap(violations)
         /\ \A v \in ViolationTypes : Anchored(frames, N, causalFrom, StateOf(violations, v))
    BY Zenon, <2>2 DEF Evaluated
  <2>12. /\ c \in Nat /\ c <= batch[1].at
         /\ \A v \in ViolationTypes : StateOf(violations, v).phase \notin {"", "clear"} =>
              c <= StateOf(violations, v).firstSuspectedAt
    <3>1. /\ c \in Nat /\ c <= batch[1].at
          /\ \A v \in ViolationTypes :
               /\ StateOf(violations, v).phase \notin {"", "clear"}
               /\ StateOf(violations, v).firstSuspectedAt # NoTime
               => c <= StateOf(violations, v).firstSuspectedAt
      BY Zenon, <2>8, <2>11, CausalBound
    <3>2. ASSUME NEW v \in ViolationTypes, StateOf(violations, v).phase \notin {"", "clear"}
          PROVE  StateOf(violations, v).firstSuspectedAt # NoTime
      <4>1. N # 0 /\ causalFrom <= StateOf(violations, v).firstSuspectedAt
        BY <2>11, <3>2, Zenon DEF Anchored
      <4>2. causalFrom \in Nat
        BY <2>2, <4>1 DEF N
      <4>3. \A x \in Nat : ~(x <= NoTime)
        BY DEF NoTime
      <4> QED BY Zenon, <4>1, <4>2, <4>3
    <3> QED BY Zenon, <3>1, <3>2
  <2> HIDE DEF c
  <2>13. \A i \in 1 .. n : c <= batch[i].at
    <3>1. \A i \in 1 .. n : batch[1].at <= batch[i].at
      BY Zenon, <2>3, <2>8, FirstIsEarliest
    <3>2. \A x, y, z \in Nat : x <= y /\ y <= z => x <= z
      OBVIOUS
    <3> QED BY <2>8, <2>12, <3>1, <3>2, Zenon
  <2>14. Evaluated(F, N, b, c, violations, transitions)
    <3>1. b \in Nat /\ N < b
      BY <2>2
    <3> HIDE DEF b
    <3> QED BY Zenon, <2>2, <2>7, <2>12, <3>1, LongerHistory
  <2>15. Evaluated(F, Len(F), b, c, last.states, last.transitions)
    BY Zenon, <2>2, <2>3, <2>7, <2>9, <2>12, <2>13, <2>14, BatchEvaluated DEF N
  <2>16. F # <<>> /\ b \in 1 .. Len(F) /\ F[Len(F)] = batch[Len(batch)]
    BY <2>2, <2>3, <2>7
  <2>17. ASSUME NEW i \in b .. Len(F) PROVE c <= F[i].at
    <3>1. i - N \in 1 .. n /\ N + (i - N) = i
      BY <2>2, <2>3, <2>7
    <3>2. F[i] = batch[i - N]
      BY Zenon, <2>7, <3>1
    <3> QED BY Zenon, <2>13, <3>1, <3>2
  <2> HIDE DEF b, last
  <2> QED BY Zenon, <2>9, <2>10, <2>12, <2>15, <2>16, <2>17 DEF IInv
<1> QED BY Zenon, <1>1, <1>2

-----------------------------------------------------------------------------
(* Theorems *)

(* The states follow the evidence, the transitions alternate and are tied to*)
(* the states, and the condition and the causal range are those of the last *)
(* batch, after any sequence of batches (evaluator.go:154-248).             *)
THEOREM Invariance == Spec => []IInv
<1>1. Init => IInv
  BY Zenon, InitIInv
<1>2. IInv /\ [Next]_vars => IInv'
  BY Zenon, NextIInv
<1> QED BY <1>1, <1>2, PTL DEF Spec

(* The condition, its cause: what IInv says of the last frame.              *)
LEMMA ConditionOfTheWorst ==
  ASSUME IInv, frames # <<>>
  PROVE  condition =
           IF Worst(PhasesOf(violations)) = "conforming" /\ ~Known("vertical", frames[Len(frames)])
           THEN "unknown" ELSE Worst(PhasesOf(violations))
<1>1. PICK order \in Orders(DOMAIN violations) :
        condition = Condition(frames[Len(frames)], violations, order)
  BY Zenon DEF IInv
<1>2. StateMap(violations)
  BY Zenon DEF IInv, Evaluated
<1>3. ConditionsOver(violations, order)[Len(order)] = Worst(PhasesOf(violations))
  BY Zenon, <1>2, IterationEndsWithTheWorst
<1> QED BY <1>1, <1>3, Zenon DEF Condition

(* The state of the evaluator keeps its types (evaluator.go, EvaluatorState *)
(* and Evaluation).                                                         *)
THEOREM TypeCorrect == Spec => []TypeOK
<1>1. IInv => TypeOK
  <2> SUFFICES ASSUME IInv PROVE TypeOK
    BY Zenon
  <2>1. InOrder(frames) /\ StateMap(violations)
    BY Zenon DEF IInv, Evaluated
  <2>2. DOMAIN frames = 1 .. Len(frames)
    BY <2>1 DEF InOrder
  <2>3. condition \in Conditions
    <3>1. CASE frames = <<>>
      BY Zenon, <3>1 DEF IInv, Conditions
    <3>2. CASE frames # <<>>
      <4>1. Worst(PhasesOf(violations)) \in {"non_conforming", "suspected", "recovering", "conforming"}
        BY Zenon DEF Worst
      <4> QED BY Zenon, <3>2, <4>1, ConditionOfTheWorst DEF Conditions
    <3> QED BY Zenon, <3>1, <3>2
  <2> QED BY Zenon, <2>1, <2>2, <2>3, FrameFields DEF TypeOK, StateMap
<1> QED BY <1>1, Invariance, PTL

(* However the observations are cut into batches, and whichever of them     *)
(* carry no evidence, advance() arrives at the phase that the whole history *)
(* calls for by the definition of hysteresis.                               *)
THEOREM PhaseIsThatOfTheHistory == Spec => []PhaseFollowsEvidence
<1>1. IInv => PhaseFollowsEvidence
  <2> SUFFICES ASSUME IInv, NEW v \in ViolationTypes
               PROVE  IF v \in DOMAIN violations
                      THEN violations[v].phase = PhaseOfHistory(frames, Len(frames), v)
                      ELSE /\ PhaseOfHistory(frames, Len(frames), v) = "clear"
                           /\ frames # <<>> => ~Known(v, frames[Len(frames)])
    BY Zenon DEF PhaseFollowsEvidence
  <2>1. /\ StateMap(violations) /\ Follows(frames, Len(frames), violations)
        /\ frames \in Seq(FrameRecords)
    BY Zenon DEF IInv, Evaluated, InOrder
  <2>2. frames # <<>> => Len(frames) # 0
    BY <2>1
  <2> QED BY Zenon, <2>1, <2>2, FollowedPhase
<1> QED BY <1>1, Invariance, PTL

(* The transitions of every violation alternate, and a resolution names the *)
(* opening of the incident it resolves, which came before it: writeEvaluation *)
(* finds the opening it looks for.                                          *)
THEOREM TransitionsAlternate == Spec => []IncidentsAlternate
<1>1. IInv => IncidentsAlternate
  <2> SUFFICES ASSUME IInv PROVE IncidentsAlternate
    BY Zenon
  <2>1. Alternates(transitions) /\ DOMAIN transitions = 1 .. Len(transitions)
    <3>1. /\ Alternates(transitions)
          /\ transitions \in Seq(Recorded(frames, Len(frames), batchFrom, causalFrom))
      BY Zenon DEF IInv, Evaluated
    <3> QED BY Zenon, <3>1, LenProperties
  <2> QED BY Zenon, <2>1 DEF IncidentsAlternate, Alternates, Continues, Preceding
<1> QED BY <1>1, Invariance, PTL

(* The condition is that of the worst phase, in whatever order Go iterates  *)
(* over the map of violations.                                              *)
THEOREM ConditionIsOrderIndependent == Spec => []ConditionIsTheWorstPhase
<1>1. IInv => ConditionIsTheWorstPhase
  BY Zenon, ConditionOfTheWorst DEF ConditionIsTheWorstPhase, PhasesOf, Worst
<1> QED BY <1>1, Invariance, PTL

(* CausalFrom, which the commit fences, is not after anything the result of *)
(* a batch rests on.                                                        *)
THEOREM CausalFromIsEarliest == Spec => []CausalFromCoversEvidence
<1>1. IInv => CausalFromCoversEvidence
  <2> SUFFICES ASSUME IInv, frames # <<>>
               PROVE  /\ \A i \in batchFrom .. Len(frames) : frames[i].at >= causalFrom
                      /\ \A v \in DOMAIN violations :
                           violations[v].phase # "clear" => violations[v].firstSuspectedAt >= causalFrom
                      /\ \A i \in DOMAIN transitions :
                           transitions[i].frame >= batchFrom =>
                             frames[transitions[i].openingFrame].at >= causalFrom
    BY Zenon DEF CausalFromCoversEvidence
  <2>1. /\ StateMap(violations)
        /\ transitions \in Seq(Recorded(frames, Len(frames), batchFrom, causalFrom))
        /\ \A v \in ViolationTypes : Anchored(frames, Len(frames), causalFrom, StateOf(violations, v))
    BY Zenon DEF IInv, Evaluated
  <2>2. \A i \in batchFrom .. Len(frames) : frames[i].at >= causalFrom
    BY Zenon DEF IInv
  <2>3. ASSUME NEW v \in DOMAIN violations, violations[v].phase # "clear"
        PROVE  violations[v].firstSuspectedAt >= causalFrom
    <3>1. v \in ViolationTypes /\ StateOf(violations, v) = violations[v] /\ violations[v].phase # ""
      BY Zenon, <2>1, <2>3, StateOfType DEF StateMap, StateOf
    <3>2. causalFrom <= violations[v].firstSuspectedAt
      BY Zenon, <2>1, <2>3, <3>1 DEF Anchored
    <3> QED BY Zenon, <3>2
  <2>4. ASSUME NEW i \in DOMAIN transitions, transitions[i].frame >= batchFrom
        PROVE  frames[transitions[i].openingFrame].at >= causalFrom
    <3>1. transitions[i] \in Recorded(frames, Len(frames), batchFrom, causalFrom)
      BY <2>1
    <3> QED BY <2>4, <3>1, Zenon DEF Recorded
  <2> QED BY Zenon, <2>2, <2>3, <2>4
<1> QED BY <1>1, Invariance, PTL

(* Evaluate finds a best volume whenever one is compatible.                 *)
LEMMA BestExists ==
  ASSUME NEW o \in FrameRecords, Compatible(o) # {}
  PROVE  Best(o) \in Compatible(o)
<1> DEFINE C == Compatible(o)
           score(i) == Score(o.reading, i)
           Scores == {score(i) : i \in C}
<1>1. DOMAIN Volumes = 1 .. Len(Volumes)
  BY AssignmentAssumption
<1>2. C \subseteq DOMAIN Volumes
  BY Zenon DEF Compatible, SpatialVolumes, ActiveVolumes, terminalOverrunVolumes
<1>3. ReadingShape(o.reading)
  BY Zenon, ReadingsAssumption DEF FrameRecords
<1>4. ASSUME NEW i \in C PROVE score(i) \in Nat
  <2>1. o.reading.distance[i] \in Nat /\ o.reading.deviation[i] \in Nat
    BY Zenon, <1>2, <1>3 DEF ReadingShape
  <2>2. \A x, y \in Nat : Excess(x, y) \in Nat
    BY DEF Excess
  <2>3. Excess(o.reading.distance[i], HorizontalTolerance) \in Nat
        /\ Excess(o.reading.deviation[i], VerticalTolerance) \in Nat
    BY Zenon, <2>1, <2>2, PolicyAssumption
  <2> QED BY <2>3 DEF Score
<1> HIDE DEF score, C
<1>5. PICK least \in Scores : \A x \in Scores : least <= x
  <2>1. Scores \subseteq Nat /\ Scores # {}
    BY Zenon, <1>4 DEF C
  <2> HIDE DEF Scores
  <2> QED BY Zenon, <2>1, Smallest
<1> DEFINE T == {i \in C : score(i) = least}
<1>6. PICK i \in T : \A j \in T : i <= j
  <2>1. T \subseteq Nat /\ T # {}
    BY <1>1, <1>2
  <2> HIDE DEF T
  <2> QED BY Zenon, <2>1, Smallest
<1>7. ASSUME NEW j \in C \ {i}
      PROVE  score(i) < score(j) \/ (score(i) = score(j) /\ i < j)
  <2>1. least <= score(j) /\ score(i) = least /\ score(i) \in Nat /\ score(j) \in Nat
    BY Zenon, <1>4, <1>5, <1>6
  <2>2. CASE score(j) = least
    <3>1. i <= j /\ i # j /\ i \in Nat /\ j \in Nat
      BY <1>1, <1>2, <1>6, <2>2
    <3> QED BY <2>1, <2>2, <3>1
  <2>3. CASE score(j) # least
    BY <2>1, <2>3
  <2> QED BY Zenon, <2>2, <2>3
<1>8. \E k \in Compatible(o) : \A j \in Compatible(o) \ {k} :
        \/ Score(o.reading, k) < Score(o.reading, j)
        \/ Score(o.reading, k) = Score(o.reading, j) /\ k < j
  BY <1>6, <1>7, Zenon DEF C, score
<1> QED BY <1>8, Zenon DEF Best

(* A violation that the last frame is a breach of is not clear.             *)
LEMMA BreachIsNotClear ==
  ASSUME NEW F, NEW m \in Nat \ {0}, NEW v, Known(v, F[m]), Breached(v, F[m])
  PROVE  PhaseOfHistory(F, m, v) # "clear"
<1>1. m \in OutsideFrames(F, m, v) /\ Before(m, InsideFrames(F, m, v))
  <2>1. /\ OutsideFrames(F, m, v) = OutsideFrames(F, m - 1, v) \cup {m}
        /\ InsideFrames(F, m, v) = InsideFrames(F, m - 1, v)
        /\ Before(m, InsideFrames(F, m - 1, v))
    BY Zenon, EvidenceGrows
  <2> QED BY Zenon, <2>1
<1>2. EndsOutside(OutsideFrames(F, m, v), InsideFrames(F, m, v))
  BY <1>1 DEF EndsOutside, Before
<1> QED BY Zenon, <1>2 DEF PhaseOfHistory

(* An aircraft is only called conforming when one active volume contains it *)
(* in all four dimensions: two volumes are never combined, whatever the     *)
(* plan, the readings and the history are.                                  *)
THEOREM ConformingIsInOneVolume == Spec => []ConformingMeansOneVolume
<1>1. IInv => ConformingMeansOneVolume
  <2> SUFFICES ASSUME IInv, condition = "conforming"
               PROVE  \E i \in ActiveVolumes(frames[Len(frames)].at) :
                        /\ InEffect(frames[Len(frames)].at)
                        /\ Volumes[i].altitudeReference = frames[Len(frames)].reading.altitudeReference
                        /\ InsideLateral(frames[Len(frames)].reading, i)
                        /\ frames[Len(frames)].reading.deviation[i] <= VerticalTolerance
    BY Zenon DEF ConformingMeansOneVolume
  <2> DEFINE m == Len(frames)
             o == frames[m]
  <2>1. frames # <<>>
    BY Zenon DEF IInv
  <2>2. /\ frames \in Seq(FrameRecords) /\ StateMap(violations)
        /\ Follows(frames, m, violations)
    BY Zenon DEF IInv, InOrder, Evaluated
  <2>3. m \in Nat \ {0} /\ o \in FrameRecords
    BY <2>1, <2>2
  <2>4. Worst(PhasesOf(violations)) = "conforming" /\ Known("vertical", o)
    BY Zenon, <2>1, ConditionOfTheWorst
  <2> HIDE DEF m
  <2>5. ASSUME NEW v \in DOMAIN violations PROVE violations[v].phase = "clear"
    <3>1. violations[v].phase \in Phases /\ violations[v].phase \in PhasesOf(violations)
      BY Zenon, <2>2 DEF StateMap, IncidentStates, PhasesOf
    <3> QED BY Zenon, <2>4, <3>1 DEF Worst, Phases
  <2>6. ASSUME NEW v \in ViolationTypes, Known(v, o) PROVE ~Breached(v, o)
    <3>1. PhaseOfHistory(frames, m, v) = "clear"
      BY Zenon, <2>2, <2>5, FollowedPhase
    <3> QED BY Zenon, <2>3, <2>6, <3>1, BreachIsNotClear
  <2> HIDE DEF o
  <2>7. ~TemporalBreach(o)
    BY Zenon, <2>6 DEF ViolationTypes, Known, Breached
  <2>8. InEffect(o.at) /\ ActiveVolumes(o.at) # {} /\ SpatialVolumes(o.at) = ActiveVolumes(o.at)
    BY Zenon, <2>7 DEF TemporalBreach, SpatialVolumes
  <2>9. Compatible(o) # {}
    BY Zenon, <2>4 DEF Known
  <2>10. SpatialVolumes(o.at) # {} /\ Compatible(o) \subseteq ActiveVolumes(o.at)
         /\ \A i \in Compatible(o) : Volumes[i].altitudeReference = o.reading.altitudeReference
    BY Zenon, <2>8 DEF Compatible
  <2>11. ~LateralBreach(o) /\ ~VerticalBreach(o)
    <3>1. Known("lateral", o) /\ (Breached("lateral", o) <=> LateralBreach(o))
          /\ (Breached("vertical", o) <=> VerticalBreach(o))
      BY Zenon, <2>10 DEF Known, Breached
    <3>2. "lateral" \in ViolationTypes /\ "vertical" \in ViolationTypes
      BY Zenon DEF ViolationTypes
    <3> QED BY Zenon, <2>4, <2>6, <3>1, <3>2
  <2>12. \E i \in Compatible(o) :
           InsideLateral(o.reading, i) /\ o.reading.deviation[i] <= VerticalTolerance
    <3>1. CASE JointPass(o)
      BY Zenon, <3>1 DEF JointPass
    <3>2. CASE ~JointPass(o)
      <4>1. Best(o) \in Compatible(o)
        BY Zenon, <2>3, <2>9, BestExists
      <4>2. /\ o.reading.distance[Best(o)] \in Nat /\ o.reading.deviation[Best(o)] \in Nat
        <5>1. Best(o) \in DOMAIN Volumes
          BY Zenon, <2>10, <4>1 DEF ActiveVolumes
        <5> QED BY Zenon, <2>3, <5>1, ReadingsAssumption DEF FrameRecords, ReadingShape
      <4>3. ~(o.reading.distance[Best(o)] > HorizontalTolerance)
            /\ ~(o.reading.deviation[Best(o)] > VerticalTolerance)
        BY Zenon, <2>9, <2>11, <3>2 DEF LateralBreach, VerticalBreach
      <4>4. o.reading.distance[Best(o)] <= HorizontalTolerance
            /\ o.reading.deviation[Best(o)] <= VerticalTolerance
        BY <4>2, <4>3, PolicyAssumption
      <4> QED BY Zenon, <4>1, <4>4 DEF InsideLateral
    <3> QED BY Zenon, <3>1, <3>2
  <2> QED BY Zenon, <2>8, <2>10, <2>12 DEF o, m
<1> QED BY <1>1, Invariance, PTL

=============================================================================
