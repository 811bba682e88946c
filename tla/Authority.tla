------------------------------ MODULE Authority --------------------------------
(***************************************************************************)
(* What the assignment store promises to everyone who routes an            *)
(* observation by its capture time (docs/assignment-cutover.md,            *)
(* "Event-time routing"): an event time is governed by at most one         *)
(* generation, a cutover moves the rest of event time to a newer           *)
(* generation without leaving a gap, and evidence is only ever recorded    *)
(* for the generation that governs all of it - and keeps governing it.     *)
(* Commands, messages, candidates, leases and revisions do not appear;     *)
(* AssignmentStore is shown to implement this module.                      *)
(***************************************************************************)
EXTENDS Integers

CONSTANTS
  Times,        \* event times
  Generations   \* assignment generations, numbered from 1

VARIABLES
  governor,     \* the generation that governs an event time, or Nobody
  evidence      \* causal ranges evaluated so far, with their generation

Nobody == 0

Init ==
  /\ governor = [t \in Times |-> Nobody]
  /\ evidence = {}

(* The times from `at' to `last' pass to g, and nobody governs what comes   *)
(* after.  Nothing recorded is taken from its generation, and g continues   *)
(* where its predecessor stops.                                             *)
HandOver(g, at, last) ==
  /\ at <= last
  /\ \A t \in Times : governor[t] < g
  /\ (\E t \in Times : governor[t] # Nobody) =>
       \E t \in Times : t = at - 1 /\ governor[t] # Nobody
  /\ \A e \in evidence : e.observedAt < at
  /\ governor' = [t \in Times |-> IF t < at THEN governor[t]
                                  ELSE IF t <= last THEN g ELSE Nobody]
  /\ UNCHANGED evidence

(* An evaluation is recorded for the generation that governs every event    *)
(* time it depends on.                                                      *)
Attribute(g, from, at) ==
  /\ from <= at
  /\ \A t \in Times : from <= t /\ t <= at => governor[t] = g
  /\ evidence' = evidence \cup {[generation |-> g, causalFrom |-> from, observedAt |-> at]}
  /\ UNCHANGED governor

(* Repeating what is recorded, or moving no event time, is a stutter.       *)
Next ==
  \/ /\ governor' # governor
     /\ \E g \in Generations, at, last \in Times : HandOver(g, at, last)
  \/ /\ evidence' # evidence
     /\ \E g \in Generations, from, at \in Times : Attribute(g, from, at)

Spec == Init /\ [][Next]_<<governor, evidence>>

=============================================================================
