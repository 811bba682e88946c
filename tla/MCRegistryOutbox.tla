--------------------------- MODULE MCRegistryOutbox ---------------------------
(***************************************************************************)
(* Instances of RegistryOutbox for TLC.                                    *)
(***************************************************************************)
EXTENDS RegistryOutbox, TLC

(* Publishers and assignments are interchangeable: for the safety run only. *)
Replicas == Permutations(Publishers) \cup Permutations(Assignments)
=============================================================================
