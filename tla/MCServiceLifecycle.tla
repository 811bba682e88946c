-------------------------- MODULE MCServiceLifecycle --------------------------
(***************************************************************************)
(* An instance of ServiceLifecycle for TLC.  The replicas of a database:   *)
(* one of an old build, two of the new build, one of a build with edited   *)
(* files and one of a build with two files of the same version.            *)
(***************************************************************************)
EXTENDS ServiceLifecycle

File1(checksum) == [version |-> 1, checksum |-> checksum]
File2(checksum) == [version |-> 2, checksum |-> checksum]

SomeReplicas == {"old", "new", "edited", "twice", "main"}
SomeFiles ==
  [old |-> <<File1("a")>>,
   new |-> <<File1("a"), File2("b")>>,
   main |-> <<File1("a"), File2("b")>>,
   edited |-> <<File1("c"), File2("d")>>,
   twice |-> <<File1("a"), File1("b")>>]

(* Replicas that start together, or one process that is followed to its     *)
(* end: a process whose store is open shares only tables with the others.   *)
SomeDeployments ==
  {{"old", "new", "edited"}, {"new", "twice"}, {"main"}}
=============================================================================
