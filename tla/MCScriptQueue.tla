---------------------------- MODULE MCScriptQueue ----------------------------
(***************************************************************************)
(* Instances of ScriptQueue for TLC.  Workers are interchangeable, and so  *)
(* are administrators: the runs without liveness properties take them as   *)
(* symmetry sets.                                                          *)
(***************************************************************************)
EXTENDS ScriptQueueLedger, TLC

WorkerSymmetry == Permutations(Workers)
QueueSymmetry  == WorkerSymmetry \cup Permutations(Admins)

=============================================================================
