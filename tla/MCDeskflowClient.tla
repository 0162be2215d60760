-------------------------- MODULE MCDeskflowClient --------------------------
(***************************************************************************)
(* Instances of DeskflowClient for TLC.  Threads are symmetric in the runs *)
(* that check safety only.                                                 *)
(***************************************************************************)
EXTENDS DeskflowClient, TLC

WorkerAndFdSymmetry == Permutations(Worker) \cup Permutations(Fd)
=============================================================================
