------------------------ MODULE MCWorkerHeartbeat ------------------------
(* WorkerHeartbeat with units of 15 seconds: clocks up to 45 s apart. *)
EXTENDS WorkerHeartbeat, TLC

MCSkews == {-2, 0, 3}
Symmetry == Permutations(Workers)
==========================================================================
