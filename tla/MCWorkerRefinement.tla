------------------------- MODULE MCWorkerRefinement -------------------------
(* The instance of MCWorker, seen through the refinement mapping. *)
EXTENDS MCWorker, WorkerRefinement
=============================================================================
