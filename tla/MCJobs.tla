------------------------------- MODULE MCJobs -------------------------------
(* JobSystem for TLC.  The safety runs use the symmetry of jobs and of the
   worker slots; the liveness run does not.                                 *)
EXTENDS JobSystem, TLC

JobSymmetry == Permutations(Job)
SlotSymmetry == Permutations(Slot)
Symmetry == JobSymmetry \cup SlotSymmetry
=============================================================================
