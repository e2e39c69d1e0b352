------------------------- MODULE MCRecoveryPipeline -------------------------
(* Values for the constants of the runs of RecoveryPipeline.               *)
EXTENDS RecoveryPipeline, TLC

\* File-system identities, stages and materializations are interchangeable.
Symmetry == Permutations(Objects) \cup Permutations(Stages)
                \cup Permutations(Materializations)
=============================================================================
