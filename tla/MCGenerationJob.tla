--------------------------- MODULE MCGenerationJob ---------------------------
(***************************************************************************)
(* Small instances of GenerationJob for TLC.                               *)
(***************************************************************************)
EXTENDS GenerationJob, TLC

\* Slots are interchangeable, and so are jobs: no property names one.
Symmetry == Permutations(Runs) \cup Permutations(Jobs)

=============================================================================
