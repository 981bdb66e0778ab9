------------------------ MODULE MCDocumentProcessing ------------------------
(* Model values for TLC.                                                    *)
EXTENDS DocumentProcessing, TLC

CONSTANTS r1, r2, r3

Symmetry == Permutations(Runs)
=============================================================================
