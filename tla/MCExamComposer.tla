--------------------------- MODULE MCExamComposer ---------------------------
(* ExamComposer for TLC: the questions are interchangeable, and so are the *)
(* server processes.                                                       *)
EXTENDS ExamComposer, TLC

Symmetry == Permutations(Questions) \cup Permutations(Workers)

=============================================================================
