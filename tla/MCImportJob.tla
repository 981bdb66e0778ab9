---------------------------- MODULE MCImportJob ----------------------------
(***************************************************************************)
(* A small instance of ImportJob for TLC: student s1 has two attempts, the *)
(* files of the two jobs share the attempt of s2.                          *)
(***************************************************************************)
EXTENDS ImportJob, TLC

CONSTANTS j1, j2, a1, a2, a3, s1, s2

OwnerOfAttempt == a1 :> s1 @@ a2 :> s1 @@ a3 :> s2
FileOfJob == j1 :> {a1, a3} @@ j2 :> {a2, a3}

=============================================================================
