--------------------------- MODULE MCFeedbackPush ---------------------------
(***************************************************************************)
(* Small instances of FeedbackPush for TLC.                                *)
(***************************************************************************)
EXTENDS FeedbackPush, TLC

CONSTANTS s1, s2, s3

=============================================================================
