----------------------------- MODULE MCFeedback -----------------------------
(* Small instances of Feedback: two sessions watch one branch, whose pull
   request gets reviews and failures, is closed, reopened and replaced. *)
EXTENDS Feedback

CONSTANTS s1, s2, b1, i1
=============================================================================
