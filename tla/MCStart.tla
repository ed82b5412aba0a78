------------------------------ MODULE MCStart ------------------------------
(* One delivery of any kind in a pane that moves, and a run of approve by a person,
   beside an account that may have write access and approves nothing; or two commands on lessons
   of two dispatches, one of which may be live and one drafted. *)
EXTENDS Onboarding, TLC

CONSTANTS d1, a1, ann, bot, t1, t2, t3, c1, c2, s1, l1, l2, w1, w2

OneApprover == a1 :> ann
\* Done twice, and done after a round of feedback.
TwoCycles == l1 :> <<"done", "done">> @@ l2 :> <<"feedback", "done">>
=============================================================================
