------------------------------- MODULE MCWake -------------------------------
(* Small instances of Wake: two reports of one worker, whose queue they share,
   and reports of two workers, whose queues they do not. *)
EXTENDS Wake, TLC

CONSTANTS r1, r2, w1, w2

Shared  == r1 :> w1 @@ r2 :> w1
Apart   == r1 :> w1 @@ r2 :> w2
=============================================================================
