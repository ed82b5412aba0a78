------------------------------- MODULE MCGate -------------------------------
(* A small session for Gate: two workers in workspaces of their own, one of them asked
   before and still shows its answer. *)
EXTENDS Gate, TLC

CONSTANTS a, b, ws1, ws2, x

Both   == <<a, b>>
Places == a :> ws1 @@ b :> ws2
One    == x :> a
=============================================================================
