------------------------------ MODULE MCSendBack ------------------------------
(* Small instances of SendBack: two runs beside each other, or verify alone. *)
EXTENDS SendBack, TLC

CONSTANTS r1, r2, t1, t2, k1, k2

Together(first, second) == r1 :> first @@ r2 :> second

Pairs == {Together("view", "view"), Together("view", "approval"), Together("approval", "view"),
          Together("approval", "approval"), Together("verify", "over"), Together("over", "verify")}

Interchangeable == Permutations(Run) \cup Permutations(Check)

ReviewThenRework == {Together("view", "approval")}
=============================================================================
