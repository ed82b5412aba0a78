------------------------------- MODULE Outbox -------------------------------
(***************************************************************************)
(* What wake.go promises a coordinator, with no file, pane or process in it: *)
(* an entry is owed from when it is queued until a line that says it, and    *)
(* nothing else, has been submitted; once that is known it is never said     *)
(* again; and an entry is let go only where there is an excuse for it.       *)
(***************************************************************************)
EXTENDS Naturals

CONSTANT Entry

VARIABLES
  status,  \* of each entry: new, owed, told or dropped
  calls,   \* how many lines have said it
  excuse   \* entries that may be dropped

vars == <<status, calls, excuse>>

Init ==
  /\ status = [e \in Entry |-> "new"]
  /\ calls = [e \in Entry |-> 0]
  /\ excuse = {}

In(s) == {e \in Entry : status[e] = s}

Becomes(S, s) == status' = [e \in Entry |-> IF e \in S THEN s ELSE status[e]]

Queue == \E e \in In("new") : Becomes({e}, "owed") /\ UNCHANGED calls

\* One line says all of S; that it did may go unheard, and then S is still owed.
Tell ==
  \E S \in (SUBSET In("owed")) \ {{}} :
    /\ calls' = [e \in Entry |-> IF e \in S THEN calls[e] + 1 ELSE calls[e]]
    /\ Becomes(S, "told") \/ UNCHANGED status

LetGo ==
  \E S \in SUBSET (In("new") \cup In("owed")) :
    S \subseteq excuse' /\ Becomes(S, "dropped") /\ UNCHANGED calls

Next == (Queue \/ Tell \/ LetGo) /\ excuse \subseteq excuse'

Spec == Init /\ [][Next]_vars
=============================================================================
