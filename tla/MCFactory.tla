----------------------------- MODULE MCFactory -----------------------------
(* Two machines with one issue, which is waiting or was closed with its claim gone and
   its label still on; one machine with a queue of two, of which the older is agreed, or
   edited since it was approved, or closed; and both, with nothing going wrong. *)
EXTENDS Factory

CONSTANTS h1, h2

Board(opened, progress, agreed) ==
  [open |-> opened, ready |-> opened, inProgress |-> progress, approved |-> agreed,
   hosts |-> Host, issues |-> Issue, moves |-> 0]

Queue == {Board({1, 2}, {}, {1, 2}), Board({1, 2}, {}, {2}), Board({2}, {1}, {1, 2})}

TwoMachines == {[b EXCEPT !.issues = {1}, !.moves = 2] :
                  b \in {Board({1}, {}, {1}), Board({}, {1}, {1})}}
OneQueue == {[b EXCEPT !.hosts = {h1}, !.moves = 3] : b \in Queue}

AllScenes == TwoMachines \cup OneQueue \cup Queue
=============================================================================
