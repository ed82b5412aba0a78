---------------------------- MODULE MCReconciler ----------------------------
(* Small repositories for Reconciler: a linked checkout t1 beside the main one,
   and two workspaces of one pane each. *)
EXTENDS Reconciler, TLC

CONSTANTS main, t1, b1, w1, w2, p1, p2, r1, r2

OneTree   == <<main, t1>>
T1        == {t1}
Branches  == t1 :> b1
MCCheckoutDir(b) == t1
TwoSpaces == <<w1, w2>>
OnePaneEach == w1 :> <<p1>> @@ w2 :> <<p2>>

World(disk, on, hosts, said, says) ==
  [onDisk |-> disk, dirty |-> {}, ahead |-> {}, pr |-> [t \in Tree |-> says],
   held |-> [w \in WS |-> IF w \in DOMAIN on THEN on[w] ELSE NoTree],
   agent |-> [p \in Pane |-> IF p \in DOMAIN hosts THEN hosts[p] ELSE "none"],
   report |-> [p \in Pane |-> IF p \in DOMAIN said THEN said[p] ELSE "none"]]

Hosts(p) == {<<>>, p :> "idle", p :> "working"}

\* A checkout whose PR has merged or is about to, held by w1 or by nothing.
Finishing ==
  {World(Tree, on, hosts, <<>>, says) :
     on \in {w1 :> t1}, hosts \in Hosts(p1), says \in {"OPEN", "MERGED"}}
  \cup {World(Tree, <<>>, <<>>, <<>>, "MERGED")}

\* The factory's finish: t1 is gone, w1 is still open on it.
Ghostly ==
  {World(Tree \ {t1}, w1 :> t1, hosts, p1 :> "done", "MERGED") : hosts \in Hosts(p1)}

Reapable == Finishing \cup Ghostly

\* Nothing open yet, or one bare shell.
Unopened == {World(Tree, <<>>, <<>>, <<>>, ""), World(Tree, w1 :> t1, <<>>, <<>>, "")}

\* Two syncs one after the other; a prune-apply that may release agents while much
\* goes on; the same from the checkout itself; both, beside each other and nobody else.
Scene == [kind |-> r1 :> "sync" @@ r2 :> "sync", worlds |-> Unopened, release |-> FALSE,
          caller |-> NoTree, lags |-> FALSE, passes |-> 2, tries |-> 1, moves |-> 1]
TwoSyncs == Scene
OneApply == [Scene EXCEPT !.kind = r1 :> "apply" @@ r2 :> "none", !.worlds = Reapable,
                          !.release = TRUE, !.lags = TRUE, !.moves = 3]
ApplyAndSync == [Scene EXCEPT !.kind = r1 :> "apply" @@ r2 :> "sync", !.worlds = Reapable,
                              !.release = TRUE, !.passes = 1, !.moves = 0]
FromWithin == [OneApply EXCEPT !.caller = t1, !.moves = 1]
AllScenes == {TwoSyncs, OneApply, FromWithin, ApplyAndSync}
ASSUME Serialised /\ Scenes = AllScenes => Orderly

\* Two workspaces on one checkout, one of them with a worker.
Doubled == {[OneApply EXCEPT !.worlds =
               {World(Tree, w1 :> t1 @@ w2 :> t1, p1 :> "working", <<>>, "MERGED")}]}
=============================================================================
