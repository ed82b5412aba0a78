---------------------------- MODULE MCRepoLock ----------------------------
(* Small instances of RepoLock for TLC, and the mutants of its definitions. *)
EXTENDS RepoLock, TLC

CONSTANTS h1, h2, h3, s1, a1

HookSyncApply    == h1 :> "hook" @@ s1 :> "sync" @@ a1 :> "apply"
TwoHooksAndApply == h1 :> "hook" @@ h2 :> "hook" @@ a1 :> "apply"
ThreeHooks       == h1 :> "hook" @@ h2 :> "hook" @@ h3 :> "hook"
Hooks == Permutations({h1, h2})
=============================================================================
