------------------------------ MODULE Evidence ------------------------------
(***************************************************************************)
(* What git and gh say of one branch: the history and the pull requests it *)
(* has, how people move them, and the questions internal/gitx and          *)
(* collect.go ask.  A commit is its place in the history; the changes it   *)
(* brings are the numbers of the commits that first made them, so a squash *)
(* brings changes whose commits the trunk never gets.                      *)
(***************************************************************************)
EXTENDS Naturals, Sequences, FiniteSets, Functions

CONSTANTS MaxCommits, MaxPRs

VARIABLES
  history,    \* of each commit: its parents, 0 for none, and the changes it brings
  tip,        \* the branch, checked out in its worktree
  edited,      \* there are uncommitted files in it
  trunk,      \* the default branch on GitHub
  base,       \* and as it was last fetched: origin/HEAD
  remote,     \* the branch on GitHub, or 0
  tracked,    \* and as it was last fetched: origin/<branch>
  published,  \* the branch has an upstream configured
  prs         \* its pull requests as they were opened: state, and second of opening

repoVars == <<history, tip, edited, trunk, base, remote, tracked, published, prs>>

\* The commits a commit reaches, through every parent or through the first alone:
\* those that are in whatever has the commit and the parents of all it has.
Reached(c, Parents(_)) ==
  LET Closed(S) == \A i \in {c} \cup UNION {Parents(history[j]) : j \in S} : i # 0 => i \in S
  IN  {i \in DOMAIN history : \A S \in SUBSET DOMAIN history : Closed(S) => i \in S}
Reaches(c)    == LET All(commit) == {commit.first, commit.second} IN Reached(c, All)
FirstLine(c)  == LET First(commit) == {commit.first} IN Reached(c, First)
Changes(c)    == UNION {history[i].brings : i \in Reaches(c)}

-----------------------------------------------------------------------------
(* People, agents and GitHub *)

Newest == Len(history) + 1

Add(first, second, brings) ==
  /\ Newest <= MaxCommits
  /\ history' = Append(history, [first |-> first, second |-> second, brings |-> brings])

EditFiles ==
  /\ ~edited
  /\ edited' = TRUE
  /\ UNCHANGED <<history, tip, trunk, base, remote, tracked, published, prs>>

CommitWork ==
  /\ Add(tip, 0, {Newest})
  /\ tip' = Newest
  /\ edited' = FALSE
  /\ UNCHANGED <<trunk, base, remote, tracked, published, prs>>

PushBranch ==
  /\ remote # tip
  /\ remote' = tip /\ tracked' = tip /\ published' = TRUE
  /\ UNCHANGED <<history, tip, edited, trunk, base, prs>>

Open(i) == prs[i].state = "OPEN"
NoneOpen == \A i \in DOMAIN prs : ~Open(i)

\* Two may be opened in one second.
OpenPR ==
  /\ remote # 0 /\ NoneOpen /\ Len(prs) < MaxPRs
  /\ LET last == IF prs = <<>> THEN 1 ELSE prs[Len(prs)].at
     IN  \E at \in {last, last + 1} : prs' = Append(prs, [state |-> "OPEN", at |-> at])
  /\ UNCHANGED <<history, tip, edited, trunk, base, remote, tracked, published>>

Becomes(i, state) == prs' = [prs EXCEPT ![i].state = state]

\* The branch lands: by a merge commit, squashed, or fast-forward; through its pull
\* request or by hand.
Land ==
  /\ remote # 0 /\ remote \notin Reaches(trunk)
  /\ \/ Add(trunk, remote, {}) /\ trunk' = Newest
     \/ Add(trunk, 0, Changes(remote) \ Changes(trunk)) /\ trunk' = Newest
     \/ trunk \in Reaches(remote) /\ trunk' = remote /\ UNCHANGED history
  /\ IF NoneOpen THEN UNCHANGED prs ELSE \E i \in DOMAIN prs : Open(i) /\ Becomes(i, "MERGED")
  /\ UNCHANGED <<tip, edited, base, remote, tracked, published>>

ClosePR ==
  /\ \E i \in DOMAIN prs : Open(i) /\ Becomes(i, "CLOSED")
  /\ UNCHANGED <<history, tip, edited, trunk, base, remote, tracked, published>>

ReopenPR ==
  /\ remote # 0 /\ NoneOpen
  /\ \E i \in DOMAIN prs : prs[i].state = "CLOSED" /\ Becomes(i, "OPEN")
  /\ UNCHANGED <<history, tip, edited, trunk, base, remote, tracked, published>>

DeleteRemote ==
  /\ remote # 0
  /\ remote' = 0
  /\ UNCHANGED <<history, tip, edited, trunk, base, tracked, published, prs>>

\* fetch --prune.
FetchAll ==
  /\ <<base, tracked>> # <<trunk, remote>>
  /\ base' = trunk /\ tracked' = remote
  /\ UNCHANGED <<history, tip, edited, trunk, remote, published, prs>>

\* The branch this one was forked off lands.
OtherLands ==
  /\ Len(history) >= 2 /\ 2 \notin Reaches(trunk)
  /\ Add(trunk, 2, {})
  /\ trunk' = Newest
  /\ UNCHANGED <<tip, edited, base, remote, tracked, published, prs>>

RepoMoves ==
  \/ EditFiles \/ CommitWork \/ PushBranch \/ OpenPR \/ Land \/ ClosePR \/ ReopenPR
  \/ DeleteRemote \/ FetchAll \/ OtherLands

-----------------------------------------------------------------------------
(* The questions.  answered is FALSE where git or gh could not be asked. *)

\* A checkout that cannot be read is taken for one with work in it.
IsDirty(answered) == ~answered \/ edited

IsAncestor(answered) == answered /\ tip \in Reaches(base)

\* A branch never committed to points at a trunk commit; what a merge absorbed sits
\* off the first-parent line.  A walk that broke off has established nothing.
OffTrunk(answered) == answered /\ tip \notin FirstLine(base)

\* Published once, and its tracking ref is gone: a ref that cannot be read is gone as
\* well, a configuration that cannot be read says it never was published.
UpstreamGone(config, ref) == published /\ config /\ (~ref \/ tracked = 0)

\* Mutant: the one gh lists first is the current one.
SupersedesNothing(pr, other, dated) == FALSE

\* Newer wins; without two usable dates, or with equal ones, the closed one does.
Supersedes(pr, other, dated) ==
  IF dated /\ pr.at # other.at
  THEN pr.at > other.at
  ELSE pr.state = "CLOSED" /\ other.state = "MERGED"

\* What gh answers, in whatever order it lists them: an open one whichever it is, else
\* the latest.
GhPRLookup(list, dated) ==
  LET latest[n \in DOMAIN list] ==
        IF n = 1 \/ Supersedes(list[n], latest[n-1], dated) THEN list[n] ELSE latest[n-1]
  IN  IF list = <<>> THEN ""
      ELSE IF \E pr \in Range(list) : pr.state = "OPEN" THEN "OPEN"
      ELSE latest[Len(list)].state

Listings == {[i \in DOMAIN prs |-> prs[order[i]]] : order \in Bijection(DOMAIN prs, DOMAIN prs)}

\* GhPRState: no answer is folded into no pull request.
GhPRState(answered, dated) ==
  IF answered THEN {GhPRLookup(list, dated) : list \in Listings} ELSE {""}
=============================================================================
