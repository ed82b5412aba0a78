-------------------------------- MODULE Dial --------------------------------
(***************************************************************************)
(* How a command finds out whether herdr is there, which of its sessions   *)
(* to ask, and which repository it is for: Probe, dialHerdrIfPresent and   *)
(* newSession.  Every dial is a step, and sessions start, end, die and are *)
(* too busy to accept between any two.                                     *)
(***************************************************************************)
EXTENDS Naturals, Sequences, FiniteSets, Functions

CONSTANTS
  Endpoints,   \* the sockets of the default session and of the named ones, in order
  NoSession

\* There is a default session, and a name for none.
ASSUME EndpointAssumption ==
  /\ Endpoints \in Seq(Range(Endpoints)) /\ Endpoints # <<>>
  /\ NoSession \notin Range(Endpoints)

VARIABLES
  socket,      \* at each endpoint: none, live, busy (herdr up) or stale (nobody behind)
  folders,     \* the named sessions that have a folder
  agents,      \* sessions with an agent at work in the checkout
  call,        \* how the command was called
  at,          \* where it stands
  todo,        \* the places in Endpoints still to be dialled
  live,        \* those that answered
  mute,        \* those that were there and did not answer
  client       \* the session it talks to, or NoSession

dialVars    == <<todo, live, mute, client>>
sessionVars == <<socket, folders, agents>>

Session == Range(Endpoints)
Default == Endpoints[1]
Up(s)   == socket[s] \in {"live", "busy"}

\* prune-apply removes and can do without herdr, sync cannot.  Called by herdr, a
\* command stands in the plugin's own checkout and is told about the focused pane;
\* called by hand it stands where the person does, and a socket may be named, by a pane
\* of that herdr or by one long gone.
Calls ==
  {c \in [command: {"apply", "sync"}, by: {"herdr", "hand"}, named: Session \cup {NoSession},
          context: {"none", "malformed", "noDir", "dir"}, repo: BOOLEAN] :
     IF c.by = "hand" THEN c.context = "none"
     ELSE c.named # NoSession /\ c.context # "none" /\ ~c.repo}

Required == call.command = "sync"

-----------------------------------------------------------------------------
(* Sessions and their agents *)

SessionStarts(s) ==
  /\ ~Up(s)
  /\ socket' = [socket EXCEPT ![s] = "live"]
  /\ folders' = folders \cup {s}
  /\ UNCHANGED agents

SessionEnds(s) ==
  /\ Up(s)
  /\ \E left \in {"none", "stale"} : socket' = [socket EXCEPT ![s] = left]
  /\ agents' = agents \ {s}
  /\ UNCHANGED folders

\* Its queue fills, or is worked off.
Backlog(s) ==
  /\ Up(s)
  /\ socket' = [socket EXCEPT ![s] = IF @ = "live" THEN "busy" ELSE "live"]
  /\ UNCHANGED <<folders, agents>>

AgentComes(s) ==
  /\ Up(s) /\ s \notin agents
  /\ agents' = agents \cup {s}
  /\ UNCHANGED <<socket, folders>>

AgentGoes(s) ==
  /\ s \in agents
  /\ agents' = agents \ {s}
  /\ UNCHANGED <<socket, folders>>

SessionMoves ==
  \E s \in Session :
    SessionStarts(s) \/ SessionEnds(s) \/ Backlog(s) \/ AgentComes(s) \/ AgentGoes(s)

-----------------------------------------------------------------------------
(* Probe *)

\* Mutant: a socket nobody accepts at is one nobody is behind.
AbsentIfRefused(s) == socket[s] \in {"none", "stale", "busy"}

\* ENOENT alone proves that nothing ever bound the socket.
Absent(s) == socket[s] = "none"

\* The endpoint herdr named, unless the name is stale.
DialNamed ==
  /\ at = "named"
  /\ LET s == call.named
     IN  \/ s = NoSession /\ at' = "list" /\ UNCHANGED <<mute, client>>
         \/ s # NoSession /\ socket[s] = "live" /\ at' = "resolve" /\ client' = s /\ UNCHANGED mute
         \/ s # NoSession /\ Absent(s) /\ at' = "list" /\ UNCHANGED <<mute, client>>
         \/ s # NoSession /\ socket[s] # "live" /\ ~Absent(s)
            /\ at' = "refused" /\ mute' = {s} /\ UNCHANGED client
  /\ UNCHANGED <<todo, live>>

\* SessionSocketPaths: a folder of sessions that cannot be read has none, and without a
\* home nothing is known to be dialled.
ListSessions ==
  /\ at = "list"
  /\ \E readable, home \in BOOLEAN :
       LET Listed(s) == s = Default \/ (readable /\ s \in folders)
       IN  IF home
           THEN todo' = {i \in DOMAIN Endpoints : Listed(Endpoints[i])} /\ at' = "search"
           ELSE at' = "refused" /\ UNCHANGED todo
  /\ UNCHANGED <<live, mute, client>>

\* What one dial establishes of a session.
DialOne(s) ==
  \/ socket[s] = "live" /\ live' = live \cup {s} /\ UNCHANGED mute
  \/ socket[s] # "live" /\ Absent(s) /\ UNCHANGED <<live, mute>>
  \/ socket[s] # "live" /\ ~Absent(s) /\ mute' = mute \cup {s} /\ UNCHANGED live

DialNext ==
  /\ at = "search"
  /\ \E i \in todo :
       /\ \A j \in todo : i <= j
       /\ DialOne(Endpoints[i])
       /\ todo' = todo \ {i}
  /\ UNCHANGED <<at, client>>

\* One that answered is the one; two, or none and one that kept silent, are refused;
\* and that there is none is a reason to refuse only for what needs herdr.
Conclude ==
  /\ at = "search" /\ todo = {}
  /\ \/ \E s \in live : live = {s} /\ client' = s /\ at' = "resolve"
     \/ /\ \/ Cardinality(live) > 1
           \/ live = {} /\ (mute # {} \/ Required)
        /\ at' = "refused"
        /\ UNCHANGED client
     \/ /\ live = {} /\ mute = {} /\ ~Required
        /\ at' = "resolve"
        /\ UNCHANGED client
  /\ UNCHANGED <<todo, live, mute>>

\* newSession: neither command may guess which repository it is for, except where no
\* herdr can have called it.
MayFallBack == client = NoSession

Told == call.repo \/ call.context = "dir"

Resolve ==
  /\ at = "resolve"
  /\ \/ /\ Told \/ (call.context # "malformed" /\ MayFallBack)
        /\ at' = IF Required THEN "over" ELSE "collect"
     \/ at' = "refused"        \* git knows no repository there, too
  /\ UNCHANGED dialVars

\* The repository that was resolved: the working directory is the plugin's own
\* checkout when herdr called.
Root == IF Told \/ call.by = "hand" THEN "meant" ELSE "plugin"

DialStep == DialNamed \/ ListSessions \/ DialNext \/ Conclude \/ Resolve
=============================================================================
