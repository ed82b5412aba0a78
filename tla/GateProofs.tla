----------------------------- MODULE GateProofs -----------------------------
(***************************************************************************)
(* Theorems about Gate for every set of panes, targets and writers, every   *)
(* predicate, mode and set of faults and all bounds: what a gate ends on is  *)
(* new, it does not sleep on news, and a report is heard before its          *)
(* worker's death.                                                           *)
(***************************************************************************)
EXTENDS Gate, FiniteSetTheorems, TLAPS

\* The baseline of channel c of pane p has not been taken.
Pre(p, c) == gate.at \in {"resolve", "subscribe"} \/ (gate.base /\ <<p, c>> \in gate.todo)

\* What a channel shows is what its writer says; an earlier task's is not new.
Genuine(r) ==
  IF r.by = Earlier THEN ~r.new
  ELSE /\ writer[r.by].at # "idle"
       /\ r.status = writer[r.by].report.status /\ r.pr = writer[r.by].report.pr

\* Only a look has channels to read, news in hand or a death to act on, and the
\* first look nothing but channels.
ControlInv ==
  /\ gate.at \in {"resolve", "subscribe"} => gate.base
  /\ gate.at = "next" => ~gate.base
  /\ gate.at # "look" => gate.todo = {} /\ gate.fresh = {} /\ gate.gone = NoPane
  /\ gate.base => gate.fresh = {} /\ gate.gone = NoPane
  /\ outcome.kind = "none" <=> gate.at \in {"resolve", "subscribe", "look", "next"}
  /\ gate.at = "verify" => outcome.kind = "verifying"
  /\ outcome.report # NoReport => outcome.about \in Target

\* Who writes where, and what he writes.
CopyInv ==
  /\ \A w \in Writer : writer[w].at # "idle" => writer[w].report \in Reports /\ writer[w].report.by = w
  /\ \A w \in Writer : writer[w].at = "deliver" => writer[w].seq > 0
  /\ \A p \in Pane : (tokens[p].report = NoReport) <=> (tokens[p].seq = 0)
  /\ \A p \in Pane : tokens[p].report # NoReport => Genuine(tokens[p].report)
  /\ \A p \in Pane : \A i \in DOMAIN screen[p] : Genuine(screen[p][i])
  /\ \A f \in gate.fresh : Genuine(f.report)
  /\ \A p \in Pane : \A said \in lastWords[p] : said[2] # NoReport => Genuine(said[2])

\* What is called new came after its channel's baseline.
TakenInv ==
  \A p \in Target :
    /\ tokens[p].report # NoReport /\ tokens[p].report.new => ~Pre(p, "meta")
    /\ \A i \in DOMAIN screen[p] : screen[p][i].new => ~Pre(p, "term")
    /\ \A said \in lastWords[p] : said[2] # NoReport /\ said[2].new => ~Pre(p, said[1])

\* A number a pane's metadata had or has: an earlier one, or a delivered report's.
Numbered(p, n) ==
  \/ n = 0
  \/ p \in Answered /\ n = 1
  \/ \E v \in Writer : /\ Of[v] = p /\ writer[v].seq = n
                       /\ writer[v].at \in {"confirm", "delivered", "failed", "told"}
NumberInv ==
  /\ \A p \in Pane : Numbered(p, tokens[p].seq)
  /\ \A p \in Target : Numbered(p, mark[p]["meta"])

\* What a look can find news of, once the baseline was read, is news.
OldInv ==
  Subscribed => \A p \in Target :
    /\ ~Pre(p, "meta") /\ <<p, "meta">> \notin blind /\ tokens[p].seq > mark[p]["meta"]
         => tokens[p].report.new
    /\ ~Pre(p, "term") /\ <<p, "term">> \notin blind /\ ~MetadataOnly
         => \A i \in DOMAIN screen[p] : i > mark[p]["term"] => screen[p][i].new

\* What a look turned up is news, and what satisfies ends the wait.
FreshInv ==
  /\ \A f \in gate.fresh : f.report.new \/ f.look \in blind
  /\ gate.at \notin {"verify", "over"} =>
       \A w \in judged \cap Writer : writer[w].at # "idle" /\ ~Satisfies(writer[w].report)

Heard(by) == by \in judged \/ \E f \in gate.fresh : f.report.by = by

\* A frame is due for every death, except those before the subscription, and for every
\* report in the metadata that was not weighed, lost or unreadable.
Due(p, verdict) == \E i \in DOMAIN stream : Verdict(stream[i], p) = verdict
DueInv ==
  /\ gate.at \in {"resolve", "subscribe"} => \A p \in ended \ early : WsOf[p] \in closedWs
  /\ Subscribed => \A p \in Target :
       /\ p \in ended \ early => gate.gone # NoPane \/ Due(p, "gone")
       /\ LET r == tokens[p].report
          IN  r # NoReport /\ r.new /\ <<r.by, "meta">> \notin spoiled =>
                \/ Heard(r.by)
                \/ /\ tokens[p].seq > mark[p]["meta"]
                   /\ <<p, "meta">> \in unread \cup gate.todo \/ Due(p, "check")

\* herdr says that a worker ended when it did.
EndedInv ==
  /\ \A p \in Pane : WsOf[p] \in closedWs => p \in ended
  /\ \A p \in Pane : Due(p, "gone") => p \in ended
  /\ gate.gone # NoPane => gate.gone \in ended
  /\ outcome.kind = "gone" => outcome.about \in ended
  /\ \A p \in Pane \ ended : lastWords[p] = {}

\* A pane's last words stay where they were, unless they are lost, and nobody has
\* taken them for read.
News(said) == said[2] # NoReport /\ said[2].new /\ <<said[2].by, said[1]>> \notin spoiled
StayInv ==
  \A p \in Pane : \A said \in lastWords[p] : News(said) =>
    /\ said[1] = "meta" => tokens[p].report = said[2]
    /\ said[1] = "term" =>
         /\ p \in Target /\ ~MetadataOnly
         /\ screen[p] # <<>> /\ screen[p][Len(screen[p])].by = said[2].by
         /\ Subscribed => Heard(said[2].by) \/ Len(screen[p]) > mark[p]["term"]

\* A look at a pane that ended comes to its last words or has them.
LookInv ==
  gate.gone # NoPane =>
    \A said \in lastWords[gate.gone] :
      News(said) /\ Satisfies(said[2]) /\ <<gate.gone, said[1]>> \notin unread =>
        <<gate.gone, said[1]>> \in gate.todo \/ \E f \in gate.fresh : Satisfies(f.report)

IInv ==
  /\ TypeOK /\ ControlInv /\ CopyInv /\ TakenInv /\ NumberInv /\ OldInv /\ FreshInv
  /\ DueInv /\ EndedInv /\ StayInv /\ LookInv /\ NotStale /\ HeardBeforeLost

-----------------------------------------------------------------------------
(* What the parts of a step do *)

LEMMA Distinct ==
  /\ Target \subseteq Pane /\ NoPane \notin Target /\ NoPane \notin Pane
  /\ NoReport \notin Reports /\ Earlier \notin Writer
  BY TargetAssumption DEF Target

USE Distinct

\* A frame pushed is one more that is due.
LEMMA Emitted ==
  ASSUME TypeOK, NEW f \in Frames, Emit(f)
  PROVE  /\ stream' \in Seq(Frames)
         /\ \A p, v : Due(p, v) => Due(p, v)'
         /\ \A p, v : Due(p, v)' => Due(p, v) \/ (Subscribed /\ Verdict(f, p) = v)
         /\ \A p : Subscribed => Due(p, Verdict(f, p))'
  <1>1. stream \in Seq(Frames)
    BY DEF TypeOK
  <1>2. CASE ~Subscribed
    BY <1>1, <1>2 DEF Emit, Due
  <1>3. CASE Subscribed
    <2>1. stream' = Append(stream, f)
      BY <1>3 DEF Emit
    <2>2. /\ stream' \in Seq(Frames) /\ Len(stream') = Len(stream) + 1
          /\ \A i \in DOMAIN stream : i \in DOMAIN stream' /\ stream'[i] = stream[i]
          /\ Len(stream') \in DOMAIN stream' /\ stream'[Len(stream')] = f
          /\ \A i \in DOMAIN stream' : i \in DOMAIN stream \/ i = Len(stream')
      BY <1>1, <2>1
    <2> QED BY <1>3, <2>2 DEF Due
  <1> QED BY <1>2, <1>3

\* A frame read is due no more.
LEMMA Taken ==
  ASSUME TypeOK, stream # <<>>, stream' = Tail(stream)
  PROVE  /\ stream' \in Seq(Frames) /\ Head(stream) \in Frames
         /\ \A p, v : Due(p, v)' => Due(p, v)
         /\ \A p, v : Due(p, v) => Due(p, v)' \/ Verdict(Head(stream), p) = v
         /\ \A p : Due(p, Verdict(Head(stream), p))
  <1>1. stream \in Seq(Frames)
    BY DEF TypeOK
  <1>2. /\ stream' \in Seq(Frames) /\ Head(stream) = stream[1] /\ Head(stream) \in Frames
        /\ 1 \in DOMAIN stream
        /\ \A i \in DOMAIN stream' : i + 1 \in DOMAIN stream /\ stream'[i] = stream[i + 1]
        /\ \A i \in DOMAIN stream : i = 1 \/ (i - 1 \in DOMAIN stream' /\ stream'[i - 1] = stream[i])
    BY <1>1
  <1> QED BY <1>2 DEF Due

LEMMA FiniteRange ==
  ASSUME NEW S, IsFiniteSet(S), NEW f
  PROVE  IsFiniteSet({f[x] : x \in S})
  <1> DEFINE T == {f[x] : x \in S}
             g == [x \in S |-> f[x]]
  <1>1. g \in Surjection(S, T)
    BY DEF Surjection
  <1> HIDE DEF T, g
  <1>2. IsFiniteSet(T)
    BY <1>1, FS_Surjection
  <1> QED BY <1>2 DEF T

\* The frames a subscriber finds are those of the backlog.
LEMMA Replayed ==
  ASSUME TypeOK, stream' \in Backlog
  PROVE  /\ stream' \in Seq(Frames)
         /\ \A p \in Pane : Due(p, "gone")' <=> WsOf[p] \in closedWs
  <1> DEFINE frames == {Frame("updated", p, WsOf[p]) : p \in {q \in Pane : tokens[q].seq > 0}}
                         \cup {Frame("workspaceClosed", NoPane, ws) : ws \in closedWs}
  <1>1. IsFiniteSet(frames) /\ Cardinality(frames) \in Nat
    <2>1. IsFiniteSet({WsOf[p] : p \in Pane}) /\ IsFiniteSet(closedWs)
      <3>1. IsFiniteSet({WsOf[p] : p \in Pane})
        BY TargetAssumption, FiniteRange
      <3> QED BY <3>1, FS_Subset DEF TypeOK
    <2>2. IsFiniteSet({q \in Pane : tokens[q].seq > 0})
      BY TargetAssumption, FS_Subset
    <2>3. IsFiniteSet({Frame("updated", p, WsOf[p]) : p \in {q \in Pane : tokens[q].seq > 0}})
      <3> DEFINE S == {q \in Pane : tokens[q].seq > 0}
                 f == [p \in S |-> Frame("updated", p, WsOf[p])]
      <3>1. \A p \in S : f[p] = Frame("updated", p, WsOf[p])
        OBVIOUS
      <3> HIDE DEF f
      <3>2. IsFiniteSet({f[p] : p \in S})
        BY <2>2, FiniteRange
      <3>3. {f[p] : p \in S} = {Frame("updated", p, WsOf[p]) : p \in S}
        BY <3>1
      <3> QED BY <3>2, <3>3
    <2>4. IsFiniteSet({Frame("workspaceClosed", NoPane, ws) : ws \in closedWs})
      <3> DEFINE f == [ws \in closedWs |-> Frame("workspaceClosed", NoPane, ws)]
      <3>1. \A ws \in closedWs : f[ws] = Frame("workspaceClosed", NoPane, ws)
        OBVIOUS
      <3> HIDE DEF f
      <3>2. IsFiniteSet({f[ws] : ws \in closedWs})
        BY <2>1, FiniteRange
      <3>3. {f[ws] : ws \in closedWs} = {Frame("workspaceClosed", NoPane, ws) : ws \in closedWs}
        BY <3>1
      <3> QED BY <3>2, <3>3
    <2> QED BY <2>3, <2>4, FS_Union, FS_CardinalityType
  <1>2. frames \subseteq Frames
    BY DEF Frames, Frame, TypeOK
  <1>3. /\ stream' \in [1..Cardinality(frames) -> frames]
        /\ \A f \in frames : \E i \in DOMAIN stream' : stream'[i] = f
    BY DEF Backlog
  <1>4. stream' \in Seq(Frames)
    <2> HIDE DEF frames
    <2>1. PICK n \in Nat : stream' \in [1..n -> frames]
      BY <1>1, <1>3
    <2>2. stream' \in [1..n -> Frames]
      BY <1>2, <2>1
    <2> QED BY <2>2
  <1>5. ASSUME NEW p \in Pane PROVE Due(p, "gone")' <=> \E f \in frames : Verdict(f, p) = "gone"
    <2>1. \A i \in DOMAIN stream' : stream'[i] \in frames
      BY <1>3
    <2> QED BY <1>3, <2>1 DEF Due
  <1>6. ASSUME NEW p \in Pane PROVE (\E f \in frames : Verdict(f, p) = "gone") <=> WsOf[p] \in closedWs
    <2>1. ASSUME NEW q \in Pane PROVE Verdict(Frame("updated", q, WsOf[q]), p) # "gone"
      BY DEF Verdict, Frame
    <2>2. ASSUME NEW ws PROVE Verdict(Frame("workspaceClosed", NoPane, ws), p) = "gone" <=> ws = WsOf[p]
      BY DEF Verdict, Frame
    <2> QED BY <2>1, <2>2
  <1> QED BY <1>4, <1>5, <1>6

\* An envelope printed is the newest; what else is shown was, and no lower.
LEMMA PrintedIs ==
  ASSUME TypeOK, NEW p \in Pane, NEW e \in Reports, screen' = Printed(p, e)
  PROVE  /\ screen' \in [Pane -> Seq(Reports)]
         /\ \A q \in Pane \ {p} : screen'[q] = screen[q]
         /\ screen'[p] # <<>> /\ screen'[p][Len(screen'[p])] = e
         /\ Len(screen'[p]) >= Len(screen[p]) /\ Len(screen'[p]) \in DOMAIN screen'[p]
         /\ \A i \in DOMAIN screen'[p] :
              \/ screen'[p][i] = e
              \/ \E j \in DOMAIN screen[p] : j >= i /\ screen'[p][i] = screen[p][j]
  <1> DEFINE all == Append(screen[p], e)
             s == IF Len(all) > Window THEN Tail(all) ELSE all
  <1>1. screen[p] \in Seq(Reports) /\ screen \in [Pane -> Seq(Reports)]
    BY DEF TypeOK
  <1>2. /\ all \in Seq(Reports) /\ Len(all) = Len(screen[p]) + 1 /\ all[Len(all)] = e
        /\ \A i \in 1..Len(screen[p]) : all[i] = screen[p][i]
    BY <1>1
  <1>3. screen' = [screen EXCEPT ![p] = s]
    BY DEF Printed
  <1> HIDE DEF all
  <1>4. /\ s \in Seq(Reports) /\ s # <<>> /\ s[Len(s)] = e /\ Len(s) >= Len(screen[p])
        /\ Len(s) \in DOMAIN s
        /\ \A i \in DOMAIN s : s[i] = e \/ \E j \in DOMAIN screen[p] : j >= i /\ s[i] = screen[p][j]
    <2>1. CASE ~(Len(all) > Window)
      BY <1>1, <1>2, <2>1
    <2>2. CASE Len(all) > Window
      <3>1. s = Tail(all) /\ Window \in Nat /\ Window > 1
        BY <2>2, OptionAssumption
      <3>2. /\ s \in Seq(Reports) /\ Len(s) = Len(screen[p])
            /\ \A i \in 1..Len(s) : s[i] = all[i + 1]
        BY <1>1, <1>2, <3>1
      <3>3. Len(s) > 0
        BY <1>1, <1>2, <2>2, <3>1, <3>2
      <3> HIDE DEF s
      <3>4. s # <<>> /\ s[Len(s)] = e
        BY <1>1, <1>2, <3>2, <3>3
      <3>5. ASSUME NEW i \in DOMAIN s
            PROVE  s[i] = e \/ \E j \in DOMAIN screen[p] : j >= i /\ s[i] = screen[p][j]
        <4>1. i \in 1..Len(screen[p]) /\ Len(screen[p]) \in Nat /\ s[i] = all[i + 1]
          BY <1>1, <3>2
        <4>2. CASE i = Len(screen[p])
          BY <1>2, <4>1, <4>2
        <4>3. CASE i < Len(screen[p])
          <5>1. i + 1 \in 1..Len(screen[p]) /\ i + 1 >= i
            BY <4>1, <4>3
          <5>2. s[i] = screen[p][i + 1] /\ i + 1 \in DOMAIN screen[p]
            BY <1>1, <1>2, <4>1, <5>1
          <5> QED BY <5>1, <5>2
        <4> QED BY <4>1, <4>2, <4>3
      <3> QED BY <1>1, <3>2, <3>3, <3>4, <3>5
    <2> QED BY <2>1, <2>2
  <1> HIDE DEF s
  <1> QED BY <1>1, <1>3, <1>4

\* A scroll takes the oldest envelope.
LEMMA ScrolledIs ==
  ASSUME TypeOK, NEW p \in Pane, screen[p] # <<>>, screen' = [screen EXCEPT ![p] = Tail(@)]
  PROVE  /\ screen' \in [Pane -> Seq(Reports)]
         /\ \A q \in Pane \ {p} : screen'[q] = screen[q]
         /\ \A i \in DOMAIN screen'[p] :
              \E j \in DOMAIN screen[p] : j >= i /\ screen'[p][i] = screen[p][j]
  <1>1. screen[p] \in Seq(Reports) /\ screen \in [Pane -> Seq(Reports)]
    BY DEF TypeOK
  <1>2. /\ Tail(screen[p]) \in Seq(Reports)
        /\ \A i \in DOMAIN Tail(screen[p]) : i \in Nat /\ i + 1 \in DOMAIN screen[p]
                                              /\ Tail(screen[p])[i] = screen[p][i + 1]
    BY <1>1
  <1>3. screen'[p] = Tail(screen[p])
    BY <1>1
  <1> QED BY <1>1, <1>2, <1>3

-----------------------------------------------------------------------------
(* What the gate does, field by field *)

GateOnly == UNCHANGED <<paneVars, reportVars, events>>

Past == {"confirm", "delivered", "failed", "told"}

Count(p, c) == IF c = "meta" THEN tokens[p].seq ELSE Len(screen[p])
Top(p, c)   == IF c = "meta" THEN tokens[p].report ELSE screen[p][Len(screen[p])]

Left ==
  /\ GateOnly /\ stream' = <<>> /\ gate'.at \in {"verify", "over"} /\ gate'.base = gate.base
  /\ gate'.todo = {} /\ gate'.fresh = {} /\ gate'.gone = NoPane
  /\ UNCHANGED <<mark, unread, blind>>
  /\ judged \subseteq judged' /\ judged' \subseteq judged \cup {f.report.by : f \in gate.fresh}
  /\ outcome'.kind # "none" /\ (gate'.at = "verify" => outcome'.kind = "verifying")
  /\ outcome'.report # NoReport =>
       \/ outcome'.report = outcome.report /\ outcome'.about = outcome.about
       \/ \E f \in gate.fresh : outcome'.report = f.report /\ outcome'.about = f.look[1]
  /\ outcome'.kind = "gone" =>
       /\ gate.at = "look" /\ gate.todo = {} /\ Releasing = {}
       /\ outcome'.about = gate.gone /\ gate.gone # NoPane

Stayed == /\ gate'.todo = {} /\ gate'.fresh = {} /\ gate'.gone = NoPane
          /\ UNCHANGED <<mark, outcome, unread, blind>> /\ GateOnly

Resolved == /\ gate.at = "resolve" /\ gate'.at = "subscribe" /\ gate'.base = gate.base
            /\ UNCHANGED <<stream, judged>> /\ Stayed

Opens == /\ gate.at = "subscribe" /\ gate'.at = "look" /\ gate'.base = gate.base
         /\ gate'.todo = Target \X Channel /\ gate'.fresh = gate.fresh /\ gate'.gone = gate.gone
         /\ stream' \in Backlog
         /\ UNCHANGED <<mark, outcome, judged, unread, blind>> /\ GateOnly

BaseTaken == /\ gate.at = "look" /\ gate.base /\ gate.todo = {}
             /\ gate'.at = "next" /\ gate'.base = FALSE
             /\ UNCHANGED <<stream, judged>> /\ Stayed

Waits == /\ gate.at = "look" /\ ~gate.base /\ gate.todo = {} /\ gate.gone = NoPane /\ Releasing = {}
         /\ gate'.at = "next" /\ gate'.base = gate.base
         /\ judged' = judged \cup {f.report.by : f \in gate.fresh}
         /\ UNCHANGED stream /\ Stayed

Reads(g) ==
  /\ gate.at = "next" /\ stream # <<>> /\ stream' = Tail(stream)
  /\ gate'.at = "look" /\ gate'.base = gate.base /\ gate'.fresh = gate.fresh
  /\ gate'.todo = Hit(Head(stream)) \X Channel /\ gate'.gone = g
  /\ g = NoPane => \A p \in Target : Verdict(Head(stream), p) # "gone"
  /\ g # NoPane => g \in Target /\ Verdict(Head(stream), g) = "gone"
  /\ UNCHANGED <<mark, outcome, judged, unread, blind>> /\ GateOnly

LooksAt(p, c) ==
  /\ gate.at = "look" /\ <<p, c>> \in gate.todo
  /\ gate'.at = "look" /\ gate'.base = gate.base /\ gate'.gone = gate.gone
  /\ gate'.todo = gate.todo \ {<<p, c>>}
  /\ UNCHANGED <<stream, outcome, judged>> /\ GateOnly

Misses(p, c) ==
  /\ LooksAt(p, c) /\ gate'.fresh = gate.fresh /\ UNCHANGED mark
  /\ unread' = unread \cup {<<p, c>>}
  /\ blind' = IF gate.base THEN blind \cup {<<p, c>>} ELSE blind

Sees(p, c) ==
  /\ LooksAt(p, c) /\ UNCHANGED <<unread, blind>>
  /\ IF c = "term" /\ MetadataOnly THEN UNCHANGED mark /\ gate'.fresh = gate.fresh
     ELSE /\ mark' = [mark EXCEPT ![p][c] = Count(p, c)]
          /\ IF ~gate.base /\ Count(p, c) > mark[p][c]
             THEN gate'.fresh = gate.fresh \cup {[look |-> <<p, c>>, report |-> Top(p, c)]}
             ELSE gate'.fresh = gate.fresh

LEMMA Leaving ==
  ASSUME TypeOK, NEW label, NEW kind, NEW p, NEW r, Leave(label, kind, p, r)
  PROVE  /\ stream' = <<>> /\ gate'.at = label /\ gate'.base = gate.base
         /\ gate'.todo = {} /\ gate'.fresh = {} /\ gate'.gone = NoPane
         /\ outcome'.kind = kind /\ outcome'.about = p /\ outcome'.report = r
  BY DEF TypeOK, Leave

LEMMA SeenIs ==
  ASSUME TypeOK, CopyInv, NEW p \in Pane, NEW c \in Channel
  PROVE  /\ Seen(p, c).seq = Count(p, c) /\ Count(p, c) \in Nat
         /\ Count(p, c) > 0 => Seen(p, c).report = Top(p, c) /\ Top(p, c) \in Reports
  <1>1. tokens[p] \in [seq : Nat, report : Reports \cup {NoReport}] /\ screen[p] \in Seq(Reports)
    BY DEF TypeOK
  <1>2. CASE c = "meta"
    <2>1. MetaSeq(p) = tokens[p].seq
      BY DEF CopyInv, MetaSeq
    <2>2. tokens[p].seq > 0 => tokens[p].report # NoReport
      BY <1>1 DEF CopyInv
    <2> QED BY <1>1, <1>2, <2>1, <2>2 DEF Seen, Count, Top
  <1>3. CASE c = "term"
    <2>1. Len(screen[p]) > 0 => screen[p] # <<>> /\ screen[p][Len(screen[p])] \in Reports
      BY <1>1
    <2> QED BY <1>1, <1>3, <2>1 DEF Seen, Count, Top
  <1> QED BY <1>2, <1>3 DEF Channel

LEMMA LookIs ==
  ASSUME TypeOK, CopyInv, NEW x \in gate.todo, ReadChannel(x) \/ ReadFails(x)
  PROVE  \E p \in Target, c \in Channel : Sees(p, c) \/ Misses(p, c)
  <1>1. PICK p \in Target, c \in Channel : x = <<p, c>>
    BY DEF TypeOK
  <1>2. x[1] = p /\ x[2] = c /\ p \in Pane
    BY <1>1
  <1>3. Seen(p, c).seq = Count(p, c) /\ (Count(p, c) > 0 => Seen(p, c).report = Top(p, c))
    BY <1>2, SeenIs
  <1>4. Count(p, c) \in Nat /\ mark[p][c] \in Nat
    <2>1. mark \in [Target -> [Channel -> Nat]]
      BY DEF TypeOK
    <2> QED BY <1>2, <2>1, SeenIs
  <1>5. CASE ReadFails(x)
    <2>1. LooksAt(p, c) /\ gate'.fresh = gate.fresh
      BY <1>1, <1>5 DEF ReadFails, Reading, LooksAt, GateOnly, TypeOK
    <2> QED BY <1>1, <1>5, <2>1 DEF ReadFails, Misses
  <1>6. CASE ReadChannel(x)
    <2> DEFINE judge == ~(c = "term" /\ MetadataOnly)
               news == ~gate.base /\ judge /\ Count(p, c) > mark[p][c]
               found == [look |-> x, report |-> Seen(p, c).report]
    <2>1. /\ gate' = [gate EXCEPT !.todo = @ \ {x}, !.fresh = IF news THEN @ \cup {found} ELSE @]
          /\ mark' = IF judge THEN [mark EXCEPT ![p][c] = Count(p, c)] ELSE mark
          /\ gate.at = "look" /\ UNCHANGED <<stream, outcome, judged, unread, blind>> /\ GateOnly
      BY <1>2, <1>3, <1>6 DEF ReadChannel, Reading, IsNews, GateOnly
    <2> HIDE DEF found
    <2>2. /\ gate'.todo = gate.todo \ {x} /\ gate'.at = "look" /\ gate'.base = gate.base
          /\ gate'.gone = gate.gone
          /\ gate'.fresh = IF news THEN gate.fresh \cup {found} ELSE gate.fresh
      BY <2>1 DEF TypeOK
    <2>3. LooksAt(p, c)
      BY <1>1, <2>1, <2>2 DEF LooksAt
    <2>4. news => found = [look |-> <<p, c>>, report |-> Top(p, c)]
      BY <1>1, <1>3, <1>4 DEF found
    <2> QED BY <2>1, <2>2, <2>3, <2>4 DEF Sees
  <1> QED BY <1>5, <1>6

LEMMA GateIs ==
  ASSUME TypeOK, ControlInv, CopyInv, GateStep \/ StreamFails
  PROVE  \/ Left \/ Resolved \/ Opens \/ BaseTaken \/ Waits
         \/ \E g \in Target \cup {NoPane} : Reads(g)
         \/ \E p \in Target, c \in Channel : Sees(p, c) \/ Misses(p, c)
  <1>1. CASE Resolve
    <2>1. CASE Target \cap ended = {}
      BY <1>1, <2>1, ZenonT(60) DEF Resolve, At, Resolved, Stayed, GateOnly, TypeOK, ControlInv
    <2>2. CASE Target \cap ended # {}
      BY <1>1, <2>2, Leaving DEF Resolve, End, Left, GateOnly
    <2> QED BY <2>1, <2>2
  <1>2. CASE Subscribe
    BY <1>2 DEF Subscribe, Looks, Opens, GateOnly, TypeOK
  <1>3. CASE BaselineRead
    BY <1>3 DEF BaselineRead, BaseTaken, Stayed, GateOnly, TypeOK, ControlInv
  <1>4. CASE \E x \in gate.todo : ReadChannel(x) \/ ReadFails(x)
    BY <1>4, LookIs
  <1>5. CASE NextFrame
    <2>1. PICK g \in FirstGone(Head(stream)) :
            gate' = [gate EXCEPT !.at = "look", !.todo = Looks(Hit(Head(stream))), !.gone = g]
      BY <1>5 DEF NextFrame
    <2>2. \/ g = NoPane /\ \A p \in Target : Verdict(Head(stream), p) # "gone"
          \/ g # NoPane /\ g \in Target /\ Verdict(Head(stream), g) = "gone"
      BY DEF FirstGone
    <2>3. /\ gate'.at = "look" /\ gate'.base = gate.base /\ gate'.fresh = gate.fresh
          /\ gate'.todo = Hit(Head(stream)) \X Channel /\ gate'.gone = g
      BY <2>1 DEF TypeOK, Looks
    <2> QED BY <1>5, <2>2, <2>3 DEF NextFrame, Reads, GateOnly
  <1>6. CASE Judge
    <2>1. /\ gate.at = "look" /\ ~gate.base /\ gate.todo = {}
          /\ judged' = judged \cup {f.report.by : f \in gate.fresh}
          /\ GateOnly /\ UNCHANGED <<mark, unread, blind>>
      BY <1>6 DEF Judge, Weigh, GateOnly
    <2>2. CASE \E f \in gate.fresh :
                 /\ First(f, Releasing)
                 /\ IF Verified(f.report) THEN Leave("verify", "verifying", f.look[1], f.report)
                                          ELSE End("released", f.look[1], f.report)
      <3>1. PICK f \in gate.fresh :
              \/ Leave("verify", "verifying", f.look[1], f.report)
              \/ Leave("over", "released", f.look[1], f.report)
        BY <2>2 DEF End
      <3> QED BY <2>1, <3>1, Leaving DEF Left
    <2>3. CASE \E f \in gate.fresh :
                 /\ Releasing = {} /\ First(f, Blocking)
                 /\ End("blocked", f.look[1], f.report)
      <3>1. PICK f \in gate.fresh : Leave("over", "blocked", f.look[1], f.report)
        BY <2>3 DEF End
      <3> QED BY <2>1, <3>1, Leaving DEF Left
    <2>4. CASE /\ Releasing = {} /\ Blocking = {} /\ gate.gone # NoPane
               /\ End("gone", gate.gone, NoReport)
      BY <2>1, <2>4, Leaving DEF End, Left
    <2>5. CASE Releasing = {} /\ Blocking = {} /\ gate.gone = NoPane /\ WaitOn
      BY <2>1, <2>5 DEF WaitOn, Waits, Stayed, TypeOK
    <2> QED BY <1>6, <2>2, <2>3, <2>4, <2>5 DEF Judge
  <1>7. CASE Verify
    <2>1. PICK k \in {"released", "moved", "error"} : Leave("over", k, outcome.about, outcome.report)
      BY <1>7 DEF Verify, End
    <2>2. GateOnly /\ UNCHANGED <<mark, judged, unread, blind>>
      BY <1>7 DEF Verify, GateOnly
    <2> QED BY <2>1, <2>2, Leaving DEF Left
  <1>8. CASE Timeout \/ StreamFails
    <2>1. PICK k \in {"timeout", "error"} : Leave("over", k, NoPane, NoReport)
      BY <1>8 DEF Timeout, StreamFails, End
    <2>2. GateOnly /\ UNCHANGED <<mark, judged, unread, blind>>
      BY <1>8 DEF Timeout, StreamFails, GateOnly
    <2> QED BY <2>1, <2>2, Leaving DEF Left
  <1> QED BY <1>1, <1>2, <1>3, <1>4, <1>5, <1>6, <1>7, <1>8 DEF GateStep

-----------------------------------------------------------------------------
(* What a report does, and herdr and its users *)

ReportOnly == UNCHANGED <<paneVars, events, gateVars>>

\* The fields of a report, and of one that another channel repeats.
LEMMA ReportIs ==
  ASSUME NEW by \in Writer \cup {Earlier}, NEW status \in Statuses, NEW pr \in BOOLEAN,
         NEW sha \in Nat, NEW new \in BOOLEAN, NEW r, r = Report(by, status, pr, sha, new)
  PROVE  r \in Reports /\ r.by = by /\ r.status = status /\ r.pr = pr /\ r.new = new
  BY DEF Report, Reports

LEMMA AgainIs ==
  ASSUME NEW s \in Reports, NEW new \in BOOLEAN, NEW r, r = [s EXCEPT !.new = new]
  PROVE  r \in Reports /\ r.by = s.by /\ r.status = s.status /\ r.pr = s.pr /\ r.new = new
  BY DEF Reports

LEMMA OpenedIs ==
  ASSUME NEW p, NEW c
  PROVE  Opened(p, c) \in BOOLEAN /\ (Opened(p, c) <=> Subscribed /\ ~Pre(p, c))
  BY DEF Opened, Pre, Subscribed

\* What a writer shows on a channel is its report, new once the baseline was read.
Said(w, c, r) ==
  /\ r \in Reports /\ r.by = w /\ (r.new <=> Subscribed /\ ~Pre(Of[w], c))
  /\ r.status = writer'[w].report.status /\ r.pr = writer'[w].report.pr

Shows(w) ==
  /\ \E r \in Reports : Said(w, "term", r) /\ screen' = Printed(Of[w], r)
  /\ spoiled' = spoiled \cup Covered(w, Of[w]) /\ UNCHANGED <<tokens, stream>>

Attaches(w) ==
  LET p == Of[w]
      taken == {writer[v].seq : v \in {u \in Writer \ {w} : Of[u] = p}}
                 \cup (IF p \in Answered THEN {1} ELSE {})
  IN  /\ writer[w].at = "deliver" /\ writer'[w].at \in Past /\ writer'[w].seq = writer[w].seq
      /\ \E r \in Reports : /\ Said(w, "meta", r)
                            /\ tokens' = [tokens EXCEPT ![p] = [seq |-> writer[w].seq, report |-> r]]
      /\ spoiled \subseteq spoiled' /\ spoiled' \subseteq (Writer \cup {Earlier}) \X Channel
      /\ (\E n \in taken : n >= writer[w].seq) => <<w, "meta">> \in spoiled'
      /\ p \in ended /\ tokens[p].report # NoReport => <<tokens[p].report.by, "meta">> \in spoiled'
      /\ Emit(Frame("updated", p, WsOf[p])) /\ UNCHANGED screen

\* The record of the writer w, and no other, moves on.
Moves(w) ==
  /\ writer' \in [Writer -> [at : {"idle", "number", "deliver", "confirm", "delivered", "failed", "told"},
                             report : Reports \cup {NoReport}, seq : Nat]]
  /\ \A v \in Writer \ {w} : writer'[v] = writer[v]
  /\ writer'[w].at # "idle" /\ writer'[w].report \in Reports /\ writer'[w].report.by = w
  /\ writer[w].at # "idle" => writer'[w].report = writer[w].report
  /\ writer[w].at \in Past => writer'[w].at \in Past /\ writer'[w].seq = writer[w].seq
  /\ writer'[w].at = "deliver" => writer'[w].seq > 0

LEMMA MovesOn ==
  ASSUME TypeOK, CopyInv, NEW w \in Writer, writer[w].at # "idle", NEW label, NEW n \in Nat,
         label \in {"number", "deliver", "confirm", "delivered", "failed", "told"},
         writer' = [writer EXCEPT ![w].at = label, ![w].seq = n],
         writer[w].at \in Past => label \in Past /\ n = writer[w].seq, label = "deliver" => n > 0
  PROVE  Moves(w) /\ writer'[w].at = label /\ writer'[w].seq = n
  <1>1. /\ writer[w].report \in Reports /\ writer[w].report.by = w
        /\ writer \in [Writer -> [at : {"idle", "number", "deliver", "confirm", "delivered", "failed", "told"},
                             report : Reports \cup {NoReport}, seq : Nat]]
    BY DEF CopyInv, TypeOK
  <1>2. writer'[w] = [writer[w] EXCEPT !.at = label, !.seq = n]
    BY <1>1
  <1>3. writer'[w].at = label /\ writer'[w].report = writer[w].report /\ writer'[w].seq = n
    BY <1>1, <1>2
  <1>4. writer'[w] \in [at : {"idle", "number", "deliver", "confirm", "delivered", "failed", "told"},
                             report : Reports \cup {NoReport}, seq : Nat]
    BY <1>1, <1>2, ZenonT(60)
  <1> QED BY <1>1, <1>3, <1>4 DEF Moves, Past

LEMMA MovesTo ==
  ASSUME TypeOK, CopyInv, NEW w \in Writer, writer[w].at # "idle", NEW label, Writing(w, label),
         label \in Past
  PROVE  Moves(w) /\ writer'[w].at = label /\ writer'[w].seq = writer[w].seq
  <1>1. writer \in [Writer -> [at : {"idle", "number", "deliver", "confirm", "delivered", "failed", "told"},
                             report : Reports \cup {NoReport}, seq : Nat]]
    BY DEF TypeOK
  <1>2. writer' = [writer EXCEPT ![w].at = label, ![w].seq = writer[w].seq]
    BY <1>1 DEF Writing
  <1>3. writer[w].seq \in Nat
    BY <1>1
  <1> QED BY <1>2, <1>3, MovesOn DEF Past

LEMMA ReportStepIs ==
  ASSUME TypeOK, CopyInv, NEW w \in Writer, ReportStep(w)
  PROVE  /\ ReportOnly /\ Moves(w)
         /\ Shows(w) \/ Attaches(w) \/ UNCHANGED <<tokens, screen, spoiled, stream>>
  <1>1. /\ Of[w] \in Pane
        /\ writer \in [Writer -> [at : {"idle", "number", "deliver", "confirm", "delivered", "failed", "told"},
                             report : Reports \cup {NoReport}, seq : Nat]]
    BY TargetAssumption DEF TypeOK
  <1>2. CASE PrintEnvelope(w)
    <2> DEFINE Words(s, r) == Report(w, s, r, version[Of[w]], Opened(Of[w], "term"))
               Prints(said) ==
                 /\ writer' = [writer EXCEPT ![w].at = "number", ![w].report = said]
                 /\ \/ UNCHANGED <<screen, spoiled>>
                    \/ screen' = Printed(Of[w], said) /\ spoiled' = spoiled \cup Covered(w, Of[w])
    <2>0. PICK status \in Says, pr \in BOOLEAN : Prints(Words(status, pr))
      BY <1>2 DEF PrintEnvelope
    <2>1. PICK said : said = Words(status, pr) /\ Prints(said)
      BY <2>0
    <2>2. /\ said \in Reports /\ said.by = w /\ said.new = Opened(Of[w], "term")
      <3>1. status \in Statuses /\ version[Of[w]] \in Nat /\ Opened(Of[w], "term") \in BOOLEAN
        BY <1>1, OpenedIs, OptionAssumption DEF TypeOK
      <3> QED BY <2>1, <3>1, ReportIs
    <2>3. writer[w].at = "idle" /\ ReportOnly /\ UNCHANGED <<tokens, stream>>
      BY <1>2 DEF PrintEnvelope, ReportOnly
    <2>4. writer'[w] = [writer[w] EXCEPT !.at = "number", !.report = said]
      BY <1>1, <2>1
    <2>5. writer'[w].at = "number" /\ writer'[w].report = said
      BY <1>1, <2>4
    <2>6. writer'[w] \in [at : {"idle", "number", "deliver", "confirm", "delivered", "failed", "told"},
                          report : Reports \cup {NoReport}, seq : Nat]
      <3>1. writer[w].seq \in Nat /\ said \in Reports \cup {NoReport}
        BY <1>1, <2>2
      <3>2. writer'[w] = [at |-> "number", report |-> said, seq |-> writer[w].seq]
        BY <1>1, <2>4, ZenonT(60)
      <3> QED BY <3>1, <3>2
    <2>7. Moves(w)
      BY <1>1, <2>1, <2>2, <2>3, <2>5, <2>6 DEF Moves, Past
    <2>8. Said(w, "term", said)
      BY <2>2, <2>5, OpenedIs DEF Said
    <2> QED BY <2>1, <2>2, <2>3, <2>7, <2>8 DEF Shows
  <1>3. CASE TakeNumber(w)
    <2>1. tokens[Of[w]].seq + 1 \in Nat /\ tokens[Of[w]].seq + 1 > 0
      BY <1>1, SMTT(30) DEF TypeOK
    <2>2. Moves(w)
      BY <1>3, <2>1, MovesOn DEF TakeNumber, Past
    <2> QED BY <1>3, <2>2 DEF TakeNumber, ReportOnly
  <1>4. CASE Deliver(w)
    <2> DEFINE said == [writer[w].report EXCEPT !.new = Opened(Of[w], "meta")]
    <2>1. writer[w].at = "deliver" /\ Writing(w, "confirm") /\ ReportOnly
      BY <1>4 DEF Deliver, ReportOnly
    <2>2. Moves(w) /\ writer'[w].at \in Past /\ writer'[w].seq = writer[w].seq
      BY <2>1, MovesTo DEF Past
    <2>3. writer[w].report \in Reports /\ writer[w].report.by = w /\ writer'[w].report = writer[w].report
      BY <2>1, <2>2 DEF CopyInv, Moves
    <2>4. /\ said \in Reports /\ said.by = w /\ said.new = Opened(Of[w], "meta")
          /\ said.status = writer[w].report.status /\ said.pr = writer[w].report.pr
      BY <2>3, AgainIs, OpenedIs
    <2>5. Said(w, "meta", said)
      BY <2>3, <2>4, OpenedIs DEF Said
    <2>6. /\ tokens' = [tokens EXCEPT ![Of[w]] = [seq |-> writer[w].seq, report |-> said]]
          /\ Emit(Frame("updated", Of[w], WsOf[Of[w]])) /\ UNCHANGED screen
      BY <1>4 DEF Deliver
    <2> HIDE DEF said
    <2>7. spoiled' \subseteq (Writer \cup {Earlier}) \X Channel
      <3>1. tokens[Of[w]].report # NoReport => tokens[Of[w]].report.by \in Writer \cup {Earlier}
        BY <1>1 DEF TypeOK, Reports
      <3> QED BY <1>4, <3>1, SMTT(30) DEF Deliver, TypeOK, Channel
    <2>8. Attaches(w)
      BY <1>4, <2>1, <2>2, <2>4, <2>5, <2>6, <2>7 DEF Deliver, Attaches
    <2> QED BY <2>1, <2>2, <2>8
  <1>5. CASE Confirm(w)
    <2>1. PICK label \in {"delivered", "failed"} : Writing(w, label)
      BY <1>5 DEF Confirm
    <2>2. Moves(w)
      BY <1>5, <2>1, MovesTo DEF Confirm, Past
    <2> QED BY <1>5, <2>2 DEF Confirm, ReportOnly
  <1>6. CASE ReportFails(w)
    <2>1. Moves(w)
      BY <1>6, MovesTo DEF ReportFails, Past
    <2> QED BY <1>6, <2>1 DEF ReportFails, ReportOnly
  <1>7. CASE Reply(w)
    <2> DEFINE said == [writer[w].report EXCEPT !.new = Opened(Of[w], "term")]
    <2>1. Moves(w)
      BY <1>7, MovesTo DEF Reply, Past
    <2>2. writer[w].report \in Reports /\ writer[w].report.by = w /\ writer'[w].report = writer[w].report
      BY <1>7, <2>1 DEF CopyInv, Moves, Reply
    <2>3. /\ said \in Reports /\ said.by = w /\ said.new = Opened(Of[w], "term")
          /\ said.status = writer[w].report.status /\ said.pr = writer[w].report.pr
      BY <2>2, AgainIs, OpenedIs
    <2>4. Said(w, "term", said)
      BY <2>2, <2>3, OpenedIs DEF Said
    <2>5. /\ screen' = Printed(Of[w], said) /\ spoiled' = spoiled \cup Covered(w, Of[w])
          /\ UNCHANGED <<tokens, stream>> /\ ReportOnly
      BY <1>7 DEF Reply, ReportOnly
    <2> HIDE DEF said
    <2> QED BY <2>1, <2>3, <2>4, <2>5 DEF Shows
  <1> QED BY <1>2, <1>3, <1>4, <1>5, <1>6, <1>7 DEF ReportStep

\* herdr and its users leave the gate and the invocations of report alone.
Others == UNCHANGED <<gateVars, writer>>

Ends(S) ==
  /\ S \subseteq Pane /\ ended' = ended \cup S
  /\ lastWords' = [p \in Pane |-> IF p \in S \ ended THEN Shown(p) ELSE lastWords[p]]
  /\ UNCHANGED <<tokens, screen, spoiled>>
  /\ \E f \in Frames :
       /\ Emit(f) /\ \A p \in S : Verdict(f, p) = "gone"
       /\ \A p \in Pane : Verdict(f, p) = "gone" => p \in S
       /\ \A p \in Pane : Verdict(f, p) # "check"
  /\ early' = IF Subscribed \/ closedWs' # closedWs THEN early ELSE early \cup S
  /\ \/ UNCHANGED closedWs
     \/ \E ws \in {WsOf[p] : p \in Pane} : /\ S = {p \in Pane : WsOf[p] = ws}
                                           /\ closedWs' = closedWs \cup {ws} /\ ws \notin closedWs

Scrolls == \E p \in Pane :
  /\ screen[p] # <<>> /\ screen' = [screen EXCEPT ![p] = Tail(@)]
  /\ spoiled' = spoiled \cup {<<screen[p][i].by, "term">> : i \in DOMAIN screen[p]}
  /\ UNCHANGED <<tokens, stream, closedWs, ended, early, lastWords>>

Clearing == \E p \in Pane :
  /\ tokens[p].seq # 0 /\ tokens' = [tokens EXCEPT ![p] = [seq |-> 0, report |-> NoReport]]
  /\ spoiled' = spoiled \cup {<<tokens[p].report.by, "meta">>}
  /\ Emit(Frame("updated", p, WsOf[p]))
  /\ UNCHANGED <<screen, closedWs, ended, early, lastWords>>

Stirs ==
  /\ \/ UNCHANGED stream
     \/ \E p \in Pane : Emit(Frame("status", p, WsOf[p]))
  /\ UNCHANGED <<tokens, screen, spoiled, closedWs, ended, early, lastWords>>

LEMMA WorldIs ==
  ASSUME TypeOK, NEW p \in Pane,
         Scroll(p) \/ TurnEnds(p) \/ Pushes(p) \/ Clears(p) \/ WorkerEnds(p) \/ WorkspaceCloses(WsOf[p])
  PROVE  Others /\ (Scrolls \/ Clearing \/ Stirs \/ \E S \in SUBSET Pane : Ends(S))
  <1>1. CASE Scroll(p)
    BY <1>1 DEF Scroll, World, Others, Scrolls, paneVars
  <1>2. CASE TurnEnds(p)
    BY <1>2 DEF TurnEnds, World, Others, Stirs, paneVars, reportVars
  <1>3. CASE Pushes(p)
    BY <1>3 DEF Pushes, World, Others, Stirs, reportVars
  <1>4. CASE Clears(p)
    BY <1>4 DEF Clears, World, Others, Clearing, paneVars
  <1>5. CASE WorkerEnds(p)
    <2>1. PICK event \in {"exited", "unknown"} : Emit(Frame(event, p, WsOf[p]))
      BY <1>5 DEF WorkerEnds
    <2>2. /\ Frame(event, p, WsOf[p]) \in Frames
          /\ Verdict(Frame(event, p, WsOf[p]), p) = "gone"
          /\ \A q \in Pane \ {p} : Verdict(Frame(event, p, WsOf[p]), q) = "ignore"
      BY DEF Frame, Frames, Verdict
    <2> QED BY <1>5, <2>1, <2>2 DEF WorkerEnds, Ending, World, Others, Ends, reportVars
  <1>6. CASE WorkspaceCloses(WsOf[p])
    <2> DEFINE f == Frame("workspaceClosed", NoPane, WsOf[p])
               S == {q \in Pane : WsOf[q] = WsOf[p]}
    <2>1. f \in Frames /\ \A q \in Pane : Verdict(f, q) = IF q \in S THEN "gone" ELSE "ignore"
      BY DEF Frame, Frames, Verdict
    <2> HIDE DEF f
    <2>2. Emit(f) /\ WsOf[p] \notin closedWs /\ closedWs' = closedWs \cup {WsOf[p]} /\ Ending(S)
          /\ UNCHANGED early /\ UNCHANGED reportVars /\ World
      BY <1>6 DEF WorkspaceCloses, f
    <2> QED BY <2>1, <2>2 DEF Ending, World, Others, Ends, reportVars
  <1> QED BY <1>1, <1>2, <1>3, <1>4, <1>5, <1>6

-----------------------------------------------------------------------------
(* Types *)

LEMMA GateTyped ==
  ASSUME TypeOK, GateStep \/ StreamFails
  PROVE  /\ gate' = [at |-> gate'.at, todo |-> gate'.todo, base |-> gate'.base,
                     fresh |-> gate'.fresh, gone |-> gate'.gone]
         /\ outcome' \in [kind : {"none", "verifying", "released", "blocked", "gone", "moved",
                                  "timeout", "error"},
                          about : Target \cup {NoPane}, report : Reports \cup {NoReport}]
  <1> DEFINE Whole == /\ gate' = [at |-> gate'.at, todo |-> gate'.todo, base |-> gate'.base,
                                  fresh |-> gate'.fresh, gone |-> gate'.gone]
                      /\ outcome' \in [kind : {"none", "verifying", "released", "blocked", "gone",
                                               "moved", "timeout", "error"},
                                       about : Target \cup {NoPane}, report : Reports \cup {NoReport}]
  <1>1. ASSUME NEW label, NEW kind \in {"verifying", "released", "blocked", "gone", "moved", "timeout", "error"},
               NEW p \in Target \cup {NoPane}, NEW r \in Reports \cup {NoReport},
               Leave(label, kind, p, r)
        PROVE  Whole
    BY <1>1 DEF Leave, TypeOK
  <1>2. \A f \in gate.fresh : f.look[1] \in Target /\ f.report \in Reports
    BY DEF TypeOK
  <1>3. CASE Resolve \/ Subscribe \/ BaselineRead
    <2>1. CASE UNCHANGED outcome
      BY <1>3, <2>1 DEF Resolve, Subscribe, BaselineRead, At, End, Leave, TypeOK
    <2>2. CASE End("error", NoPane, NoReport)
      BY <2>2, <1>1 DEF End
    <2> QED BY <1>3, <2>1, <2>2 DEF Resolve, Subscribe, BaselineRead
  <1>4. CASE NextFrame \/ \E x \in gate.todo : ReadChannel(x) \/ ReadFails(x)
    BY <1>4 DEF NextFrame, ReadChannel, ReadFails, TypeOK
  <1>5. CASE Judge
    BY <1>1, <1>2, <1>5 DEF Judge, End, WaitOn, TypeOK
  <1>6. CASE Verify
    <2>1. outcome.about \in Target \cup {NoPane} /\ outcome.report \in Reports \cup {NoReport}
      BY DEF TypeOK
    <2> QED BY <1>1, <1>6, <2>1 DEF Verify, End
  <1>7. CASE Timeout \/ StreamFails
    BY <1>1, <1>7 DEF Timeout, StreamFails, End
  <1> QED BY <1>3, <1>4, <1>5, <1>6, <1>7 DEF GateStep

LEMMA GateTypes ==
  ASSUME TypeOK, ControlInv, CopyInv, GateStep \/ StreamFails
  PROVE  TypeOK'
  <1>1. /\ gate' = [at |-> gate'.at, todo |-> gate'.todo, base |-> gate'.base,
                    fresh |-> gate'.fresh, gone |-> gate'.gone]
        /\ outcome' \in [kind : {"none", "verifying", "released", "blocked", "gone", "moved",
                                  "timeout", "error"},
                          about : Target \cup {NoPane}, report : Reports \cup {NoReport}]
    BY GateTyped
  <1> DEFINE Fine ==
        /\ gate'.at \in {"resolve", "subscribe", "look", "next", "verify", "over"}
        /\ gate'.todo \subseteq Target \X Channel /\ gate'.base \in BOOLEAN
        /\ gate'.fresh \subseteq [look : Target \X Channel, report : Reports]
        /\ gate'.gone \in Target \cup {NoPane}
        /\ stream' \in Seq(Frames) /\ mark' \in [Target -> [Channel -> Nat]]
        /\ judged' \subseteq Writer \cup {Earlier}
        /\ unread' \subseteq Target \X Channel /\ blind' \subseteq unread'
        /\ GateOnly
  <1>2. /\ gate.todo \subseteq Target \X Channel /\ gate.base \in BOOLEAN
        /\ gate.fresh \subseteq [look : Target \X Channel, report : Reports]
        /\ gate.gone \in Target \cup {NoPane}
        /\ stream \in Seq(Frames) /\ mark \in [Target -> [Channel -> Nat]]
        /\ judged \subseteq Writer \cup {Earlier}
        /\ unread \subseteq Target \X Channel /\ blind \subseteq unread
    BY DEF TypeOK
  <1>3. {f.report.by : f \in gate.fresh} \subseteq Writer \cup {Earlier}
    BY <1>2 DEF Reports
  <1>4. ASSUME Left PROVE Fine
    BY <1>2, <1>3, <1>4 DEF Left
  <1>5. ASSUME Resolved \/ BaseTaken \/ Waits PROVE Fine
    <2>1. Stayed /\ UNCHANGED stream
      BY <1>5 DEF Resolved, BaseTaken, Waits
    <2>2. gate'.at \in {"subscribe", "next"} /\ gate'.base \in BOOLEAN
      <3>1. CASE Resolved
        BY <1>2, <3>1 DEF Resolved
      <3>2. CASE BaseTaken \/ Waits
        BY <1>2, <3>2 DEF BaseTaken, Waits
      <3> QED BY <1>5, <3>1, <3>2
    <2>3. judged' \subseteq Writer \cup {Earlier}
      BY <1>2, <1>3, <1>5 DEF Resolved, BaseTaken, Waits
    <2> QED BY <1>2, <2>1, <2>2, <2>3 DEF Stayed
  <1>6. ASSUME Opens PROVE Fine
    BY <1>2, <1>6, Replayed DEF Opens
  <1>7. ASSUME NEW g \in Target \cup {NoPane}, Reads(g) PROVE Fine
    BY <1>2, <1>7, Taken DEF Reads, Hit
  <1>8. ASSUME NEW p \in Target, NEW c \in Channel, Misses(p, c) PROVE Fine
    BY <1>2, <1>8 DEF Misses, LooksAt
  <1>9. ASSUME NEW p \in Target, NEW c \in Channel, Sees(p, c) PROVE Fine
    <2>1. Count(p, c) \in Nat /\ (Count(p, c) > 0 => Top(p, c) \in Reports)
      BY SeenIs
    <2>2. mark[p][c] \in Nat
      BY <1>2
    <2>3. mark' \in [Target -> [Channel -> Nat]]
      <3>1. mark' = mark \/ mark' = [mark EXCEPT ![p][c] = Count(p, c)]
        BY <1>9 DEF Sees
      <3>2. [mark[p] EXCEPT ![c] = Count(p, c)] \in [Channel -> Nat]
        BY <1>2, <2>1
      <3>3. [mark EXCEPT ![p][c] = Count(p, c)] \in [Target -> [Channel -> Nat]]
        BY <1>2, <3>2
      <3> QED BY <1>2, <3>1, <3>3
    <2>4. gate'.fresh \subseteq [look : Target \X Channel, report : Reports]
      <3>1. CASE gate'.fresh = gate.fresh
        BY <1>2, <3>1
      <3>2. CASE gate'.fresh # gate.fresh
        <4>1. /\ Count(p, c) > mark[p][c]
              /\ gate'.fresh = gate.fresh \cup {[look |-> <<p, c>>, report |-> Top(p, c)]}
          BY <1>9, <3>2 DEF Sees
        <4>2. Top(p, c) \in Reports
          BY <2>1, <2>2, <4>1
        <4> QED BY <1>2, <4>1, <4>2
      <3> QED BY <3>1, <3>2
    <2> QED BY <1>2, <1>9, <2>3, <2>4 DEF Sees, LooksAt
  <1>10. Fine
    BY GateIs, <1>4, <1>5, <1>6, <1>7, <1>8, <1>9
  <1>11. gate' \in [at : {"resolve", "subscribe", "look", "next", "verify", "over"},
               todo : SUBSET (Target \X Channel), base : BOOLEAN,
               fresh : SUBSET [look : Target \X Channel, report : Reports],
               gone : Target \cup {NoPane}]
    BY <1>1, <1>10
  <1> HIDE DEF Fine
  <1>12. GateOnly /\ Fine
    BY <1>10 DEF Fine
  <1> QED BY <1>1, <1>11, <1>12 DEF TypeOK, Fine, GateOnly, paneVars, reportVars

\* What a print covers is the newest envelope.
LEMMA CoveredIs ==
  ASSUME TypeOK, CopyInv, NEW w \in Writer, NEW p \in Pane
  PROVE  /\ Covered(w, p) \subseteq (Writer \cup {Earlier}) \X Channel
         /\ screen[p] # <<>> =>
              LET last == screen[p][Len(screen[p])]
              IN  p \in ended /\ last.by # w => <<last.by, "term">> \in Covered(w, p)
  <1>1. screen[p] \in Seq(Reports)
    BY DEF TypeOK
  <1>2. screen[p] # <<>> => screen[p][Len(screen[p])] \in Reports
    BY <1>1
  <1>3. Seen(p, "term").report = IF screen[p] = <<>> THEN NoReport ELSE screen[p][Len(screen[p])]
    BY DEF Seen
  <1> QED BY <1>2, <1>3 DEF Covered, Channel, Reports

LEMMA ReportTypes ==
  ASSUME TypeOK, CopyInv, NEW w \in Writer, ReportStep(w)
  PROVE  TypeOK'
  <1>1. ReportOnly /\ Moves(w) /\ Of[w] \in Pane
    BY ReportStepIs, TargetAssumption
  <1>2. /\ tokens' \in [Pane -> [seq : Nat, report : Reports \cup {NoReport}]]
        /\ screen' \in [Pane -> Seq(Reports)] /\ stream' \in Seq(Frames)
        /\ spoiled' \subseteq (Writer \cup {Earlier}) \X Channel
    <2>1. CASE UNCHANGED <<tokens, screen, spoiled, stream>>
      BY <2>1 DEF TypeOK
    <2>2. CASE Shows(w)
      BY <1>1, <2>2, CoveredIs, PrintedIs DEF Shows, TypeOK
    <2>3. CASE Attaches(w)
      <3>1. Frame("updated", Of[w], WsOf[Of[w]]) \in Frames
        BY <1>1 DEF Frame, Frames
      <3>2. stream' \in Seq(Frames) /\ UNCHANGED screen
        BY <2>3, <3>1, Emitted DEF Attaches
      <3>3. writer[w].seq \in Nat
        BY DEF TypeOK
      <3>4. tokens' \in [Pane -> [seq : Nat, report : Reports \cup {NoReport}]]
        BY <1>1, <2>3, <3>3 DEF Attaches, TypeOK
      <3> QED BY <2>3, <3>2, <3>4 DEF Attaches, TypeOK
    <2> QED BY <2>1, <2>2, <2>3, ReportStepIs
  <1> QED BY <1>1, <1>2, ZenonT(60) DEF TypeOK, ReportOnly, Moves, paneVars, gateVars

LEMMA ShownIs ==
  ASSUME TypeOK, NEW p \in Pane
  PROVE  /\ Shown(p) \subseteq Channel \X (Reports \cup {NoReport})
         /\ \A said \in Shown(p) :
              \/ said = <<"meta", tokens[p].report>>
              \/ /\ said = <<"term", screen[p][Len(screen[p])]>> /\ screen[p] # <<>>
                 /\ p \in Target /\ ~MetadataOnly /\ Len(screen[p]) > mark[p]["term"]
                 /\ screen[p][Len(screen[p])] \in Reports /\ Len(screen[p]) \in DOMAIN screen[p]
  <1>1. screen[p] \in Seq(Reports) /\ tokens[p].report \in Reports \cup {NoReport}
    BY DEF TypeOK
  <1>2. CASE p \in Target /\ ~MetadataOnly /\ Len(screen[p]) > mark[p]["term"]
    <2>1. mark[p]["term"] \in Nat /\ Len(screen[p]) \in Nat
      BY <1>1, <1>2 DEF TypeOK, Channel
    <2>2. screen[p] # <<>> /\ screen[p][Len(screen[p])] \in Reports /\ Len(screen[p]) \in DOMAIN screen[p]
      BY <1>1, <1>2, <2>1
    <2>3. Seen(p, "term").report = screen[p][Len(screen[p])]
      BY <2>2 DEF Seen
    <2> QED BY <1>1, <1>2, <2>2, <2>3 DEF Shown, Channel
  <1>3. CASE ~(p \in Target /\ ~MetadataOnly /\ Len(screen[p]) > mark[p]["term"])
    <2>1. Shown(p) = {<<"meta", tokens[p].report>>}
      BY <1>3 DEF Shown
    <2> QED BY <1>1, <2>1 DEF Channel
  <1> QED BY <1>2, <1>3

LEMMA WorldTypes ==
  ASSUME TypeOK, CopyInv, NEW p \in Pane,
         Scroll(p) \/ TurnEnds(p) \/ Pushes(p) \/ Clears(p) \/ WorkerEnds(p) \/ WorkspaceCloses(WsOf[p])
  PROVE  TypeOK'
  <1>1. /\ pane' \in [Pane -> {"open", "exited", "closed"}] /\ version' \in [Pane -> Nat]
        /\ events' \in 0..MaxEvents
    <2>1. events' = events + 1 /\ events < MaxEvents
      BY DEF Scroll, TurnEnds, Pushes, Clears, WorkerEnds, WorkspaceCloses, World
    <2>2. events' \in 0..MaxEvents
      BY <2>1, OptionAssumption DEF TypeOK
    <2>3. version' \in [Pane -> Nat]
      <3>1. version \in [Pane -> Nat]
        BY DEF TypeOK
      <3>2. CASE Pushes(p)
        BY <3>1, <3>2 DEF Pushes
      <3>3. CASE Scroll(p) \/ TurnEnds(p) \/ Clears(p) \/ WorkerEnds(p) \/ WorkspaceCloses(WsOf[p])
        BY <3>1, <3>3 DEF Scroll, TurnEnds, Clears, WorkerEnds, WorkspaceCloses, paneVars
      <3> QED BY <3>2, <3>3
    <2>4. pane' \in [Pane -> {"open", "exited", "closed"}]
      <3>1. pane \in [Pane -> {"open", "exited", "closed"}]
        BY DEF TypeOK
      <3>2. CASE Scroll(p) \/ TurnEnds(p) \/ Pushes(p) \/ Clears(p)
        BY <3>1, <3>2 DEF Scroll, TurnEnds, Pushes, Clears, paneVars
      <3>3. CASE WorkerEnds(p)
        BY <3>1, <3>3 DEF WorkerEnds
      <3>4. CASE WorkspaceCloses(WsOf[p])
        BY <3>1, <3>4 DEF WorkspaceCloses
      <3> QED BY <3>2, <3>3, <3>4
    <2> QED BY <2>2, <2>3, <2>4
  <1>2. Others /\ (Scrolls \/ Clearing \/ Stirs \/ \E S \in SUBSET Pane : Ends(S))
    BY WorldIs
  <1> DEFINE Fine == /\ tokens' \in [Pane -> [seq : Nat, report : Reports \cup {NoReport}]]
                     /\ screen' \in [Pane -> Seq(Reports)] /\ stream' \in Seq(Frames)
                     /\ closedWs' \subseteq {WsOf[q] : q \in Pane}
                     /\ ended' \subseteq Pane /\ early' \subseteq ended'
                     /\ lastWords' \in [Pane -> SUBSET (Channel \X (Reports \cup {NoReport}))]
                     /\ spoiled' \subseteq (Writer \cup {Earlier}) \X Channel
  <1>3. \A q \in Pane : Frame("updated", q, WsOf[q]) \in Frames /\ Frame("status", q, WsOf[q]) \in Frames
    BY DEF Frame, Frames
  <1>4. ASSUME Scrolls PROVE Fine
    <2>1. PICK q \in Pane :
            /\ screen[q] # <<>> /\ screen' = [screen EXCEPT ![q] = Tail(@)]
            /\ spoiled' = spoiled \cup {<<screen[q][i].by, "term">> : i \in DOMAIN screen[q]}
      BY <1>4 DEF Scrolls
    <2>2. screen[q] \in Seq(Reports)
      BY DEF TypeOK
    <2>3. \A i \in DOMAIN screen[q] : screen[q][i].by \in Writer \cup {Earlier}
      <3>1. \A i \in DOMAIN screen[q] : screen[q][i] \in Reports
        BY <2>2
      <3> QED BY <3>1 DEF Reports
    <2>4. screen' \in [Pane -> Seq(Reports)]
      BY <2>1, ScrolledIs
    <2>5. spoiled' \subseteq (Writer \cup {Earlier}) \X Channel
      <3>1. {<<screen[q][i].by, "term">> : i \in DOMAIN screen[q]}
              \subseteq (Writer \cup {Earlier}) \X Channel
        BY <2>3 DEF Channel
      <3> QED BY <2>1, <3>1 DEF TypeOK
    <2>6. UNCHANGED <<tokens, stream, closedWs, ended, early, lastWords>>
      BY <1>4 DEF Scrolls
    <2> QED BY <2>4, <2>5, <2>6 DEF TypeOK
  <1>5. ASSUME Clearing PROVE Fine
    <2>1. PICK q \in Pane :
            /\ tokens[q].seq # 0 /\ tokens' = [tokens EXCEPT ![q] = [seq |-> 0, report |-> NoReport]]
            /\ spoiled' = spoiled \cup {<<tokens[q].report.by, "meta">>}
            /\ Emit(Frame("updated", q, WsOf[q]))
      BY <1>5 DEF Clearing
    <2>2. tokens[q].report.by \in Writer \cup {Earlier}
      BY <2>1 DEF CopyInv, TypeOK, Reports
    <2>3. stream' \in Seq(Frames)
      BY <1>3, <2>1, Emitted
    <2>4. spoiled' \subseteq (Writer \cup {Earlier}) \X Channel
      BY <2>1, <2>2, SMTT(30) DEF TypeOK, Channel
    <2>5. UNCHANGED <<screen, closedWs, ended, early, lastWords>>
      BY <1>5 DEF Clearing
    <2>6. tokens' \in [Pane -> [seq : Nat, report : Reports \cup {NoReport}]]
      BY <2>1 DEF TypeOK
    <2> QED BY <2>3, <2>4, <2>5, <2>6 DEF TypeOK
  <1>6. ASSUME Stirs PROVE Fine
    <2>1. stream' \in Seq(Frames)
      BY <1>3, <1>6, Emitted DEF Stirs, TypeOK
    <2> QED BY <1>6, <2>1 DEF Stirs, TypeOK
  <1>7. ASSUME NEW S \in SUBSET Pane, Ends(S) PROVE Fine
    <2>1. stream' \in Seq(Frames)
      BY <1>7, Emitted DEF Ends
    <2>2. lastWords' \in [Pane -> SUBSET (Channel \X (Reports \cup {NoReport}))]
      BY <1>7, ShownIs DEF Ends, TypeOK
    <2> QED BY <1>7, <2>1, <2>2 DEF Ends, TypeOK
  <1>8. Fine
    BY <1>2, <1>4, <1>5, <1>6, <1>7
  <1> HIDE DEF Fine
  <1> QED BY <1>1, <1>2, <1>8, ZenonT(60) DEF Fine, TypeOK, Others, gateVars

LEMMA TypeStep ==
  ASSUME TypeOK, ControlInv, CopyInv, [Next]_vars PROVE TypeOK'
  <1>1. CASE UNCHANGED vars
    BY <1>1, SMTT(30) DEF TypeOK, vars, paneVars, reportVars, gateVars
  <1> QED BY <1>1, GateTypes, ReportTypes, WorldTypes DEF Next, Environment

-----------------------------------------------------------------------------
(* Control, and what is copied from one place to another *)

GateKinds ==
  \/ Left \/ Resolved \/ Opens \/ BaseTaken \/ Waits
  \/ \E g \in Target \cup {NoPane} : Reads(g)
  \/ \E p \in Target, c \in Channel : Sees(p, c) \/ Misses(p, c)

WorldKinds == Others /\ (Scrolls \/ Clearing \/ Stirs \/ \E S \in SUBSET Pane : Ends(S))

\* A step of the system is one of the gate, of one report, or of herdr and its users.
LEMMA StepIs ==
  ASSUME TypeOK, ControlInv, CopyInv, [Next]_vars
  PROVE  \/ GateKinds
         \/ \E w \in Writer : /\ ReportOnly /\ Moves(w)
                              /\ Shows(w) \/ Attaches(w) \/ UNCHANGED <<tokens, screen, spoiled, stream>>
         \/ WorldKinds
  <1>1. CASE GateStep \/ StreamFails
    BY <1>1, GateIs DEF GateKinds
  <1>2. ASSUME NEW w \in Writer, ReportStep(w)
        PROVE  /\ ReportOnly /\ Moves(w)
               /\ Shows(w) \/ Attaches(w) \/ UNCHANGED <<tokens, screen, spoiled, stream>>
    BY <1>2, ReportStepIs
  <1>3. ASSUME NEW p \in Pane,
               \/ Scroll(p) \/ TurnEnds(p) \/ Pushes(p) \/ Clears(p) \/ WorkerEnds(p)
               \/ WorkspaceCloses(WsOf[p])
        PROVE  WorldKinds
    BY <1>3, WorldIs DEF WorldKinds
  <1>4. CASE UNCHANGED vars
    BY <1>4 DEF vars, paneVars, reportVars, gateVars, WorldKinds, Others, Stirs
  <1> QED BY <1>1, <1>2, <1>3, <1>4 DEF Next, Environment

LEMMA GateKept ==
  ASSUME GateKinds
  PROVE  UNCHANGED <<tokens, screen, writer, spoiled, closedWs, ended, early, lastWords>>
  <1>1. GateOnly
    BY DEF GateKinds, Left, Resolved, Opens, BaseTaken, Waits, Stayed, Reads, Sees, Misses, LooksAt
  <1> QED BY <1>1 DEF GateOnly, paneVars, reportVars

LEMMA ReportKept ==
  ASSUME ReportOnly
  PROVE  UNCHANGED <<closedWs, ended, early, lastWords, gate, mark, outcome, judged, unread, blind>>
  BY DEF ReportOnly, paneVars, gateVars

LEMMA WorldKept ==
  ASSUME WorldKinds
  PROVE  UNCHANGED <<writer, gate, mark, outcome, judged, unread, blind>>
  BY DEF WorldKinds, Others, gateVars

LEMMA ControlStep ==
  ASSUME TypeOK, ControlInv, CopyInv, [Next]_vars PROVE ControlInv'
  <1>1. CASE UNCHANGED <<gate, outcome>>
    BY <1>1 DEF ControlInv
  <1>2. CASE Left
    <2>1. \A f \in gate.fresh : f.look[1] \in Target
      BY DEF TypeOK
    <2> QED BY <1>2, <2>1 DEF Left, ControlInv
  <1>3. CASE Resolved \/ Opens
    BY <1>3 DEF Resolved, Opens, Stayed, ControlInv
  <1>4. CASE BaseTaken \/ Waits
    BY <1>4 DEF BaseTaken, Waits, Stayed, ControlInv
  <1>5. ASSUME NEW g \in Target \cup {NoPane}, Reads(g) PROVE ControlInv'
    BY <1>5 DEF Reads, ControlInv
  <1>6. ASSUME NEW p \in Target, NEW c \in Channel, Sees(p, c) \/ Misses(p, c) PROVE ControlInv'
    BY <1>6 DEF Sees, Misses, LooksAt, ControlInv
  <1> QED BY <1>1, <1>2, <1>3, <1>4, <1>5, <1>6, StepIs, ReportKept, WorldKept DEF GateKinds

\* What a copy is after a step, of what the writers say then.
Remains(r) ==
  IF r.by = Earlier THEN ~r.new
  ELSE /\ writer'[r.by].at # "idle"
       /\ r.status = writer'[r.by].report.status /\ r.pr = writer'[r.by].report.pr

LEMMA CopyNext ==
  ASSUME \A w \in Writer : writer'[w].at # "idle" => writer'[w].report \in Reports /\ writer'[w].report.by = w,
         \A w \in Writer : writer'[w].at = "deliver" => writer'[w].seq > 0,
         \A p \in Pane : (tokens'[p].report = NoReport) <=> (tokens'[p].seq = 0),
         \A p \in Pane : tokens'[p].report # NoReport => Remains(tokens'[p].report),
         \A p \in Pane : \A i \in DOMAIN screen'[p] : Remains(screen'[p][i]),
         \A f \in gate'.fresh : Remains(f.report),
         \A p \in Pane : \A said \in lastWords'[p] : said[2] # NoReport => Remains(said[2])
  PROVE  CopyInv'
  BY DEF CopyInv, Genuine, Remains

\* What a writer says is said once, so a copy of it stays one.
LEMMA GenuineStays ==
  ASSUME TypeOK, NEW r \in Reports, Genuine(r),
         writer' = writer \/ \E w \in Writer : Moves(w)
  PROVE  Remains(r)
  <1>1. r.by \in Writer \cup {Earlier}
    BY DEF Reports
  <1>2. CASE writer' = writer
    BY <1>2 DEF Genuine, Remains
  <1>3. ASSUME NEW w \in Writer, Moves(w) PROVE Remains(r)
    BY <1>1, <1>3 DEF Genuine, Remains, Moves
  <1> QED BY <1>2, <1>3

LEMMA TopIs ==
  ASSUME TypeOK, NEW p \in Target, NEW c \in Channel, Count(p, c) > mark[p][c]
  PROVE  /\ p \in Pane /\ mark[p][c] \in Nat /\ Count(p, c) \in Nat
         /\ c = "meta" => tokens[p].seq > 0 /\ tokens[p].report = Top(p, c)
         /\ c = "term" => /\ Len(screen[p]) \in DOMAIN screen[p] /\ screen[p] # <<>>
                          /\ screen[p][Len(screen[p])] = Top(p, c) /\ Top(p, c) \in Reports
  <1>1. p \in Pane /\ mark[p][c] \in Nat
    BY DEF TypeOK
  <1>2. tokens[p] \in [seq : Nat, report : Reports \cup {NoReport}] /\ screen[p] \in Seq(Reports)
    BY <1>1 DEF TypeOK
  <1>3. CASE c = "meta"
    BY <1>1, <1>2, <1>3 DEF Count, Top
  <1>4. CASE c = "term"
    <2>1. Len(screen[p]) > 0 /\ Len(screen[p]) \in Nat
      BY <1>1, <1>2, <1>4 DEF Count
    <2>2. Len(screen[p]) \in DOMAIN screen[p] /\ screen[p] # <<>>
          /\ screen[p][Len(screen[p])] \in Reports
      BY <1>2, <2>1
    <2> QED BY <1>1, <1>4, <2>1, <2>2 DEF Count, Top
  <1> QED BY <1>3, <1>4 DEF Channel

LEMMA GateCopies ==
  ASSUME TypeOK, CopyInv, GateKinds PROVE CopyInv'
  <1>1. \A f \in gate'.fresh : Genuine(f.report)
    <2>1. CASE gate'.fresh = gate.fresh \/ gate'.fresh = {}
      BY <2>1 DEF CopyInv
    <2>2. ASSUME NEW p \in Target, NEW c \in Channel, Sees(p, c), gate'.fresh # gate.fresh
          PROVE  \A f \in gate'.fresh : Genuine(f.report)
      <3>1. /\ Count(p, c) > mark[p][c]
            /\ gate'.fresh = gate.fresh \cup {[look |-> <<p, c>>, report |-> Top(p, c)]}
        BY <2>2 DEF Sees
      <3>2. Genuine(Top(p, c))
        <4>1. CASE c = "meta"
          <5>1. tokens[p].seq # 0 /\ p \in Pane
            <6>1. tokens[p].seq > 0 /\ p \in Pane
              BY <3>1, <4>1, TopIs
            <6>2. tokens[p].seq \in Nat
              BY <6>1 DEF TypeOK
            <6> QED BY <6>1, <6>2
          <5> QED BY <3>1, <4>1, <5>1, TopIs DEF CopyInv
        <4>2. CASE c = "term"
          BY <3>1, <4>2, TopIs DEF CopyInv
        <4> QED BY <4>1, <4>2 DEF Channel
      <3> QED BY <3>1, <3>2 DEF CopyInv
    <2> QED BY <2>1, <2>2
         DEF GateKinds, Left, Resolved, Opens, BaseTaken, Waits, Stayed, Reads, Misses
  <1> QED BY <1>1, GateKept, SMTT(30) DEF CopyInv, Genuine

LEMMA ReportCopies ==
  ASSUME TypeOK, CopyInv, NEW w \in Writer, ReportOnly, Moves(w),
         Shows(w) \/ Attaches(w) \/ UNCHANGED <<tokens, screen, spoiled, stream>>
  PROVE  CopyInv'
  <1>1. UNCHANGED <<lastWords, gate>> /\ Of[w] \in Pane
    BY ReportKept, TargetAssumption
  <1>2. /\ \A v \in Writer : writer'[v].at # "idle" => writer'[v].report \in Reports /\ writer'[v].report.by = v
        /\ \A v \in Writer : writer'[v].at = "deliver" => writer'[v].seq > 0
    BY DEF Moves, CopyInv
  <1>3. \A r \in Reports : Genuine(r) => Remains(r)
    BY GenuineStays
  <1>4. /\ \A f \in gate'.fresh : Remains(f.report)
        /\ \A p \in Pane : \A said \in lastWords'[p] : said[2] # NoReport => Remains(said[2])
    BY <1>1, <1>3 DEF CopyInv, TypeOK
  <1>5. ASSUME NEW c, NEW r, Said(w, c, r) PROVE Remains(r) /\ r \in Reports
    BY <1>5 DEF Said, Remains, Moves
  <1>6. \A p \in Pane : tokens[p].report \in Reports \cup {NoReport} /\ screen[p] \in Seq(Reports)
    BY DEF TypeOK
  <1>7. ASSUME UNCHANGED tokens
        PROVE  \A p \in Pane : /\ (tokens'[p].report = NoReport) <=> (tokens'[p].seq = 0)
                               /\ tokens'[p].report # NoReport => Remains(tokens'[p].report)
    BY <1>3, <1>6, <1>7 DEF CopyInv
  <1>8. ASSUME UNCHANGED screen
        PROVE  \A p \in Pane : \A i \in DOMAIN screen'[p] : Remains(screen'[p][i])
    <2>1. \A p \in Pane : \A i \in DOMAIN screen[p] : screen[p][i] \in Reports /\ Genuine(screen[p][i])
      BY <1>6 DEF CopyInv
    <2> QED BY <1>3, <1>8, <2>1
  <1>9. CASE UNCHANGED <<tokens, screen>>
    BY <1>2, <1>4, <1>7, <1>8, <1>9, CopyNext
  <1>10. CASE Shows(w)
    <2>1. PICK r \in Reports : Said(w, "term", r) /\ screen' = Printed(Of[w], r)
      BY <1>10 DEF Shows
    <2>2. ASSUME NEW p \in Pane, NEW i \in DOMAIN screen'[p] PROVE Remains(screen'[p][i])
      <3>1. screen'[p][i] = r \/ \E j \in DOMAIN screen[p] : screen'[p][i] = screen[p][j]
        BY <1>1, <2>1, PrintedIs
      <3>2. \A j \in DOMAIN screen[p] : Remains(screen[p][j])
        <4>1. \A j \in DOMAIN screen[p] : screen[p][j] \in Reports /\ Genuine(screen[p][j])
          BY <1>6 DEF CopyInv
        <4> QED BY <1>3, <4>1
      <3> QED BY <1>5, <2>1, <3>1, <3>2
    <2> QED BY <1>2, <1>4, <1>7, <1>10, <2>2, CopyNext DEF Shows
  <1>11. CASE Attaches(w)
    <2>1. PICK r \in Reports :
            /\ Said(w, "meta", r)
            /\ tokens' = [tokens EXCEPT ![Of[w]] = [seq |-> writer[w].seq, report |-> r]]
      BY <1>11 DEF Attaches
    <2>2. writer[w].seq > 0 /\ writer[w].seq \in Nat /\ UNCHANGED screen
      BY <1>11 DEF Attaches, CopyInv, TypeOK
    <2>3. ASSUME NEW p \in Pane
          PROVE  /\ (tokens'[p].report = NoReport) <=> (tokens'[p].seq = 0)
                 /\ tokens'[p].report # NoReport => Remains(tokens'[p].report)
      <3>1. CASE p = Of[w]
        <4>1. tokens'[p].seq = writer[w].seq /\ tokens'[p].report = r
          BY <1>1, <2>1, <3>1 DEF TypeOK
        <4> QED BY <1>5, <2>1, <2>2, <4>1
      <3>2. CASE p # Of[w]
        <4>1. tokens'[p] = tokens[p]
          BY <2>1, <3>2 DEF TypeOK
        <4> QED BY <1>3, <1>6, <4>1 DEF CopyInv
      <3> QED BY <3>1, <3>2
    <2> QED BY <1>2, <1>4, <1>8, <2>2, <2>3, CopyNext
  <1> QED BY <1>9, <1>10, <1>11

LEMMA WorldCopies ==
  ASSUME TypeOK, CopyInv, WorldKinds PROVE CopyInv'
  <1>1. UNCHANGED <<writer, gate>> /\ \A r : Genuine(r)' <=> Genuine(r)
    BY WorldKept DEF Genuine
  <1>2. CASE UNCHANGED <<tokens, screen, lastWords>>
    BY <1>1, <1>2 DEF CopyInv
  <1>3. CASE Scrolls
    <2>1. \A p \in Pane : \A i \in DOMAIN screen'[p] : Genuine(screen'[p][i])
      <3>1. PICK q \in Pane : screen[q] # <<>> /\ screen' = [screen EXCEPT ![q] = Tail(@)]
        BY <1>3 DEF Scrolls
      <3>2. ASSUME NEW p \in Pane, NEW i \in DOMAIN screen'[p]
            PROVE  \E j \in DOMAIN screen[p] : screen'[p][i] = screen[p][j]
        <4>1. CASE p = q
          BY <3>1, <4>1, ScrolledIs, SMTT(30)
        <4>2. CASE p # q
          <5>1. screen'[p] = screen[p]
            BY <3>1, <4>2, ScrolledIs
          <5> QED BY <5>1
        <4> QED BY <4>1, <4>2
      <3> QED BY <3>2 DEF CopyInv
    <2> QED BY <1>1, <1>3, <2>1 DEF Scrolls, CopyInv
  <1>4. CASE Clearing
    <2>1. PICK q \in Pane : tokens' = [tokens EXCEPT ![q] = [seq |-> 0, report |-> NoReport]]
      BY <1>4 DEF Clearing
    <2>2. \A p \in Pane : tokens'[p] = tokens[p]
                          \/ (tokens'[p].seq = 0 /\ tokens'[p].report = NoReport)
      BY <2>1 DEF TypeOK
    <2> QED BY <1>1, <1>4, <2>2 DEF Clearing, CopyInv
  <1>5. ASSUME NEW S \in SUBSET Pane, Ends(S) PROVE CopyInv'
    <2>1. ASSUME NEW p \in Pane, NEW said \in lastWords'[p], said[2] # NoReport
          PROVE  Genuine(said[2])
      <3>1. CASE said \in lastWords[p]
        BY <2>1, <3>1 DEF CopyInv
      <3>2. CASE said \in Shown(p)
        BY <2>1, <3>2, ShownIs DEF CopyInv
      <3> QED BY <1>5, <2>1, <3>1, <3>2 DEF Ends
    <2> QED BY <1>1, <1>5, <2>1 DEF Ends, CopyInv
  <1> QED BY <1>2, <1>3, <1>4, <1>5 DEF WorldKinds, Stirs

LEMMA CopyStep ==
  ASSUME TypeOK, ControlInv, CopyInv, [Next]_vars PROVE CopyInv'
  BY StepIs, GateCopies, ReportCopies, WorldCopies

-----------------------------------------------------------------------------
(* Before and after the baseline *)

\* Once a baseline is taken it stays so.
LEMMA PreShrinks ==
  ASSUME TypeOK, ControlInv, GateKinds, NEW p \in Target, NEW c \in Channel, Pre(p, c)'
  PROVE  Pre(p, c)
  <1>1. CASE Left
    BY <1>1 DEF Left, Pre
  <1>2. CASE Resolved \/ Opens
    BY <1>2 DEF Resolved, Opens, Pre
  <1>3. CASE BaseTaken \/ Waits
    BY <1>3 DEF BaseTaken, Waits, Pre
  <1>4. ASSUME NEW g \in Target \cup {NoPane}, Reads(g) PROVE Pre(p, c)
    BY <1>4 DEF Reads, Pre, ControlInv
  <1>5. ASSUME NEW q \in Target, NEW d \in Channel, Sees(q, d) \/ Misses(q, d) PROVE Pre(p, c)
    BY <1>5 DEF Sees, Misses, LooksAt, Pre
  <1> QED BY <1>1, <1>2, <1>3, <1>4, <1>5 DEF GateKinds

LEMMA PreStays ==
  ASSUME UNCHANGED gate
  PROVE  /\ Subscribed' <=> Subscribed
         /\ \A p, c : Pre(p, c)' <=> Pre(p, c)
  BY DEF Subscribed, Pre

\* What a report changes of the tokens and of a screen.
LEMMA AttachedIs ==
  ASSUME TypeOK, NEW w \in Writer, Attaches(w)
  PROVE  /\ Of[w] \in Pane
         /\ tokens'[Of[w]].seq = writer[w].seq /\ writer[w].seq \in Nat
         /\ Said(w, "meta", tokens'[Of[w]].report)
         /\ \A q \in Pane \ {Of[w]} : tokens'[q] = tokens[q]
         /\ UNCHANGED screen
  <1>1. PICK r \in Reports :
          /\ Said(w, "meta", r)
          /\ tokens' = [tokens EXCEPT ![Of[w]] = [seq |-> writer[w].seq, report |-> r]]
    BY DEF Attaches
  <1>2. Of[w] \in Pane /\ writer[w].seq \in Nat
    BY TargetAssumption DEF TypeOK
  <1>3. tokens'[Of[w]].seq = writer[w].seq /\ tokens'[Of[w]].report = r
    BY <1>1, <1>2 DEF TypeOK
  <1>4. \A q \in Pane \ {Of[w]} : tokens'[q] = tokens[q]
    BY <1>1 DEF TypeOK
  <1> QED BY <1>1, <1>2, <1>3, <1>4 DEF Attaches

LEMMA ShowsIs ==
  ASSUME TypeOK, NEW w \in Writer, Shows(w)
  PROVE  LET p == Of[w]
             top == screen'[p][Len(screen'[p])]
         IN  /\ p \in Pane /\ Said(w, "term", top) /\ screen'[p] # <<>>
             /\ Len(screen'[p]) >= Len(screen[p])
             /\ \A q \in Pane \ {p} : screen'[q] = screen[q]
             /\ \A i \in DOMAIN screen'[p] :
                  \/ screen'[p][i] = top
                  \/ \E j \in DOMAIN screen[p] : j >= i /\ screen'[p][i] = screen[p][j]
  <1>1. PICK r \in Reports : Said(w, "term", r) /\ screen' = Printed(Of[w], r)
    BY DEF Shows
  <1>2. Of[w] \in Pane
    BY TargetAssumption
  <1> QED BY <1>1, <1>2, PrintedIs

LEMMA ClearedIs ==
  ASSUME TypeOK, NEW p \in Pane, tokens' = [tokens EXCEPT ![p] = [seq |-> 0, report |-> NoReport]]
  PROVE  /\ tokens'[p].seq = 0 /\ tokens'[p].report = NoReport
         /\ \A q \in Pane \ {p} : tokens'[q] = tokens[q]
  BY DEF TypeOK

LEMMA TakenStep ==
  ASSUME TypeOK, ControlInv, CopyInv, TakenInv, [Next]_vars PROVE TakenInv'
  <1>1. CASE GateKinds
    <2>1. \A p \in Pane : \A said \in lastWords[p] : said[1] \in Channel
      BY DEF TypeOK
    <2>2. \A p \in Target, c \in Channel : Pre(p, c)' => Pre(p, c)
      BY <1>1, PreShrinks
    <2>3. UNCHANGED <<tokens, screen, lastWords>>
      BY <1>1, GateKept
    <2> QED BY <2>1, <2>2, <2>3 DEF TakenInv, Channel
  <1>2. ASSUME NEW w \in Writer, ReportOnly,
               Shows(w) \/ Attaches(w) \/ UNCHANGED <<tokens, screen, spoiled, stream>>
        PROVE  TakenInv'
    <2>1. UNCHANGED lastWords /\ \A p, c : Pre(p, c)' <=> Pre(p, c)
      BY <1>2, ReportKept, PreStays
    <2>2. CASE UNCHANGED <<tokens, screen>>
      BY <2>1, <2>2 DEF TakenInv
    <2>3. CASE Shows(w)
      <3>1. ASSUME NEW p \in Target, NEW i \in DOMAIN screen'[p], screen'[p][i].new
            PROVE  ~Pre(p, "term")
        <4>1. CASE p = Of[w]
          <5>1. \/ Said(w, "term", screen'[p][i])
                \/ \E j \in DOMAIN screen[p] : screen'[p][i] = screen[p][j]
            BY <2>3, <4>1, ShowsIs
          <5> QED BY <3>1, <4>1, <5>1 DEF Said, TakenInv
        <4>2. CASE p # Of[w]
          <5>1. screen'[p] = screen[p]
            BY <2>3, <4>2, ShowsIs
          <5> QED BY <3>1, <5>1 DEF TakenInv
        <4> QED BY <4>1, <4>2
      <3> QED BY <2>1, <2>3, <3>1 DEF TakenInv, Shows
    <2>4. CASE Attaches(w)
      <3>1. ASSUME NEW p \in Target, tokens'[p].report # NoReport, tokens'[p].report.new
            PROVE  ~Pre(p, "meta")
        <4>1. CASE p = Of[w]
          BY <2>4, <3>1, <4>1, AttachedIs DEF Said
        <4>2. CASE p # Of[w]
          <5>1. tokens'[p] = tokens[p]
            BY <2>4, <4>2, AttachedIs
          <5> QED BY <3>1, <5>1 DEF TakenInv
        <4> QED BY <4>1, <4>2
      <3> QED BY <2>1, <2>4, <3>1, AttachedIs DEF TakenInv
    <2> QED BY <1>2, <2>2, <2>3, <2>4
  <1>3. CASE WorldKinds
    <2>1. \A p, c : Pre(p, c)' <=> Pre(p, c)
      BY <1>3, WorldKept, PreStays
    <2>2. CASE UNCHANGED <<tokens, screen, lastWords>>
      BY <2>1, <2>2 DEF TakenInv
    <2>3. CASE Scrolls
      <3>1. PICK q \in Pane : screen[q] # <<>> /\ screen' = [screen EXCEPT ![q] = Tail(@)]
        BY <2>3 DEF Scrolls
      <3>2. ASSUME NEW p \in Target, NEW i \in DOMAIN screen'[p], screen'[p][i].new
            PROVE  ~Pre(p, "term")
        <4>1. CASE p = q
          <5>1. \E j \in DOMAIN screen[p] : screen'[p][i] = screen[p][j]
            BY <3>1, <4>1, ScrolledIs
          <5> QED BY <3>2, <5>1 DEF TakenInv
        <4>2. CASE p # q
          <5>1. screen'[p] = screen[p]
            BY <3>1, <4>2, ScrolledIs
          <5> QED BY <3>2, <5>1 DEF TakenInv
        <4> QED BY <4>1, <4>2
      <3> QED BY <2>1, <2>3, <3>2 DEF Scrolls, TakenInv
    <2>4. CASE Clearing
      <3>1. PICK q \in Pane : tokens' = [tokens EXCEPT ![q] = [seq |-> 0, report |-> NoReport]]
        BY <2>4 DEF Clearing
      <3>2. \A p \in Pane : tokens'[p] = tokens[p] \/ tokens'[p].report = NoReport
        BY <3>1, ClearedIs
      <3> QED BY <2>1, <2>4, <3>2 DEF Clearing, TakenInv
    <2>5. ASSUME NEW S \in SUBSET Pane, Ends(S) PROVE TakenInv'
      <3>1. ASSUME NEW p \in Target, NEW said \in lastWords'[p], said[2] # NoReport, said[2].new
            PROVE  ~Pre(p, said[1])
        <4>1. said \in lastWords[p] \/ said \in Shown(p)
          BY <2>5, <3>1 DEF Ends
        <4>2. CASE said \in lastWords[p]
          BY <3>1, <4>2 DEF TakenInv
        <4>3. CASE said \in Shown(p)
          BY <3>1, <4>3, ShownIs DEF TakenInv
        <4> QED BY <4>1, <4>2, <4>3
      <3> QED BY <2>1, <2>5, <3>1 DEF Ends, TakenInv
    <2> QED BY <1>3, <2>2, <2>3, <2>4, <2>5 DEF WorldKinds, Stirs
  <1> QED BY <1>1, <1>2, <1>3, StepIs

-----------------------------------------------------------------------------
(* Numbers *)

\* What a step does to the mark of a channel.
LEMMA MarkIs ==
  ASSUME TypeOK, NEW p \in Target, NEW c \in Channel, Sees(p, c)
  PROVE  /\ \A q \in Target, d \in Channel : q # p \/ d # c => mark'[q][d] = mark[q][d]
         /\ mark'[p][c] = IF c = "term" /\ MetadataOnly THEN mark[p][c] ELSE Count(p, c)
  <1>1. mark \in [Target -> [Channel -> Nat]]
    BY DEF TypeOK
  <1>2. CASE c = "term" /\ MetadataOnly
    BY <1>2 DEF Sees
  <1>3. CASE ~(c = "term" /\ MetadataOnly)
    <2>1. mark' = [mark EXCEPT ![p][c] = Count(p, c)]
      BY <1>3 DEF Sees
    <2> QED BY <1>1, <1>3, <2>1
  <1> QED BY <1>2, <1>3

LEMMA MarkKept ==
  ASSUME GateKinds, \A p \in Target, c \in Channel : ~Sees(p, c)
  PROVE  UNCHANGED mark
  BY DEF GateKinds, Left, Resolved, Opens, BaseTaken, Waits, Stayed, Reads, Misses

\* A number, once had, is one a pane had.
LEMMA NumberedStays ==
  ASSUME TypeOK, NEW p \in Pane, NEW n \in Nat, Numbered(p, n),
         writer' = writer \/ \E w \in Writer : Moves(w)
  PROVE  Numbered(p, n)'
  <1>1. CASE n = 0 \/ (p \in Answered /\ n = 1)
    BY <1>1 DEF Numbered
  <1>2. ASSUME NEW v \in Writer, Of[v] = p, writer[v].seq = n,
               writer[v].at \in {"confirm", "delivered", "failed", "told"}
        PROVE  Numbered(p, n)'
    <2>1. writer'[v].seq = n /\ writer'[v].at \in {"confirm", "delivered", "failed", "told"}
      BY <1>2 DEF Moves, Past
    <2> QED BY <1>2, <2>1 DEF Numbered
  <1> QED BY <1>1, <1>2 DEF Numbered

LEMMA NumberStep ==
  ASSUME TypeOK, ControlInv, CopyInv, NumberInv, [Next]_vars PROVE NumberInv'
  <1>1. /\ \A p \in Pane : tokens[p].seq \in Nat
        /\ \A p \in Target : mark[p]["meta"] \in Nat
    BY DEF TypeOK, Channel
  <1>2. ASSUME NEW p \in Pane, tokens'[p].seq = tokens[p].seq,
               writer' = writer \/ \E w \in Writer : Moves(w)
        PROVE  Numbered(p, tokens[p].seq)'
    <2>1. PICK n \in Nat : n = tokens[p].seq /\ Numbered(p, n)
      BY <1>1 DEF NumberInv
    <2>2. Numbered(p, n)'
      BY <1>2, <2>1, NumberedStays
    <2> QED BY <1>2, <2>1, <2>2 DEF Numbered
  <1>3. ASSUME NEW p \in Target, mark'[p]["meta"] = mark[p]["meta"],
               writer' = writer \/ \E w \in Writer : Moves(w)
        PROVE  Numbered(p, mark[p]["meta"])'
    <2>1. PICK n \in Nat : n = mark[p]["meta"] /\ Numbered(p, n)
      BY <1>1 DEF NumberInv
    <2>2. Numbered(p, n)'
      BY <1>3, <2>1, NumberedStays
    <2> QED BY <1>3, <2>1, <2>2 DEF Numbered
  <1>4. CASE GateKinds
    <2>1. UNCHANGED <<tokens, writer>>
      BY <1>4, GateKept
    <2>2. CASE UNCHANGED mark
      BY <1>2, <1>3, <2>1, <2>2 DEF NumberInv
    <2>3. ASSUME NEW p \in Target, NEW c \in Channel, Sees(p, c) PROVE NumberInv'
      <3>1. \A q \in Target : mark'[q]["meta"] \in {mark[q]["meta"], tokens[q].seq}
        BY <2>3, MarkIs DEF Channel, Count
      <3>2. \A q \in Target : Numbered(q, mark[q]["meta"])'
        BY <2>1, <3>1 DEF NumberInv, Numbered
      <3> QED BY <1>2, <2>1, <3>2 DEF NumberInv
    <2> QED BY <1>4, <2>2, <2>3, MarkKept
  <1>5. ASSUME NEW w \in Writer, ReportOnly, Moves(w),
               Shows(w) \/ Attaches(w) \/ UNCHANGED <<tokens, screen, spoiled, stream>>
        PROVE  NumberInv'
    <2>1. \A p \in Target : Numbered(p, mark[p]["meta"])'
      BY <1>3, <1>5, ReportKept
    <2>2. CASE UNCHANGED tokens
      BY <1>2, <1>5, <2>1, <2>2 DEF NumberInv
    <2>3. CASE Attaches(w)
      <3>1. ASSUME NEW p \in Pane PROVE Numbered(p, tokens[p].seq)'
        <4>1. CASE p = Of[w]
          <5>1. writer'[w].seq = tokens'[p].seq /\ writer'[w].at \in Past
            BY <2>3, <4>1, AttachedIs DEF Attaches
          <5> QED BY <4>1, <5>1 DEF Numbered, Past
        <4>2. CASE p # Of[w]
          <5>1. tokens'[p].seq = tokens[p].seq
            BY <2>3, <4>2, AttachedIs
          <5> QED BY <1>2, <1>5, <5>1
        <4> QED BY <4>1, <4>2
      <3> QED BY <2>1, <3>1 DEF NumberInv
    <2> QED BY <1>5, <2>2, <2>3 DEF Shows
  <1>6. CASE WorldKinds
    <2>1. UNCHANGED <<writer, mark>>
      BY <1>6, WorldKept
    <2>2. CASE UNCHANGED tokens
      BY <1>2, <1>3, <2>1, <2>2 DEF NumberInv
    <2>3. CASE Clearing
      <3>1. PICK q \in Pane : tokens' = [tokens EXCEPT ![q] = [seq |-> 0, report |-> NoReport]]
        BY <2>3 DEF Clearing
      <3>2. \A p \in Pane : tokens'[p].seq = tokens[p].seq \/ tokens'[p].seq = 0
        BY <3>1, ClearedIs
      <3>3. \A p \in Pane : Numbered(p, tokens[p].seq)'
        BY <1>2, <2>1, <3>2 DEF Numbered
      <3> QED BY <1>3, <2>1, <3>3 DEF NumberInv
    <2> QED BY <1>6, <2>2, <2>3 DEF WorldKinds, Scrolls, Stirs, Ends
  <1> QED BY <1>4, <1>5, <1>6, StepIs

-----------------------------------------------------------------------------
(* News *)

\* What the state is after a look at channel c of pane p, of another channel's.
LEMMA LookKeeps ==
  ASSUME NEW p \in Target, NEW c \in Channel, Sees(p, c) \/ Misses(p, c),
         NEW q \in Target, NEW d \in Channel, q # p \/ d # c
  PROVE  /\ Subscribed /\ Subscribed'
         /\ Pre(q, d)' <=> Pre(q, d)
         /\ blind \subseteq blind' /\ unread \subseteq unread'
         /\ <<q, d>> \in gate.todo <=> <<q, d>> \in gate'.todo
  BY DEF Sees, Misses, LooksAt, Subscribed, Pre

LEMMA GateOld ==
  ASSUME TypeOK, ControlInv, OldInv, GateKinds PROVE OldInv'
  <1>1. UNCHANGED <<tokens, screen>>
    BY GateKept
  <1>2. CASE Left \/ Resolved
    BY <1>2 DEF Left, Resolved, OldInv, Subscribed
  <1>3. CASE Opens
    <2>1. \A p \in Target, c \in Channel : Pre(p, c)'
      BY <1>3 DEF Opens, Pre, ControlInv
    <2> QED BY <2>1 DEF OldInv, Channel
  <1>4. CASE BaseTaken \/ Waits \/ \E g \in Target \cup {NoPane} : Reads(g)
    <2>1. Subscribed /\ UNCHANGED <<mark, blind>> /\ \A p \in Target, c \in Channel : ~Pre(p, c)
      BY <1>4 DEF BaseTaken, Waits, Stayed, Reads, Subscribed, Pre, ControlInv
    <2> QED BY <1>1, <2>1 DEF OldInv, Channel
  <1>5. ASSUME NEW p \in Target, NEW c \in Channel, Misses(p, c) PROVE OldInv'
    <2>1. UNCHANGED mark /\ Subscribed
      BY <1>5 DEF Misses, LooksAt, Subscribed
    <2>2. Pre(p, c)' \/ <<p, c>> \in blind' \/ (~Pre(p, c) /\ blind' = blind)
      BY <1>5 DEF Misses, LooksAt, Pre
    <2>3. ASSUME NEW q \in Target, NEW d \in Channel, ~Pre(q, d)', <<q, d>> \notin blind'
          PROVE  ~Pre(q, d) /\ <<q, d>> \notin blind
      <3>1. CASE q = p /\ d = c
        BY <2>2, <2>3, <3>1
      <3>2. CASE q # p \/ d # c
        BY <1>5, <2>3, <3>2, LookKeeps
      <3> QED BY <3>1, <3>2
    <2> QED BY <1>1, <2>1, <2>3 DEF OldInv, Channel
  <1>6. ASSUME NEW p \in Target, NEW c \in Channel, Sees(p, c) PROVE OldInv'
    <2>1. Subscribed /\ p \in Pane /\ UNCHANGED blind
      BY <1>6 DEF Sees, LooksAt, Subscribed
    <2>2. ASSUME NEW q \in Target, ~Pre(q, "meta")', <<q, "meta">> \notin blind',
                 tokens[q].seq > mark'[q]["meta"]
          PROVE  tokens[q].report.new
      <3>1. CASE q = p /\ c = "meta"
        <4>1. mark'[q]["meta"] = tokens[q].seq /\ tokens[q].seq \in Nat
          BY <1>6, <3>1, MarkIs DEF Count, TypeOK
        <4> QED BY <2>2, <4>1
      <3>2. CASE q # p \/ c # "meta"
        <4>1. mark'[q]["meta"] = mark[q]["meta"] /\ ~Pre(q, "meta")
          <5>1. "meta" \in Channel
            BY DEF Channel
          <5>2. mark'[q]["meta"] = mark[q]["meta"]
            BY <1>6, <3>2, <5>1, MarkIs
          <5>3. ~Pre(q, "meta")
            BY <1>6, <2>2, <3>2, <5>1, LookKeeps
          <5> QED BY <5>2, <5>3
        <4> QED BY <2>1, <2>2, <4>1 DEF OldInv
      <3> QED BY <3>1, <3>2
    <2>3. ASSUME NEW q \in Target, ~Pre(q, "term")', <<q, "term">> \notin blind', ~MetadataOnly,
                 NEW i \in DOMAIN screen[q], i > mark'[q]["term"]
          PROVE  screen[q][i].new
      <3>1. CASE q = p /\ c = "term"
        <4>1. mark'[q]["term"] = Len(screen[q])
          BY <1>6, <2>3, <3>1, MarkIs DEF Count
        <4>2. screen[q] \in Seq(Reports)
          BY DEF TypeOK
        <4> QED BY <2>3, <4>1, <4>2
      <3>2. CASE q # p \/ c # "term"
        <4>1. mark'[q]["term"] = mark[q]["term"] /\ ~Pre(q, "term")
          <5>1. "term" \in Channel
            BY DEF Channel
          <5>2. mark'[q]["term"] = mark[q]["term"]
            BY <1>6, <3>2, <5>1, MarkIs
          <5>3. ~Pre(q, "term")
            BY <1>6, <2>3, <3>2, <5>1, LookKeeps
          <5> QED BY <5>2, <5>3
        <4> QED BY <2>1, <2>3, <4>1 DEF OldInv
      <3> QED BY <3>1, <3>2
    <2> QED BY <1>1, <2>2, <2>3 DEF OldInv
  <1> QED BY <1>2, <1>3, <1>4, <1>5, <1>6 DEF GateKinds

LEMMA OldStep ==
  ASSUME TypeOK, ControlInv, CopyInv, OldInv, [Next]_vars PROVE OldInv'
  <1>1. ASSUME NEW w \in Writer, ReportOnly,
               Shows(w) \/ Attaches(w) \/ UNCHANGED <<tokens, screen, spoiled, stream>>
        PROVE  OldInv'
    <2>1. /\ UNCHANGED <<mark, blind>> /\ (Subscribed' <=> Subscribed)
          /\ \A p, c : Pre(p, c)' <=> Pre(p, c)
      BY <1>1, ReportKept, PreStays
    <2>2. CASE UNCHANGED <<tokens, screen>>
      BY <2>1, <2>2 DEF OldInv
    <2>3. CASE Attaches(w)
      <3>1. ASSUME NEW p \in Target, Subscribed, ~Pre(p, "meta"), <<p, "meta">> \notin blind,
                   tokens'[p].seq > mark[p]["meta"]
            PROVE  tokens'[p].report.new
        <4>1. CASE p = Of[w]
          BY <2>3, <3>1, <4>1, AttachedIs DEF Said
        <4>2. CASE p # Of[w]
          <5>1. tokens'[p] = tokens[p]
            BY <2>3, <4>2, AttachedIs
          <5> QED BY <3>1, <5>1 DEF OldInv
        <4> QED BY <4>1, <4>2
      <3>2. UNCHANGED screen
        BY <2>3, AttachedIs
      <3> QED BY <2>1, <3>1, <3>2 DEF OldInv
    <2>4. CASE Shows(w)
      <3>1. ASSUME NEW p \in Target, Subscribed, ~Pre(p, "term"), <<p, "term">> \notin blind,
                   ~MetadataOnly, NEW i \in DOMAIN screen'[p], i > mark[p]["term"]
            PROVE  screen'[p][i].new
        <4>1. \A j \in DOMAIN screen[p] : j > mark[p]["term"] => screen[p][j].new
          BY <3>1 DEF OldInv
        <4>2. CASE p = Of[w]
          <5>1. CASE Said(w, "term", screen'[p][i])
            BY <3>1, <4>2, <5>1 DEF Said
          <5>2. CASE \E j \in DOMAIN screen[p] : j >= i /\ screen'[p][i] = screen[p][j]
            <6>1. PICK j \in DOMAIN screen[p] : j >= i /\ screen'[p][i] = screen[p][j]
              BY <5>2
            <6>2. j \in Nat /\ i \in Nat /\ mark[p]["term"] \in Nat
              <7>1. screen'[p] \in Seq(Reports) /\ screen[p] \in Seq(Reports)
                <8>1. PICK r \in Reports : screen' = Printed(Of[w], r)
                  BY <2>4 DEF Shows
                <8>2. screen' \in [Pane -> Seq(Reports)]
                  BY <4>2, <8>1, PrintedIs
                <8> QED BY <8>2 DEF TypeOK
              <7>2. mark[p]["term"] \in Nat
                BY DEF TypeOK, Channel
              <7> QED BY <7>1, <7>2
            <6> QED BY <3>1, <4>1, <6>1, <6>2
          <5> QED BY <2>4, <4>2, <5>1, <5>2, ShowsIs
        <4>3. CASE p # Of[w]
          <5>1. screen'[p] = screen[p]
            BY <2>4, <4>3, ShowsIs
          <5> QED BY <3>1, <4>1, <5>1
        <4> QED BY <4>2, <4>3
      <3> QED BY <2>1, <2>4, <3>1 DEF OldInv, Shows
    <2> QED BY <1>1, <2>2, <2>3, <2>4
  <1>2. CASE WorldKinds
    <2>1. /\ UNCHANGED <<mark, blind>> /\ (Subscribed' <=> Subscribed)
          /\ \A p, c : Pre(p, c)' <=> Pre(p, c)
      BY <1>2, WorldKept, PreStays
    <2>2. CASE UNCHANGED <<tokens, screen>>
      BY <2>1, <2>2 DEF OldInv
    <2>3. CASE Scrolls
      <3>1. PICK q \in Pane : screen[q] # <<>> /\ screen' = [screen EXCEPT ![q] = Tail(@)]
        BY <2>3 DEF Scrolls
      <3>2. ASSUME NEW p \in Target, Subscribed, ~Pre(p, "term"), <<p, "term">> \notin blind,
                   ~MetadataOnly, NEW i \in DOMAIN screen'[p], i > mark[p]["term"]
            PROVE  screen'[p][i].new
        <4>1. \A j \in DOMAIN screen[p] : j > mark[p]["term"] => screen[p][j].new
          BY <3>2 DEF OldInv
        <4>2. CASE p = q
          <5>0. \A k \in DOMAIN screen'[q] :
                  \E j \in DOMAIN screen[q] : j >= k /\ screen'[q][k] = screen[q][j]
            BY <3>1, ScrolledIs
          <5>1. PICK j \in DOMAIN screen[p] : j >= i /\ screen'[p][i] = screen[p][j]
            BY <4>2, <5>0
          <5>2. j \in Nat /\ i \in Nat /\ mark[p]["term"] \in Nat
            <6>1. screen'[p] \in Seq(Reports) /\ screen[p] \in Seq(Reports)
              <7>1. screen' \in [Pane -> Seq(Reports)]
                BY <3>1, ScrolledIs
              <7> QED BY <7>1 DEF TypeOK
            <6>2. mark[p]["term"] \in Nat
              BY DEF TypeOK, Channel
            <6> QED BY <6>1, <6>2
          <5> QED BY <3>2, <4>1, <5>1, <5>2
        <4>3. CASE p # q
          <5>1. screen'[p] = screen[p]
            BY <3>1, <4>3, ScrolledIs
          <5> QED BY <3>2, <4>1, <5>1
        <4> QED BY <4>2, <4>3
      <3> QED BY <2>1, <2>3, <3>2 DEF Scrolls, OldInv
    <2>4. CASE Clearing
      <3>1. PICK q \in Pane : tokens' = [tokens EXCEPT ![q] = [seq |-> 0, report |-> NoReport]]
        BY <2>4 DEF Clearing
      <3>2. \A p \in Pane : tokens'[p] = tokens[p] \/ tokens'[p].seq = 0
        BY <3>1, ClearedIs
      <3>3. \A p \in Target : mark[p]["meta"] \in Nat
        BY DEF TypeOK, Channel
      <3>4. \A p \in Target : tokens'[p].seq > mark[p]["meta"] => tokens'[p] = tokens[p]
        BY <3>2, <3>3
      <3> QED BY <2>1, <2>4, <3>4 DEF Clearing, OldInv
    <2> QED BY <1>2, <2>2, <2>3, <2>4 DEF WorldKinds, Stirs, Ends
  <1> QED BY <1>1, <1>2, StepIs, GateOld

\* A report satisfies as its writer's does.
LEMMA SatisfiesAlike ==
  ASSUME NEW r, NEW s, r.status = s.status, r.pr = s.pr
  PROVE  Satisfies(r) <=> Satisfies(s)
  BY DEF Satisfies

\* What a look turns up is news.
LEMMA FoundIs ==
  ASSUME TypeOK, CopyInv, OldInv, NEW p \in Target, NEW c \in Channel, Sees(p, c), gate'.fresh # gate.fresh
  PROVE  /\ Count(p, c) > mark[p][c] /\ ~gate.base
         /\ gate'.fresh = gate.fresh \cup {[look |-> <<p, c>>, report |-> Top(p, c)]}
         /\ Top(p, c).new \/ <<p, c>> \in blind
  <1>1. /\ Count(p, c) > mark[p][c] /\ ~gate.base /\ ~(c = "term" /\ MetadataOnly)
        /\ gate'.fresh = gate.fresh \cup {[look |-> <<p, c>>, report |-> Top(p, c)]}
    BY DEF Sees
  <1>2. Subscribed /\ ~Pre(p, c)
    BY <1>1 DEF Sees, LooksAt, Subscribed, Pre
  <1>3. CASE c = "meta"
    BY <1>1, <1>2, <1>3 DEF OldInv, Count, Top
  <1>4. CASE c = "term"
    <2>1. Len(screen[p]) \in DOMAIN screen[p] /\ screen[p][Len(screen[p])] = Top(p, c)
      BY <1>1, <1>4, TopIs
    <2>2. Len(screen[p]) > mark[p]["term"]
      BY <1>1, <1>4 DEF Count
    <2> QED BY <1>1, <1>2, <1>4, <2>1, <2>2 DEF OldInv
  <1> QED BY <1>1, <1>3, <1>4 DEF Channel

LEMMA FreshStep ==
  ASSUME TypeOK, ControlInv, CopyInv, OldInv, FreshInv, [Next]_vars PROVE FreshInv'
  <1>1. CASE GateKinds
    <2>1. \A f \in gate'.fresh : f.report.new \/ f.look \in blind'
      <3>1. CASE gate'.fresh = gate.fresh \/ gate'.fresh = {}
        <4>1. blind \subseteq blind'
          BY <1>1 DEF GateKinds, Left, Resolved, Opens, BaseTaken, Waits, Stayed, Reads, Sees, Misses
        <4> QED BY <3>1, <4>1 DEF FreshInv
      <3>2. ASSUME NEW p \in Target, NEW c \in Channel, Sees(p, c), gate'.fresh # gate.fresh
            PROVE  \A f \in gate'.fresh : f.report.new \/ f.look \in blind'
        <4>1. UNCHANGED blind
          BY <3>2 DEF Sees
        <4>2. /\ gate'.fresh = gate.fresh \cup {[look |-> <<p, c>>, report |-> Top(p, c)]}
              /\ Top(p, c).new \/ <<p, c>> \in blind
          BY <3>2, FoundIs
        <4>3. \A f \in gate.fresh : f.report.new \/ f.look \in blind
          BY DEF FreshInv
        <4> QED BY <4>1, <4>2, <4>3
      <3> QED BY <1>1, <3>1, <3>2
           DEF GateKinds, Left, Resolved, Opens, BaseTaken, Waits, Stayed, Reads, Misses
    <2>2. ASSUME gate'.at \notin {"verify", "over"}, NEW w \in judged' \cap Writer
          PROVE  writer[w].at # "idle" /\ ~Satisfies(writer[w].report)
      <3>1. gate.at \notin {"verify", "over"}
        BY <1>1, <2>2 DEF GateKinds, Left, Resolved, Opens, BaseTaken, Waits, Reads, Sees, Misses, LooksAt
      <3>2. CASE w \in judged
        BY <3>1, <3>2 DEF FreshInv
      <3>3. CASE w \notin judged
        <4>1. Waits
          BY <1>1, <2>2, <3>3 DEF GateKinds, Left, Resolved, Opens, BaseTaken, Reads, Sees, Misses, LooksAt
        <4>2. PICK f \in gate.fresh : f.report.by = w /\ ~Satisfies(f.report)
          BY <3>3, <4>1 DEF Waits, Releasing
        <4>3. Genuine(f.report) /\ w # Earlier
          BY <4>2 DEF CopyInv
        <4> QED BY <4>2, <4>3, SatisfiesAlike DEF Genuine
      <3> QED BY <3>2, <3>3
    <2>3. UNCHANGED writer
      BY <1>1, GateKept
    <2> QED BY <2>1, <2>2, <2>3 DEF FreshInv, Satisfies
  <1>2. ASSUME NEW w \in Writer, ReportOnly, Moves(w) PROVE FreshInv'
    <2>1. UNCHANGED <<gate, judged, blind>>
      BY <1>2, ReportKept
    <2>2. ASSUME NEW v \in Writer, writer[v].at # "idle", ~Satisfies(writer[v].report)
          PROVE  writer'[v].at # "idle" /\ ~Satisfies(writer'[v].report)
      BY <1>2, <2>2 DEF Moves
    <2> QED BY <2>1, <2>2 DEF FreshInv, Satisfies
  <1>3. CASE WorldKinds
    BY <1>3, WorldKept DEF FreshInv, Satisfies
  <1> QED BY <1>1, <1>2, <1>3, StepIs

-----------------------------------------------------------------------------
(* Deaths, and the frames that are due *)

\* Nothing but an end is called gone, and nothing but an update or a turn is looked into.
LEMMA VerdictIs ==
  ASSUME NEW q \in Pane
  PROVE  /\ Frame("updated", q, WsOf[q]) \in Frames /\ Frame("status", q, WsOf[q]) \in Frames
         /\ Verdict(Frame("updated", q, WsOf[q]), q) = "check"
         /\ \A p : Verdict(Frame("updated", q, WsOf[q]), p) # "gone"
         /\ \A p : Verdict(Frame("status", q, WsOf[q]), p) # "gone"
  BY DEF Frame, Frames, Verdict

\* What a frame pushed, or none, leaves due.
LEMMA StreamIs ==
  ASSUME TypeOK, \/ UNCHANGED stream
                 \/ \E q \in Pane : \/ Emit(Frame("updated", q, WsOf[q]))
                                    \/ Emit(Frame("status", q, WsOf[q]))
  PROVE  /\ \A p, v : Due(p, v) => Due(p, v)'
         /\ \A p : Due(p, "gone")' => Due(p, "gone")
  <1>1. CASE UNCHANGED stream
    BY <1>1 DEF Due
  <1>2. ASSUME NEW f \in Frames, Emit(f), \A p : Verdict(f, p) # "gone"
        PROVE  /\ \A p, v : Due(p, v) => Due(p, v)'
               /\ \A p : Due(p, "gone")' => Due(p, "gone")
    BY <1>2, Emitted
  <1> QED BY <1>1, <1>2, VerdictIs

LEMMA ReportStream ==
  ASSUME TypeOK, NEW w \in Writer,
         Shows(w) \/ Attaches(w) \/ UNCHANGED <<tokens, screen, spoiled, stream>>
  PROVE  /\ \A p, v : Due(p, v) => Due(p, v)'
         /\ \A p : Due(p, "gone")' => Due(p, "gone")
         /\ spoiled \subseteq spoiled'
  <1>1. Of[w] \in Pane
    BY TargetAssumption
  <1>2. UNCHANGED stream \/ \E q \in Pane : Emit(Frame("updated", q, WsOf[q]))
    BY <1>1 DEF Shows, Attaches
  <1> QED BY <1>2, StreamIs DEF Shows, Attaches

LEMMA EndedStep ==
  ASSUME TypeOK, ControlInv, CopyInv, EndedInv, [Next]_vars PROVE EndedInv'
  <1>1. CASE GateKinds
    <2>1. UNCHANGED <<closedWs, ended, lastWords>>
      BY <1>1, GateKept
    <2>2. \A p \in Pane : Due(p, "gone")' => p \in ended
      <3>1. CASE UNCHANGED stream
        BY <3>1 DEF EndedInv, Due
      <3>2. CASE Left
        <4>1. stream' = <<>>
          BY <3>2 DEF Left
        <4> QED BY <4>1 DEF Due
      <3>3. CASE Opens
        BY <3>3, Replayed DEF Opens, EndedInv
      <3>4. ASSUME NEW g \in Target \cup {NoPane}, Reads(g)
            PROVE  \A p \in Pane : Due(p, "gone")' => p \in ended
        BY <3>4, Taken DEF Reads, EndedInv
      <3> QED BY <1>1, <3>1, <3>2, <3>3, <3>4
           DEF GateKinds, Resolved, BaseTaken, Waits, Sees, Misses, LooksAt
    <2>3. gate'.gone # NoPane => gate'.gone \in ended
      <3>1. CASE gate'.gone = gate.gone \/ gate'.gone = NoPane
        BY <3>1 DEF EndedInv
      <3>2. ASSUME NEW g \in Target, Reads(g) PROVE gate'.gone \in ended
        <4>1. gate'.gone = g /\ Verdict(Head(stream), g) = "gone" /\ Due(g, Verdict(Head(stream), g))
          BY <3>2, Taken DEF Reads
        <4> QED BY <4>1 DEF EndedInv
      <3> QED BY <1>1, <3>1, <3>2
           DEF GateKinds, Left, Resolved, Opens, BaseTaken, Waits, Stayed, Reads, Sees, Misses, LooksAt
    <2>4. outcome'.kind = "gone" => outcome'.about \in ended
      <3>1. CASE UNCHANGED outcome
        BY <3>1 DEF EndedInv
      <3>2. CASE Left
        BY <3>2 DEF Left, EndedInv
      <3> QED BY <1>1, <3>1, <3>2
           DEF GateKinds, Resolved, Opens, BaseTaken, Waits, Stayed, Reads, Sees, Misses, LooksAt
    <2> QED BY <2>1, <2>2, <2>3, <2>4 DEF EndedInv
  <1>2. ASSUME NEW w \in Writer, ReportOnly,
               Shows(w) \/ Attaches(w) \/ UNCHANGED <<tokens, screen, spoiled, stream>>
        PROVE  EndedInv'
    BY <1>2, ReportKept, ReportStream DEF EndedInv
  <1>3. CASE WorldKinds
    <2>1. UNCHANGED <<gate, outcome>>
      BY <1>3, WorldKept
    <2>2. CASE /\ UNCHANGED <<closedWs, ended, lastWords>>
               /\ \/ UNCHANGED stream
                  \/ \E q \in Pane : \/ Emit(Frame("updated", q, WsOf[q]))
                                     \/ Emit(Frame("status", q, WsOf[q]))
      BY <2>1, <2>2, StreamIs DEF EndedInv
    <2>3. ASSUME NEW S \in SUBSET Pane, Ends(S) PROVE EndedInv'
      <3>1. ended' = ended \cup S
        BY <2>3 DEF Ends
      <3>2. \A p \in Pane : WsOf[p] \in closedWs' => p \in ended'
        BY <2>3, <3>1 DEF Ends, EndedInv
      <3>3. \A p \in Pane : Due(p, "gone")' => p \in ended'
        <4>1. PICK f \in Frames : Emit(f) /\ \A p \in Pane : Verdict(f, p) = "gone" => p \in S
          BY <2>3 DEF Ends
        <4> QED BY <3>1, <4>1, Emitted DEF EndedInv
      <3>4. \A p \in Pane \ ended' : lastWords'[p] = {}
        BY <2>3, <3>1 DEF Ends, EndedInv
      <3> QED BY <2>1, <3>1, <3>2, <3>3, <3>4 DEF EndedInv
    <2> QED BY <1>3, <2>2, <2>3 DEF WorldKinds, Scrolls, Clearing, Stirs
  <1> QED BY <1>1, <1>2, <1>3, StepIs

\* What DueInv says of the metadata of p.
Awaited(p) ==
  LET r == tokens[p].report
  IN  r # NoReport /\ r.new /\ <<r.by, "meta">> \notin spoiled =>
        \/ Heard(r.by)
        \/ /\ tokens[p].seq > mark[p]["meta"]
           /\ <<p, "meta">> \in unread \cup gate.todo \/ Due(p, "check")

LEMMA GateDue ==
  ASSUME TypeOK, ControlInv, CopyInv, TakenInv, DueInv, GateKinds PROVE DueInv'
  <1>1. UNCHANGED <<tokens, spoiled, closedWs, ended, early>>
    BY GateKept
  <1>2. CASE Left
    BY <1>2 DEF Left, DueInv, Subscribed
  <1>3. CASE Resolved
    BY <1>1, <1>3 DEF Resolved, DueInv, Subscribed
  <1>4. CASE Opens
    <2>1. \A p \in Target : p \in ended \ early => Due(p, "gone")'
      BY <1>4, Replayed DEF Opens, DueInv
    <2>2. \A p \in Target : tokens[p].report # NoReport => ~tokens[p].report.new
      BY <1>4 DEF Opens, TakenInv, Pre
    <2> QED BY <1>1, <1>4, <2>1, <2>2 DEF Opens, DueInv
  <1>5. CASE BaseTaken \/ Waits
    <2>1. /\ Subscribed /\ gate.todo = {} /\ gate.gone = NoPane /\ gate'.at = "next"
          /\ UNCHANGED <<mark, unread, stream>> /\ gate'.todo = {} /\ gate'.gone = NoPane
      BY <1>5 DEF BaseTaken, Waits, Stayed, Subscribed, ControlInv
    <2>2. \A by : Heard(by) => Heard(by)'
      BY <1>5 DEF BaseTaken, Waits, Stayed, Heard, ControlInv
    <2> QED BY <1>1, <2>1, <2>2 DEF DueInv, Due
  <1>6. ASSUME NEW g \in Target \cup {NoPane}, Reads(g) PROVE DueInv'
    <2>1. /\ Subscribed /\ gate.todo = {} /\ gate.gone = NoPane /\ gate'.at = "look"
          /\ UNCHANGED <<mark, unread, judged>> /\ gate'.fresh = gate.fresh /\ gate'.gone = g
          /\ gate'.todo = Hit(Head(stream)) \X Channel
      BY <1>6 DEF Reads, Subscribed, ControlInv
    <2>2. /\ \A p, v : Due(p, v) => Due(p, v)' \/ Verdict(Head(stream), p) = v
          /\ g = NoPane => \A p \in Target : Verdict(Head(stream), p) # "gone"
      BY <1>6, Taken DEF Reads
    <2>3. \A by : Heard(by) => Heard(by)'
      BY <2>1 DEF Heard
    <2>4. \A p \in Target : Verdict(Head(stream), p) = "check" => <<p, "meta">> \in gate'.todo
      BY <2>1 DEF Hit, Channel
    <2>5. \A p \in Target : Awaited(p) => Awaited(p)'
      BY <1>1, <2>1, <2>2, <2>3, <2>4 DEF Awaited
    <2>6. \A p \in Target : Awaited(p)
      BY <2>1 DEF DueInv, Awaited
    <2>7. \A p \in Target : p \in ended \ early => gate'.gone # NoPane \/ Due(p, "gone")'
      BY <2>1, <2>2 DEF DueInv
    <2> QED BY <1>1, <2>1, <2>5, <2>6, <2>7 DEF DueInv, Awaited
  <1>7. ASSUME NEW q \in Target, NEW d \in Channel, Sees(q, d) \/ Misses(q, d) PROVE DueInv'
    <2>1. /\ Subscribed /\ gate'.at = "look" /\ UNCHANGED <<judged, stream>>
          /\ gate'.gone = gate.gone /\ gate.fresh \subseteq gate'.fresh
          /\ unread \subseteq unread'
      BY <1>7 DEF Sees, Misses, LooksAt, Subscribed
    <2>2. (\A by : Heard(by) => Heard(by)') /\ \A p, v : Due(p, v)' <=> Due(p, v)
      BY <2>1 DEF Heard, Due
    <2>3. \A p \in Target : Awaited(p)
      BY <2>1 DEF DueInv, Awaited
    <2>4. ASSUME NEW p \in Target PROVE Awaited(p)'
      <3>1. CASE p # q \/ d # "meta"
        <4>1. mark'[p]["meta"] = mark[p]["meta"]
          BY <1>7, <3>1, MarkIs DEF Channel, Misses
        <4>2. <<p, "meta">> \in unread \cup gate.todo => <<p, "meta">> \in unread' \cup gate'.todo
          BY <1>7, <2>1, <3>1, LookKeeps DEF Channel
        <4> QED BY <1>1, <2>2, <2>3, <4>1, <4>2 DEF Awaited
      <3>2. CASE Misses(q, d) /\ p = q /\ d = "meta"
        BY <1>1, <2>2, <2>3, <3>2 DEF Awaited, Misses
      <3>3. CASE Sees(q, d) /\ p = q /\ d = "meta"
        <4> DEFINE r == tokens[p].report
        <4>1. CASE r = NoReport \/ ~r.new \/ <<r.by, "meta">> \in spoiled \/ Heard(r.by)
          BY <1>1, <2>2, <4>1 DEF Awaited
        <4>2. CASE r # NoReport /\ r.new /\ <<r.by, "meta">> \notin spoiled /\ ~Heard(r.by)
          <5>1. tokens[p].seq > mark[p]["meta"]
            BY <2>3, <4>2 DEF Awaited
          <5>2. ~gate.base
            BY <3>3, <4>2 DEF TakenInv, Pre, Sees, LooksAt
          <5>3. [look |-> <<p, "meta">>, report |-> r] \in gate'.fresh
            BY <3>3, <5>1, <5>2 DEF Sees, Count, Top
          <5>4. Heard(r.by)'
            BY <1>1, <5>3 DEF Heard
          <5> QED BY <1>1, <5>4 DEF Awaited
        <4> QED BY <4>1, <4>2
      <3> QED BY <1>7, <3>1, <3>2, <3>3
    <2>5. \A p \in Target : p \in ended \ early => gate'.gone # NoPane \/ Due(p, "gone")'
      BY <2>1, <2>2 DEF DueInv
    <2> QED BY <1>1, <2>1, <2>4, <2>5 DEF DueInv, Awaited
  <1> QED BY <1>2, <1>3, <1>4, <1>5, <1>6, <1>7 DEF GateKinds

\* A number nobody else of the pane has, or had before, is higher than the gate's mark.
LEMMA NumberIsNews ==
  ASSUME TypeOK, CopyInv, NumberInv, NEW w \in Writer, Attaches(w), Of[w] \in Target,
         <<w, "meta">> \notin spoiled'
  PROVE  writer[w].seq > mark[Of[w]]["meta"]
  <1> DEFINE p == Of[w]
             m == mark[p]["meta"]
             others == {writer[v].seq : v \in {u \in Writer \ {w} : Of[u] = p}}
             taken == others \cup (IF p \in Answered THEN {1} ELSE {})
  <1>1. /\ writer[w].at = "deliver" /\ writer[w].seq > 0 /\ writer[w].seq \in Nat /\ m \in Nat
        /\ \A n \in taken : ~(n >= writer[w].seq)
    BY SMTT(30) DEF Attaches, CopyInv, TypeOK, Channel
  <1>2. Numbered(p, m)
    BY DEF NumberInv
  <1> HIDE DEF m
  <1>3. CASE m = 0
    BY <1>1, <1>3 DEF m
  <1>4. CASE p \in Answered /\ m = 1
    <2>1. ~(1 >= writer[w].seq)
      BY <1>1, <1>4
    <2> QED BY <1>1, <1>4, <2>1 DEF m
  <1>5. ASSUME NEW v \in Writer, Of[v] = p, writer[v].seq = m,
               writer[v].at \in {"confirm", "delivered", "failed", "told"}
        PROVE  writer[w].seq > m
    <2>1. v # w
      BY <1>1, <1>5
    <2>2. m \in taken
      BY <1>5, <2>1
    <2> QED BY <1>1, <2>2
  <1> QED BY <1>2, <1>3, <1>4, <1>5 DEF Numbered, m

LEMMA ReportDue ==
  ASSUME TypeOK, CopyInv, NumberInv, DueInv, NEW w \in Writer, ReportOnly,
         Shows(w) \/ Attaches(w) \/ UNCHANGED <<tokens, screen, spoiled, stream>>
  PROVE  DueInv'
  <1>1. /\ UNCHANGED <<closedWs, ended, early, gate, mark, judged, unread>>
        /\ (Subscribed' <=> Subscribed) /\ \A by : Heard(by)' <=> Heard(by)
    BY ReportKept DEF Subscribed, Heard
  <1>2. /\ \A p, v : Due(p, v) => Due(p, v)'
        /\ spoiled \subseteq spoiled'
    BY ReportStream
  <1>3. ASSUME NEW p \in Target, Subscribed PROVE Awaited(p)'
    <2>1. Awaited(p)
      BY <1>3 DEF DueInv, Awaited
    <2>2. CASE tokens'[p] = tokens[p]
      BY <1>1, <1>2, <2>1, <2>2 DEF Awaited
    <2>3. CASE tokens'[p] # tokens[p]
      <3>1. Attaches(w) /\ p = Of[w]
        BY <2>3, AttachedIs DEF Shows
      <3>2. tokens'[p].seq = writer[w].seq /\ tokens'[p].report.by = w
        BY <3>1, AttachedIs DEF Said
      <3>3. Due(p, "check")'
        <4>1. Emit(Frame("updated", p, WsOf[p])) /\ p \in Pane
          BY <3>1, AttachedIs DEF Attaches
        <4> QED BY <1>3, <4>1, VerdictIs, Emitted
      <3>4. <<w, "meta">> \notin spoiled' => tokens'[p].seq > mark[p]["meta"]
        BY <3>1, <3>2, NumberIsNews
      <3> QED BY <1>1, <3>2, <3>3, <3>4 DEF Awaited
    <2> QED BY <2>2, <2>3
  <1> QED BY <1>1, <1>2, <1>3 DEF DueInv, Awaited

LEMMA WorldDue ==
  ASSUME TypeOK, DueInv, WorldKinds PROVE DueInv'
  <1>1. /\ UNCHANGED <<gate, mark, judged, unread>>
        /\ (Subscribed' <=> Subscribed) /\ \A by : Heard(by)' <=> Heard(by)
    BY WorldKept DEF Subscribed, Heard
  <1>2. /\ \A p, v : Due(p, v) => Due(p, v)'
        /\ spoiled \subseteq spoiled'
    <2>1. CASE \/ UNCHANGED stream
               \/ \E q \in Pane : \/ Emit(Frame("updated", q, WsOf[q]))
                                  \/ Emit(Frame("status", q, WsOf[q]))
      BY <2>1, StreamIs DEF WorldKinds, Scrolls, Clearing, Stirs, Ends
    <2>2. CASE \E f \in Frames : Emit(f)
      BY <2>2, Emitted DEF WorldKinds, Scrolls, Clearing, Stirs, Ends
    <2> QED BY <2>1, <2>2 DEF WorldKinds, Scrolls, Clearing, Stirs, Ends
  <1>3. \A p \in Target : tokens'[p] = tokens[p] \/ tokens'[p].report = NoReport
    <2>1. CASE Clearing
      <3>1. PICK q \in Pane : tokens' = [tokens EXCEPT ![q] = [seq |-> 0, report |-> NoReport]]
        BY <2>1 DEF Clearing
      <3> QED BY <3>1, ClearedIs
    <2> QED BY <2>1 DEF WorldKinds, Scrolls, Stirs, Ends
  <1>4. ASSUME NEW p \in Target, Subscribed PROVE Awaited(p)'
    <2>1. Awaited(p)
      BY <1>4 DEF DueInv, Awaited
    <2> QED BY <1>1, <1>2, <1>3, <2>1 DEF Awaited
  <1>5. CASE UNCHANGED <<closedWs, ended, early>>
    BY <1>1, <1>2, <1>4, <1>5 DEF DueInv, Awaited
  <1>6. ASSUME NEW S \in SUBSET Pane, Ends(S) PROVE DueInv'
    <2>1. ASSUME gate.at \in {"resolve", "subscribe"}, NEW p \in ended' \ early'
          PROVE  WsOf[p] \in closedWs'
      <3>1. ~Subscribed
        BY <2>1 DEF Subscribed
      <3>2. CASE p \in ended \ early
        BY <1>6, <2>1, <3>2 DEF Ends, DueInv
      <3>3. CASE p \notin ended \ early
        <4>1. p \in S /\ closedWs' # closedWs
          BY <1>6, <2>1, <3>1, <3>3 DEF Ends
        <4> QED BY <1>6, <4>1 DEF Ends
      <3> QED BY <3>2, <3>3
    <2>2. ASSUME Subscribed, NEW p \in Target, p \in ended' \ early'
          PROVE  gate.gone # NoPane \/ Due(p, "gone")'
      <3>1. early' = early /\ (p \in ended \/ p \in S)
        BY <1>6, <2>2 DEF Ends
      <3>2. CASE p \in ended
        BY <1>2, <2>2, <3>1, <3>2 DEF DueInv
      <3>3. CASE p \in S
        <4>1. PICK f \in Frames : Emit(f) /\ Verdict(f, p) = "gone"
          BY <1>6, <3>3 DEF Ends
        <4> QED BY <2>2, <4>1, Emitted
      <3> QED BY <3>1, <3>2, <3>3
    <2> QED BY <1>1, <1>4, <2>1, <2>2 DEF DueInv, Awaited
  <1> QED BY <1>5, <1>6 DEF WorldKinds, Scrolls, Clearing, Stirs

LEMMA DueStep ==
  ASSUME TypeOK, ControlInv, CopyInv, TakenInv, NumberInv, DueInv, [Next]_vars PROVE DueInv'
  BY StepIs, GateDue, ReportDue, WorldDue

-----------------------------------------------------------------------------
(* Last words *)

\* What StayInv says of one of the last words of p.
Holds(p, said) ==
  /\ said[1] = "meta" => tokens[p].report = said[2]
  /\ said[1] = "term" =>
       /\ p \in Target /\ ~MetadataOnly
       /\ screen[p] # <<>> /\ screen[p][Len(screen[p])].by = said[2].by
       /\ Subscribed => Heard(said[2].by) \/ Len(screen[p]) > mark[p]["term"]

LEMMA SaidIs ==
  ASSUME TypeOK, NEW p \in Pane, NEW said \in lastWords[p]
  PROVE  said[1] \in Channel /\ said[2] \in Reports \cup {NoReport} /\ said = <<said[1], said[2]>>
  BY DEF TypeOK

\* What has been heard is heard as long as the gate looks or waits.
LEMMA HeardStays ==
  ASSUME ControlInv, GateKinds, Subscribed, Subscribed'
  PROVE  \A by : Heard(by) => Heard(by)'
  <1>1. CASE Left \/ Resolved \/ Opens
    BY <1>1 DEF Left, Resolved, Opens, Subscribed
  <1>2. CASE BaseTaken \/ Waits
    BY <1>2 DEF BaseTaken, Waits, Stayed, Heard, ControlInv
  <1>3. CASE \E g \in Target \cup {NoPane} : Reads(g)
    BY <1>3 DEF Reads, Heard
  <1>4. CASE \E p \in Target, c \in Channel : Sees(p, c) \/ Misses(p, c)
    BY <1>4 DEF Sees, Misses, LooksAt, Heard
  <1> QED BY <1>1, <1>2, <1>3, <1>4 DEF GateKinds

LEMMA GateStays ==
  ASSUME TypeOK, ControlInv, CopyInv, TakenInv, StayInv, GateKinds PROVE StayInv'
  <1>1. UNCHANGED <<tokens, screen, lastWords, spoiled>>
    BY GateKept
  <1>2. ASSUME NEW p \in Pane, NEW said \in lastWords[p], News(said) PROVE Holds(p, said)'
    <2>1. Holds(p, said)
      BY <1>2 DEF StayInv, Holds
    <2>2. CASE said[1] # "term"
      BY <1>1, <2>1, <2>2 DEF Holds
    <2>3. CASE said[1] = "term"
      <3>1. /\ p \in Target /\ ~MetadataOnly /\ screen[p] # <<>>
            /\ screen[p][Len(screen[p])].by = said[2].by
            /\ Subscribed => Heard(said[2].by) \/ Len(screen[p]) > mark[p]["term"]
        BY <2>1, <2>3 DEF Holds
      <3>2. ~Pre(p, "term")
        BY <1>2, <2>3, <3>1 DEF TakenInv, News
      <3>3. ASSUME Subscribed' PROVE Heard(said[2].by)' \/ Len(screen[p]) > mark'[p]["term"]
        <4>1. Subscribed
          BY <3>2, <3>3 DEF GateKinds, Left, Resolved, Opens, BaseTaken, Waits, Reads, Sees, Misses,
                           LooksAt, Subscribed, Pre
        <4>2. CASE Heard(said[2].by)
          BY <3>3, <4>1, <4>2, HeardStays
        <4>3. CASE mark'[p]["term"] = mark[p]["term"] /\ ~Heard(said[2].by)
          BY <3>1, <4>1, <4>3
        <4>4. CASE mark'[p]["term"] # mark[p]["term"] /\ ~Heard(said[2].by)
          <5>1. PICK q \in Target, d \in Channel : Sees(q, d)
            BY <4>4, MarkKept
          <5>2. q = p /\ d = "term"
            <6>1. "term" \in Channel
              BY DEF Channel
            <6>2. \A x \in Target, e \in Channel : x # q \/ e # d => mark'[x][e] = mark[x][e]
              BY <5>1, MarkIs
            <6> QED BY <3>1, <4>4, <6>1, <6>2
          <5>3. ~gate.base
            BY <3>2, <5>1, <5>2 DEF Sees, LooksAt, Pre
          <5>4. Len(screen[p]) > mark[p]["term"]
            BY <3>1, <4>1, <4>4
          <5>5. [look |-> <<p, "term">>, report |-> screen[p][Len(screen[p])]] \in gate'.fresh
            BY <3>1, <5>1, <5>2, <5>3, <5>4 DEF Sees, Count, Top
          <5>6. \E f \in gate'.fresh : f.report.by = said[2].by
            BY <3>1, <5>5
          <5> QED BY <5>6 DEF Heard
        <4> QED BY <4>2, <4>3, <4>4
      <3> QED BY <1>1, <2>3, <3>1, <3>3 DEF Holds
    <2> QED BY <2>2, <2>3
  <1> QED BY <1>1, <1>2 DEF StayInv, Holds, News

LEMMA ReportStays ==
  ASSUME TypeOK, CopyInv, EndedInv, StayInv, NEW w \in Writer, ReportOnly,
         Shows(w) \/ Attaches(w) \/ UNCHANGED <<tokens, screen, spoiled, stream>>
  PROVE  StayInv'
  <1>1. /\ UNCHANGED <<lastWords, ended, mark>> /\ spoiled \subseteq spoiled'
        /\ (Subscribed' <=> Subscribed) /\ \A by : Heard(by)' <=> Heard(by)
    BY ReportKept, ReportStream DEF Subscribed, Heard
  <1>2. ASSUME NEW p \in Pane, NEW said \in lastWords[p], News(said)' PROVE Holds(p, said)'
    <2>1. News(said) /\ Holds(p, said) /\ p \in ended
      BY <1>1, <1>2 DEF News, StayInv, Holds, EndedInv
    <2>2. CASE tokens'[p] = tokens[p] /\ screen'[p] = screen[p]
      BY <1>1, <2>1, <2>2 DEF Holds
    <2>3. CASE Attaches(w) /\ tokens'[p] # tokens[p]
      <3>1. p = Of[w] /\ UNCHANGED screen
        BY <2>3, AttachedIs
      <3>2. said[1] # "meta"
        <4>1. SUFFICES ASSUME said[1] = "meta" PROVE FALSE
          OBVIOUS
        <4>2. tokens[p].report = said[2] /\ said[2] # NoReport
          BY <2>1, <4>1 DEF Holds, News
        <4>3. <<tokens[p].report.by, "meta">> \in spoiled'
          BY <2>1, <2>3, <3>1, <4>2 DEF Attaches
        <4> QED BY <1>2, <4>1, <4>2, <4>3 DEF News
      <3> QED BY <1>1, <2>1, <3>1, <3>2 DEF Holds
    <2>4. CASE Shows(w) /\ screen'[p] # screen[p]
      <3>1. p = Of[w] /\ UNCHANGED tokens
        BY <2>4, ShowsIs DEF Shows
      <3>2. CASE said[1] # "term"
        BY <2>1, <3>1, <3>2 DEF Holds
      <3>3. CASE said[1] = "term"
        <4> DEFINE last == screen[p][Len(screen[p])]
                   top == screen'[p][Len(screen'[p])]
        <4>1. /\ p \in Target /\ ~MetadataOnly /\ screen[p] # <<>> /\ last.by = said[2].by
              /\ Subscribed => Heard(said[2].by) \/ Len(screen[p]) > mark[p]["term"]
          BY <2>1, <3>3 DEF Holds
        <4>2. last.by = w
          <5>1. last.by # w => <<last.by, "term">> \in spoiled'
            BY <2>1, <2>4, <3>1, <4>1, CoveredIs DEF Shows
          <5> QED BY <1>2, <3>3, <4>1, <5>1 DEF News
        <4>3. screen'[p] # <<>> /\ top.by = w /\ Len(screen'[p]) >= Len(screen[p])
          BY <2>4, <3>1, ShowsIs DEF Said
        <4>4. Subscribed => Heard(said[2].by) \/ Len(screen'[p]) > mark[p]["term"]
          <5>1. Len(screen'[p]) \in Nat /\ Len(screen[p]) \in Nat /\ mark[p]["term"] \in Nat
            <6>1. screen' \in [Pane -> Seq(Reports)]
              <7>1. PICK r \in Reports : screen' = Printed(Of[w], r)
                BY <2>4 DEF Shows
              <7> QED BY <3>1, <7>1, PrintedIs
            <6>2. screen'[p] \in Seq(Reports) /\ screen[p] \in Seq(Reports)
              BY <6>1 DEF TypeOK
            <6>3. mark[p]["term"] \in Nat
              BY <4>1 DEF TypeOK, Channel
            <6> QED BY <6>2, <6>3
          <5> QED BY <4>1, <4>3, <5>1
        <4> QED BY <1>1, <3>3, <4>1, <4>2, <4>3, <4>4 DEF Holds
      <3> QED BY <3>2, <3>3
    <2>5. (Attaches(w) => UNCHANGED screen) /\ (Shows(w) => UNCHANGED tokens)
      BY AttachedIs DEF Shows
    <2> QED BY <2>2, <2>3, <2>4, <2>5
  <1> QED BY <1>1, <1>2 DEF StayInv, Holds, News

LEMMA WorldStays ==
  ASSUME TypeOK, CopyInv, EndedInv, StayInv, WorldKinds PROVE StayInv'
  <1>1. /\ UNCHANGED <<gate, mark, judged>>
        /\ (Subscribed' <=> Subscribed) /\ \A by : Heard(by)' <=> Heard(by)
    BY WorldKept DEF Subscribed, Heard
  <1>2. spoiled \subseteq spoiled'
    BY DEF WorldKinds, Scrolls, Clearing, Stirs, Ends
  <1>3. ASSUME NEW p \in Pane, NEW said \in lastWords[p], News(said)' PROVE Holds(p, said)'
    <2>1. News(said) /\ Holds(p, said) /\ said[2] \in Reports
      BY <1>2, <1>3, SaidIs DEF News, StayInv, Holds
    <2>2. CASE tokens'[p] = tokens[p] /\ screen'[p] = screen[p]
      BY <1>1, <2>1, <2>2 DEF Holds
    <2>3. CASE Scrolls /\ screen'[p] # screen[p]
      <3>1. PICK q \in Pane :
              /\ screen[q] # <<>> /\ screen' = [screen EXCEPT ![q] = Tail(@)]
              /\ spoiled' = spoiled \cup {<<screen[q][i].by, "term">> : i \in DOMAIN screen[q]}
        BY <2>3 DEF Scrolls
      <3>2. p = q /\ UNCHANGED tokens
        BY <2>3, <3>1, ScrolledIs DEF Scrolls
      <3>3. said[1] # "term"
        <4>1. SUFFICES ASSUME said[1] = "term" PROVE FALSE
          OBVIOUS
        <4>2. screen[p] # <<>> /\ screen[p][Len(screen[p])].by = said[2].by
          BY <2>1, <4>1 DEF Holds
        <4>3. Len(screen[p]) \in DOMAIN screen[p]
          <5>1. screen[p] \in Seq(Reports)
            BY DEF TypeOK
          <5> QED BY <4>2, <5>1
        <4>4. <<said[2].by, "term">> \in spoiled'
          BY <3>1, <3>2, <4>2, <4>3
        <4> QED BY <1>3, <4>1, <4>4 DEF News
      <3> QED BY <2>1, <3>2, <3>3 DEF Holds
    <2>4. CASE Clearing /\ tokens'[p] # tokens[p]
      <3>1. PICK q \in Pane :
              /\ tokens' = [tokens EXCEPT ![q] = [seq |-> 0, report |-> NoReport]]
              /\ spoiled' = spoiled \cup {<<tokens[q].report.by, "meta">>}
        BY <2>4 DEF Clearing
      <3>2. p = q /\ UNCHANGED screen
        BY <2>4, <3>1, ClearedIs DEF Clearing
      <3>3. said[1] # "meta"
        BY <1>3, <2>1, <3>1, <3>2 DEF Holds, News
      <3> QED BY <1>1, <2>1, <3>2, <3>3 DEF Holds
    <2>5. \/ UNCHANGED <<tokens, screen>>
          \/ Scrolls /\ UNCHANGED tokens
          \/ Clearing /\ UNCHANGED screen
      BY DEF WorldKinds, Scrolls, Clearing, Stirs, Ends
    <2> QED BY <2>2, <2>3, <2>4, <2>5
  <1>4. CASE UNCHANGED lastWords
    BY <1>3, <1>4 DEF StayInv, Holds, News
  <1>5. ASSUME NEW S \in SUBSET Pane, Ends(S) PROVE StayInv'
    <2>1. ASSUME NEW p \in Pane, NEW said \in lastWords'[p], News(said)' PROVE Holds(p, said)'
      <3>1. CASE said \in lastWords[p]
        BY <1>3, <2>1, <3>1
      <3>2. CASE said \notin lastWords[p]
        <4>1. said \in Shown(p) /\ UNCHANGED <<tokens, screen>>
          BY <1>5, <2>1, <3>2 DEF Ends
        <4>2. \/ said = <<"meta", tokens[p].report>>
              \/ /\ said = <<"term", screen[p][Len(screen[p])]>> /\ screen[p] # <<>>
                 /\ p \in Target /\ ~MetadataOnly /\ Len(screen[p]) > mark[p]["term"]
          BY <4>1, ShownIs
        <4> QED BY <1>1, <4>1, <4>2 DEF Holds
      <3> QED BY <3>1, <3>2
    <2> QED BY <2>1 DEF StayInv, Holds, News
  <1> QED BY <1>4, <1>5 DEF WorldKinds, Scrolls, Clearing, Stirs

LEMMA StayStep ==
  ASSUME TypeOK, ControlInv, CopyInv, TakenInv, EndedInv, StayInv, [Next]_vars PROVE StayInv'
  BY StepIs, GateStays, ReportStays, WorldStays

\* A report that satisfies is not heard unless a report that satisfies is in hand.
LEMMA HeardIs ==
  ASSUME TypeOK, CopyInv, FreshInv, NEW r \in Reports, Genuine(r), r.new, Satisfies(r), Heard(r.by),
         gate.at = "look"
  PROVE  \E f \in gate.fresh : Satisfies(f.report)
  <1>1. r.by \in Writer
    BY DEF Genuine, Reports
  <1>2. writer[r.by].report.status = r.status /\ writer[r.by].report.pr = r.pr
    BY <1>1 DEF Genuine
  <1>3. r.by \notin judged
    BY <1>1, <1>2, SatisfiesAlike DEF FreshInv
  <1>4. PICK f \in gate.fresh : f.report.by = r.by
    BY <1>3 DEF Heard
  <1>5. f.report.status = r.status /\ f.report.pr = r.pr
    BY <1>1, <1>2, <1>4 DEF CopyInv, Genuine
  <1> QED BY <1>4, <1>5, SatisfiesAlike

LEMMA LookStep ==
  ASSUME TypeOK, ControlInv, CopyInv, TakenInv, FreshInv, DueInv, EndedInv, StayInv, LookInv, [Next]_vars
  PROVE  LookInv'
  <1> DEFINE Sought(said) == News(said) /\ Satisfies(said[2])
  <1>1. CASE GateKinds
    <2>1. UNCHANGED <<tokens, screen, lastWords, spoiled>>
      BY <1>1, GateKept
    <2>2. CASE gate'.gone = NoPane
      BY <2>2 DEF LookInv
    <2>3. ASSUME NEW g \in Target, Reads(g) PROVE LookInv'
      <3>1. gate'.gone = g /\ gate'.todo = Hit(Head(stream)) \X Channel /\ Verdict(Head(stream), g) = "gone"
        BY <2>3 DEF Reads
      <3>2. g \in Hit(Head(stream))
        BY <3>1 DEF Hit
      <3>3. \A said \in lastWords[g] : <<g, said[1]>> \in gate'.todo
        BY <3>1, <3>2, SaidIs
      <3> QED BY <2>1, <3>1, <3>3 DEF LookInv
    <2>4. ASSUME NEW q \in Target, NEW d \in Channel, Sees(q, d) \/ Misses(q, d), gate'.gone # NoPane
          PROVE  LookInv'
      <3> DEFINE g == gate.gone
      <3>1. /\ gate.at = "look" /\ Subscribed /\ gate'.gone = g /\ g \in Target /\ ~gate.base
            /\ gate.fresh \subseteq gate'.fresh /\ unread \subseteq unread'
            /\ <<q, d>> \in gate.todo /\ gate'.todo = gate.todo \ {<<q, d>>}
        BY <2>4 DEF Sees, Misses, LooksAt, Subscribed, ControlInv, TypeOK
      <3> HIDE DEF g
      <3>2. ASSUME NEW said \in lastWords[g], News(said), Satisfies(said[2]), <<g, said[1]>> \notin unread'
            PROVE  <<g, said[1]>> \in gate'.todo \/ \E f \in gate'.fresh : Satisfies(f.report)
        <4>1. said[1] \in Channel /\ said[2] \in Reports /\ g \in Pane
          BY <3>1, <3>2, SaidIs DEF News
        <4>2. <<g, said[1]>> \in gate.todo \/ \E f \in gate.fresh : Satisfies(f.report)
          BY <3>1, <3>2 DEF LookInv, g
        <4>3. CASE \E f \in gate.fresh : Satisfies(f.report)
          BY <3>1, <4>3
        <4>4. CASE <<g, said[1]>> \in gate.todo /\ <<g, said[1]>> # <<q, d>>
          BY <3>1, <4>4
        <4>5. CASE <<g, said[1]>> = <<q, d>>
          <5>1. q = g /\ d = said[1]
            BY <4>5
          <5>2. Sees(g, said[1])
            BY <2>4, <3>2, <5>1 DEF Misses
          <5>3. Genuine(said[2])
            BY <3>2, <4>1 DEF CopyInv, News
          <5>4. CASE Heard(said[2].by)
            BY <3>1, <3>2, <4>1, <5>3, <5>4, HeardIs DEF News
          <5>5. CASE ~Heard(said[2].by)
            <6>1. Count(g, said[1]) > mark[g][said[1]] /\ Satisfies(Top(g, said[1]))
              <7>1. CASE said[1] = "meta"
                <8>1. tokens[g].report = said[2]
                  BY <3>2, <4>1, <7>1 DEF StayInv
                <8>2. tokens[g].seq > mark[g]["meta"]
                  BY <3>1, <3>2, <5>5, <7>1, <8>1 DEF DueInv, News
                <8> QED BY <3>2, <7>1, <8>1, <8>2 DEF Count, Top
              <7>2. CASE said[1] = "term"
                <8>1. /\ screen[g] # <<>> /\ screen[g][Len(screen[g])].by = said[2].by
                      /\ Len(screen[g]) > mark[g]["term"]
                  BY <3>1, <3>2, <4>1, <5>5, <7>2 DEF StayInv
                <8>2. Genuine(screen[g][Len(screen[g])])
                  <9>1. Len(screen[g]) \in DOMAIN screen[g]
                    <10>1. screen[g] \in Seq(Reports)
                      BY <4>1 DEF TypeOK
                    <10> QED BY <8>1, <10>1
                  <9> QED BY <4>1, <9>1 DEF CopyInv
                <8>3. said[2].by # Earlier
                  BY <3>2, <5>3 DEF Genuine, News
                <8>4. /\ screen[g][Len(screen[g])].status = said[2].status
                      /\ screen[g][Len(screen[g])].pr = said[2].pr
                  BY <5>3, <8>1, <8>2, <8>3 DEF Genuine
                <8>5. Satisfies(screen[g][Len(screen[g])])
                  BY <3>2, <8>4, SatisfiesAlike
                <8> QED BY <7>2, <8>1, <8>5 DEF Count, Top
              <7> QED BY <4>1, <7>1, <7>2 DEF Channel
            <6>2. ~(said[1] = "term" /\ MetadataOnly)
              BY <3>2, <4>1 DEF StayInv
            <6>3. [look |-> <<g, said[1]>>, report |-> Top(g, said[1])] \in gate'.fresh
              BY <3>1, <5>2, <6>1, <6>2 DEF Sees
            <6> QED BY <6>1, <6>3
          <5> QED BY <5>4, <5>5
        <4> QED BY <4>2, <4>3, <4>4, <4>5
      <3> QED BY <2>1, <3>1, <3>2 DEF LookInv, News, Satisfies
    <2>5. ASSUME NEW g \in Target \cup {NoPane}, Reads(g), gate'.gone # NoPane PROVE g \in Target
      BY <2>5 DEF Reads
    <2> QED BY <1>1, <2>2, <2>3, <2>4, <2>5
         DEF GateKinds, Left, Resolved, Opens, BaseTaken, Waits, Stayed, ControlInv
  <1>2. ASSUME UNCHANGED <<gate, unread>>, spoiled \subseteq spoiled',
               gate.gone # NoPane => lastWords'[gate.gone] = lastWords[gate.gone]
        PROVE  LookInv'
    BY <1>2 DEF LookInv, News, Satisfies
  <1>3. ASSUME NEW w \in Writer, ReportOnly,
               Shows(w) \/ Attaches(w) \/ UNCHANGED <<tokens, screen, spoiled, stream>>
        PROVE  LookInv'
    BY <1>2, <1>3, ReportKept, ReportStream
  <1>4. CASE WorldKinds
    <2>1. UNCHANGED <<gate, unread>>
      BY <1>4, WorldKept
    <2>2. spoiled \subseteq spoiled'
      BY <1>4 DEF WorldKinds, Scrolls, Clearing, Stirs, Ends
    <2>3. gate.gone # NoPane => gate.gone \in ended /\ gate.gone \in Pane
      BY DEF EndedInv, TypeOK
    <2>4. gate.gone # NoPane => lastWords'[gate.gone] = lastWords[gate.gone]
      BY <1>4, <2>3 DEF WorldKinds, Scrolls, Clearing, Stirs, Ends
    <2> QED BY <1>2, <2>1, <2>2, <2>4
  <1> QED BY <1>1, <1>3, <1>4, StepIs

-----------------------------------------------------------------------------
(* What the gate ends with *)

LEMMA StaleStep ==
  ASSUME TypeOK, ControlInv, CopyInv, FreshInv, NotStale, [Next]_vars PROVE NotStale'
  <1>1. CASE UNCHANGED outcome /\ blind \subseteq blind'
    BY <1>1 DEF NotStale
  <1>2. CASE Left
    <2>1. CASE outcome'.report = outcome.report /\ outcome'.about = outcome.about
      BY <1>2, <2>1 DEF NotStale, Left
    <2>2. ASSUME NEW f \in gate.fresh, outcome'.report = f.report, outcome'.about = f.look[1]
          PROVE  NotStale'
      <3>1. f.look = <<f.look[1], f.look[2]>> /\ f.look[2] \in Channel
        BY SMTT(30) DEF TypeOK
      <3>2. f.report.new \/ <<f.look[1], f.look[2]>> \in blind
        BY <3>1 DEF FreshInv
      <3> QED BY <1>2, <2>2, <3>1, <3>2 DEF NotStale, Left
    <2> QED BY <1>2, <2>1, <2>2 DEF Left, NotStale
  <1> QED BY <1>1, <1>2, StepIs, ReportKept, WorldKept
       DEF GateKinds, Resolved, Opens, BaseTaken, Waits, Stayed, Reads, Sees, Misses, LooksAt

LEMMA HeardStep ==
  ASSUME TypeOK, ControlInv, CopyInv, EndedInv, LookInv, HeardBeforeLost, [Next]_vars
  PROVE  HeardBeforeLost'
  <1>1. CASE Left
    <2>1. UNCHANGED <<lastWords, spoiled, ended, unread>>
      BY <1>1 DEF Left, GateOnly, paneVars, reportVars
    <2>2. SUFFICES ASSUME outcome'.kind = "gone" PROVE HeardBeforeLost'
      BY DEF HeardBeforeLost
    <2>3. /\ gate.todo = {} /\ Releasing = {} /\ outcome'.about = gate.gone /\ gate.gone # NoPane
      BY <1>1, <2>2 DEF Left
    <2>4. gate.gone \in ended
      BY <2>3 DEF EndedInv
    <2>5. ASSUME NEW said \in lastWords[gate.gone], said[2] # NoReport, said[2].new, Satisfies(said[2]),
                 <<said[2].by, said[1]>> \notin spoiled
          PROVE  <<gate.gone, said[1]>> \in unread
      BY <2>3, <2>5 DEF LookInv, News, Releasing
    <2> QED BY <2>1, <2>2, <2>3, <2>4, <2>5 DEF HeardBeforeLost, Satisfies
  <1>2. CASE /\ UNCHANGED outcome /\ unread \subseteq unread' /\ spoiled \subseteq spoiled'
             /\ ended \subseteq ended'
             /\ \A p \in ended : lastWords'[p] = lastWords[p]
    BY <1>2 DEF HeardBeforeLost, Satisfies
  <1>3. CASE GateKinds /\ ~Left
    <2>1. UNCHANGED <<lastWords, spoiled, ended>>
      BY <1>3, GateKept
    <2>2. UNCHANGED outcome /\ unread \subseteq unread'
      BY <1>3 DEF GateKinds, Resolved, Opens, BaseTaken, Waits, Stayed, Reads, Sees, Misses, LooksAt
    <2> QED BY <1>2, <2>1, <2>2
  <1>4. ASSUME NEW w \in Writer, ReportOnly,
               Shows(w) \/ Attaches(w) \/ UNCHANGED <<tokens, screen, spoiled, stream>>
        PROVE  HeardBeforeLost'
    BY <1>2, <1>4, ReportKept, ReportStream
  <1>5. CASE WorldKinds
    <2>1. UNCHANGED <<outcome, unread>>
      BY <1>5, WorldKept
    <2>2. spoiled \subseteq spoiled' /\ ended \subseteq ended'
      BY <1>5 DEF WorldKinds, Scrolls, Clearing, Stirs, Ends
    <2>3. \A p \in ended : lastWords'[p] = lastWords[p]
      <3>1. ended \subseteq Pane
        BY DEF TypeOK
      <3> QED BY <1>5, <3>1 DEF WorldKinds, Scrolls, Clearing, Stirs, Ends
    <2> QED BY <1>2, <2>1, <2>2, <2>3
  <1> QED BY <1>1, <1>3, <1>4, <1>5, StepIs

LEMMA InitIInv == Init => IInv
  <1> SUFFICES ASSUME Init PROVE IInv
    OBVIOUS
  <1>1. /\ Old \in Reports /\ Old.by = Earlier /\ ~Old.new /\ Old # NoReport
    <2>1. "done" \in Statuses
      BY DEF Statuses
    <2>2. Old \in Reports /\ Old.by = Earlier /\ Old.new = FALSE
      BY <2>1 DEF Old, Report, Reports
    <2> QED BY <2>2, TargetAssumption
  <1>2. /\ \A p \in Pane : tokens[p] = IF p \in Answered THEN [seq |-> 1, report |-> Old]
                                                          ELSE [seq |-> 0, report |-> NoReport]
        /\ \A p \in Pane : screen[p] = IF p \in Answered THEN <<Old, Old>> ELSE <<>>
        /\ \A w \in Writer : writer[w] = [at |-> "idle", report |-> NoReport, seq |-> 0]
        /\ gate = [at |-> "resolve", todo |-> {}, base |-> TRUE, fresh |-> {}, gone |-> NoPane]
        /\ \A p \in Target : \A c \in Channel : mark[p][c] = 0
        /\ \A p \in Pane : lastWords[p] = {}
        /\ outcome = NoOutcome /\ stream = <<>> /\ closedWs = {} /\ ended = {} /\ early = {}
        /\ judged = {} /\ spoiled = {} /\ unread = {} /\ blind = {}
    BY DEF Init
  <1>3. TypeOK
    <2>1. <<Old, Old>> \in Seq(Reports) /\ <<>> \in Seq(Reports) /\ <<>> \in Seq(Frames)
      BY <1>1
    <2>2. screen \in [Pane -> Seq(Reports)]
      BY <2>1 DEF Init
    <2>3. tokens \in [Pane -> [seq : Nat, report : Reports \cup {NoReport}]]
      BY <1>1 DEF Init
    <2>4. /\ pane \in [Pane -> {"open", "exited", "closed"}] /\ version \in [Pane -> Nat]
          /\ mark \in [Target -> [Channel -> Nat]] /\ events \in 0..MaxEvents
          /\ lastWords \in [Pane -> SUBSET (Channel \X (Reports \cup {NoReport}))]
      BY OptionAssumption DEF Init
    <2>5. writer \in [Writer -> [at : {"idle", "number", "deliver", "confirm", "delivered", "failed", "told"},
                                 report : Reports \cup {NoReport}, seq : Nat]]
      BY DEF Init
    <2>6. outcome \in [kind : {"none", "verifying", "released", "blocked", "gone", "moved", "timeout", "error"},
                       about : Target \cup {NoPane}, report : Reports \cup {NoReport}]
      BY <1>2 DEF NoOutcome
    <2>7. gate \in [at : {"resolve", "subscribe", "look", "next", "verify", "over"},
                    todo : SUBSET (Target \X Channel), base : BOOLEAN,
                    fresh : SUBSET [look : Target \X Channel, report : Reports],
                    gone : Target \cup {NoPane}]
      BY <1>2
    <2> QED BY <1>2, <2>1, <2>2, <2>3, <2>4, <2>5, <2>6, <2>7 DEF TypeOK
  <1>4. ~Subscribed /\ \A p, c : Pre(p, c)
    BY <1>2 DEF Subscribed, Pre
  <1>5. ControlInv
    BY <1>2 DEF ControlInv, NoOutcome
  <1>6. \A p \in Pane : \A i \in DOMAIN screen[p] : screen[p][i] = Old
    BY <1>2
  <1>7. CopyInv
    BY <1>1, <1>2, <1>6 DEF CopyInv, Genuine
  <1>8. TakenInv
    BY <1>1, <1>2, <1>6 DEF TakenInv
  <1>9. NumberInv
    BY <1>2 DEF NumberInv, Numbered, Channel
  <1>10. OldInv /\ FreshInv
    BY <1>2, <1>4 DEF OldInv, FreshInv
  <1>11. DueInv /\ EndedInv /\ StayInv /\ LookInv
    BY <1>2, <1>4 DEF DueInv, EndedInv, StayInv, LookInv, Due, NoOutcome
  <1>12. NotStale /\ HeardBeforeLost
    BY <1>2 DEF NotStale, HeardBeforeLost, NoOutcome
  <1> QED BY <1>3, <1>5, <1>7, <1>8, <1>9, <1>10, <1>11, <1>12 DEF IInv

LEMMA NextIInv == IInv /\ [Next]_vars => IInv'
  BY TypeStep, ControlStep, CopyStep, TakenStep, NumberStep, OldStep, FreshStep, DueStep, EndedStep,
     StayStep, LookStep, StaleStep, HeardStep DEF IInv

-----------------------------------------------------------------------------
(* Theorems *)

\* The inductive invariant, which the others follow from.
THEOREM Invariant == Spec => []IInv
  BY InitIInv, NextIInv, PTL DEF Spec

\* No gate ends on an earlier task's answer unless it could not read the baseline of
\* one of that pane's channels (advance): counts may fall and rise, and numbers be
\* taken twice, as they like.
THEOREM EndsOnNews == Spec => []NotStale
  BY Invariant, PTL DEF IInv

\* A gate that waits with no frame due has weighed what its workers' metadata shows,
\* and has no worker dead behind it, but for what NoSleepOnNews lists.
THEOREM NeverSleepsOnNews == Spec => []NoSleepOnNews
  <1>1. IInv => NoSleepOnNews
    <2> SUFFICES ASSUME IInv, gate.at = "next", stream = <<>> PROVE
          /\ Target \cap ended \subseteq early
          /\ \A p \in Target :
               LET shown == tokens[p].report
               IN  \/ shown = NoReport
                   \/ ~shown.new
                   \/ shown.by \in judged
                   \/ <<shown.by, "meta">> \in spoiled
                   \/ <<p, "meta">> \in unread
      BY DEF NoSleepOnNews
    <2>1. Subscribed /\ gate.todo = {} /\ gate.fresh = {} /\ gate.gone = NoPane
      BY DEF IInv, ControlInv, Subscribed
    <2>2. \A p, v : ~Due(p, v)
      BY DEF Due
    <2> QED BY <2>1, <2>2 DEF IInv, DueInv, Heard
  <1> QED BY <1>1, Invariant, PTL

\* A gate that calls a worker gone names one that ended, and missed no report of it that
\* would have released the wait, but for what HeardBeforeLost lists.
THEOREM HearsFirst == Spec => []HeardBeforeLost
  BY Invariant, PTL DEF IInv

=============================================================================
