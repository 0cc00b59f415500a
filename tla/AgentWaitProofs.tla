--------------------------- MODULE AgentWaitProofs ---------------------------
(***************************************************************************)
(* That what a waiting client is told is true, for any size of the ring    *)
(* and any number of turns of the application.  The invariant says of      *)
(* every event the thread may still read what it proves about the agent    *)
(* since the request, and of what the thread has kept in hand how far it   *)
(* may be out of date.                                                     *)
(***************************************************************************)
EXTENDS AgentWait, SequenceTheorems, WellFoundedInduction, TLAPS

-----------------------------------------------------------------------------
(* The invariant *)

PaneIds == {0, 1, 2, 9}
MaybeStatus == Statuses \cup {NoStatus}
MaybeTerminal == Terminals \cup {Nobody}
EventKinds == {"status", "released", "detected", "moved", "gone", "updated"}
EventType ==
  [pane : PaneIds, kind : EventKinds, label : Labels, status : MaybeStatus]
Numbered == [seq : Nat, event : EventType]
HubType == [next : Nat, events : Seq(Numbered)]
PaneType ==
  [id : 0 .. 2, label : Labels, state : States, seen : BOOLEAN, change : Nat,
   managed : BOOLEAN, alias : BOOLEAN, argv : BOOLEAN,
   process : {"live", "none"}]
InfoType ==
  [terminal : MaybeTerminal, pane : PaneIds, named : BOOLEAN, label : Labels,
   status : MaybeStatus, change : Nat]
PhaseNames ==
  {"new", "resolve", "prompt", "loop", "probe", "dead", "check", "snap",
   "snapped", "done"}
ThreadType ==
  [phase : PhaseNames, stage : {"final", "effect"}, from : Nat, last : Nat,
   agent : InfoType, first : MaybeTerminal, base : Nat, gated : BOOLEAN,
   matched : MaybeStatus, expired : BOOLEAN, shown : MaybeStatus,
   offer : BOOLEAN]
HistType ==
  [held : SUBSET Statuses, lost : BOOLEAN, unmet : BOOLEAN, effect : BOOLEAN,
   released : BOOLEAN, dropped : BOOLEAN]

\* The ring keeps to its size, and its events are numbered without a gap.
Ring(h) ==
  /\ h \in HubType /\ Len(h.events) <= RingSize
  /\ \A i \in 1 .. Len(h.events) :
       h.events[i].seq = h.next - Len(h.events) + i

AppTypes ==
  /\ Ring(hub) /\ pane \in PaneType /\ change \in Nat /\ pane.change <= change
  /\ holder \in MaybeTerminal /\ (pane.alias => holder # "mine")
ThreadTypes ==
  /\ req \in Requests /\ w \in ThreadType /\ hist \in HistType
  /\ w.from <= w.last /\ w.last <= hub.next
  /\ w.phase # "done" => answer = NoAnswer

\* The request is being worked on.
Active == w.phase \notin {"new", "done"}

\* The events the thread may still read are about what happened since the
\* request: a status the agent had, or a loss of it.
TrueEvents ==
  {e \in EventType :
     /\ e.kind = "status" => e.status \in hist.held
     /\ e.kind \in {"released", "moved", "gone", "detected"} => hist.lost
     /\ e.kind = "released" => hist.released /\ e.status \in hist.held
     /\ e.pane = 9 => e.kind = "updated"}
Told(h, n, E) ==
  \A i \in 1 .. Len(h.events) :
    h.events[i].seq > n => h.events[i].event \in E
EventsInv ==
  Active => Told(hub, w.from, TrueEvents) /\ Status \in hist.held

\* Where the thread can be for which request.
PhaseInv ==
  /\ w.phase \in {"check", "snap", "snapped"} => req.kind = "events"
  /\ w.phase \in {"probe", "dead"} => req.kind # "events"
  /\ w.phase = "prompt" => req.kind = "prompt"
  /\ w.phase \in {"new", "resolve"} => w.first = Nobody
  /\ w.phase \in {"new", "resolve", "prompt"} =>
       /\ ~w.expired /\ w.stage = "final" /\ ~w.gated /\ ~w.offer
       /\ w.matched = NoStatus /\ w.base = 0
  /\ w.phase = "dead" => w.expired
  /\ w.gated <=> w.stage = "effect"
  /\ w.gated => req.kind = "prompt"

\* The agent still is what the thread took it for, or has been lost.
Reachable ==
  IF req.target = "name" THEN holder = "mine"
  ELSE Open /\ IsAgentTerminal(pane, holder)
Current(a) ==
  /\ w.first = "other" => a.pane = 9
  /\ w.first = "mine" /\ ~hist.lost =>
       (a.named <=> holder = "mine") /\ a.label = pane.label
AgentInv ==
  /\ holder = "other" => hist.lost
  /\ req.kind # "events" /\ w.phase \in {"prompt", "loop", "probe", "dead"} =>
       /\ w.first # Nobody /\ w.agent.terminal = w.first
       /\ w.first = "other" => hist.lost /\ w.base = 0
       /\ w.first = "mine" /\ ~hist.lost => Reachable
       /\ Current(w.agent)

\* What the thread has found in the events and not yet answered.
MatchInv ==
  w.matched # NoStatus =>
    req.kind = "wait" /\ w.matched \in req.until /\ w.matched \in hist.held

\* A deadline that is over with the agent not as asked for is remembered, and
\* so is an effect of the prompt.
UnmetInv ==
  /\ req.kind # "events" /\ w.phase \in {"loop", "probe", "dead"}
  /\ w.expired /\ ~Met(Status, pane.change, Until, w.gated)
  => hist.unmet
EffectInv ==
  req.kind = "prompt" /\ w.phase \in {"loop", "probe", "dead"} =>
    IF w.gated THEN w.first = "mine" /\ pane.change > w.base => hist.effect
    ELSE hist.effect \/ hist.released

\* What a subscription may offer.
OfferInv ==
  /\ req.kind = "events" /\ w.phase \in {"loop", "check", "snap", "snapped"}
       => w.first = "mine"
  /\ w.offer => /\ req.kind = "events"
                /\ w.agent.status \in req.until
                /\ w.agent.status \in hist.held
  /\ w.phase \in {"snap", "snapped"} => ~w.offer
  /\ w.phase = "snapped" => w.agent.status \in hist.held \cup {NoStatus}

IInv ==
  /\ AppTypes /\ ThreadTypes /\ EventsInv /\ PhaseInv /\ AgentInv
  /\ MatchInv /\ UnmetInv /\ EffectInv /\ OfferInv /\ AnswersAreTrue

-----------------------------------------------------------------------------
(* The ring *)

\* A set of natural numbers that is not empty has a least element.
LEMMA LeastElement ==
  ASSUME NEW T \in SUBSET Nat, T # {}
  PROVE  \E n \in T : \A m \in T : n <= m
<1>1. PICK n \in T : \A m \in T : ~(<<m, n>> \in OpToRel(<, Nat))
  BY NatLessThanWellFounded, WFMin, Zenon
<1>2. ASSUME NEW m \in T PROVE n <= m
  <2>1. ~(m < n)
    BY <1>1, Zenon DEF OpToRel
  <2> QED BY <2>1
<1> QED BY <1>2

\* Induction over the natural numbers, stated of a set.
LEMMA InductionOnNat ==
  ASSUME NEW S, 0 \in S, \A n \in Nat : n \in S => n + 1 \in S
  PROVE  Nat \subseteq S
<1> SUFFICES ASSUME ~(Nat \subseteq S) PROVE FALSE
  OBVIOUS
<1> DEFINE T == Nat \ S
<1>1. T \in SUBSET Nat /\ T # {}
  OBVIOUS
<1> HIDE DEF T
<1>2. PICK n \in T : \A m \in T : n <= m
  BY <1>1, LeastElement
<1>3. n \in Nat /\ n # 0
  BY <1>2, <1>1 DEF T
<1>4. n - 1 \in Nat /\ ~(n <= n - 1)
  BY <1>3
<1>5. n - 1 \in S
  BY <1>4, <1>2 DEF T
<1>6. n \in S
  BY <1>5, <1>4, <1>3
<1> QED BY <1>6, <1>2 DEF T

\* EventHub::push keeps the ring, and adds one event.
LEMMA PushIs ==
  ASSUME NEW h, Ring(h), NEW e \in EventType, NEW n \in Nat, n <= h.next,
         NEW E, Told(h, n, E), e \in E
  PROVE  /\ Ring(Push(h, e)) /\ Push(h, e).next = h.next + 1
         /\ Told(Push(h, e), n, E)
<1> DEFINE x == [seq |-> h.next + 1, event |-> e]
           all == Append(h.events, x)
           l == Len(h.events)
           m == Len(all)
           o == IF m > RingSize THEN m - RingSize ELSE 0
           evs == SubSeq(all, o + 1, m)
<1>1. /\ h.next \in Nat /\ h.events \in Seq(Numbered) /\ l \in Nat
      /\ l <= RingSize /\ RingSize \in Nat /\ RingSize > 0
  BY BoundsAssumption DEF Ring, HubType
<1>2. x \in Numbered /\ x.seq = h.next + 1 /\ x.event = e
  BY <1>1 DEF Numbered
<1>3. /\ all \in Seq(Numbered) /\ m = l + 1 /\ all[m] = x
      /\ \A i \in 1 .. l : all[i] = h.events[i]
  BY <1>1, <1>2, AppendProperties
<1>4. Push(h, e) = [next |-> h.next + 1, events |-> evs]
  BY DEF Push
<1> HIDE DEF x, all
<1>5. o \in 0 .. m /\ m - o <= RingSize /\ m \in Nat
  BY <1>1, <1>3
<1> HIDE DEF o, m
<1>6. /\ evs \in Seq(Numbered) /\ Len(evs) = m - o
      /\ \A i \in 1 .. m - o : evs[i] = all[o + i]
  <2> DEFINE k == o + 1
  <2>1. k \in Int /\ m \in Int /\ \A i \in k .. m : all[i] \in Numbered
    BY <1>3, <1>5 DEF m
  <2>2. k <= m + 1 /\ m - k + 1 = m - o
    BY <1>5
  <2>3. \A i \in 1 .. m - o : k + i - 1 = o + i
    BY <1>5
  <2> HIDE DEF k
  <2>4. /\ SubSeq(all, k, m) \in Seq(Numbered)
        /\ Len(SubSeq(all, k, m)) = IF k <= m THEN m - k + 1 ELSE 0
        /\ \A i \in 1 .. m - k + 1 : SubSeq(all, k, m)[i] = all[k + i - 1]
    BY <2>1, SubSeqProperties
  <2>5. evs = SubSeq(all, k, m)
    BY DEF k
  <2> HIDE DEF evs
  <2>6. Len(evs) = m - o
    BY <2>1, <2>2, <2>4, <2>5
  <2> QED BY <2>2, <2>3, <2>4, <2>5, <2>6
<1>7. ASSUME NEW i \in 1 .. m
      PROVE  /\ all[i].seq = (h.next + 1) - m + i
             /\ all[i].seq > n => all[i].event \in E
  <2>1. CASE i = m
    BY <1>1, <1>2, <1>3, <1>5, <2>1
  <2>2. CASE i # m
    <3>1. i \in 1 .. l /\ all[i] = h.events[i]
      BY <1>1, <1>3, <2>2
    <3>2. h.events[i].seq = h.next - l + i
      BY <3>1 DEF Ring
    <3>3. h.events[i].seq > n => h.events[i].event \in E
      BY <3>1 DEF Told
    <3> QED BY <1>1, <1>3, <3>1, <3>2, <3>3
  <2> QED BY <2>1, <2>2
<1> HIDE DEF evs
<1>8. ASSUME NEW i \in 1 .. m - o
      PROVE  /\ evs[i].seq = (h.next + 1) - (m - o) + i
             /\ evs[i].seq > n => evs[i].event \in E
  <2> DEFINE k == o + i
  <2>1. k \in 1 .. m /\ evs[i] = all[k]
    BY <1>5, <1>6
  <2>2. (h.next + 1) - m + k = (h.next + 1) - (m - o) + i
    BY <1>1, <1>5
  <2> HIDE DEF k
  <2> QED BY <1>7, <2>1, <2>2
<1>9. Push(h, e) \in HubType
  BY <1>1, <1>4, <1>6 DEF HubType
<1>10. Ring(Push(h, e))
  BY <1>4, <1>5, <1>6, <1>8, <1>9 DEF Ring
<1>11. Told(Push(h, e), n, E)
  BY <1>4, <1>6, <1>8 DEF Told
<1> QED BY <1>4, <1>10, <1>11

\* The recursive function inside PushAll, up to the n-th event.
PushedTo(f, h, es, n) ==
  f = [i \in 0 .. n |-> IF i = 0 THEN h ELSE Push(f[i - 1], es[i])]

\* One step of it.
LEMMA PushedStep ==
  ASSUME NEW f, NEW h, NEW es, NEW n \in Nat, PushedTo(f, h, es, n)
  PROVE  f[0] = h /\ \A i \in 1 .. n : f[i] = Push(f[i - 1], es[i])
<1> DEFINE F == [i \in 0 .. n |-> IF i = 0 THEN h ELSE Push(f[i - 1], es[i])]
<1>1. F[0] = h /\ \A i \in 1 .. n : F[i] = Push(f[i - 1], es[i])
  OBVIOUS
<1>2. f = F
  BY DEF PushedTo
<1> HIDE DEF F
<1> QED BY <1>1, <1>2

\* There is such a function.
LEMMA PushedExists ==
  ASSUME NEW h, NEW es, NEW n \in Nat
  PROVE  \E f : PushedTo(f, h, es, n)
<1> DEFINE S == {m \in Nat : \E f : PushedTo(f, h, es, m)}
<1>1. 0 \in S
  <2>1. PushedTo([i \in 0 .. 0 |-> h], h, es, 0)
    BY DEF PushedTo
  <2> QED BY <2>1
<1>2. ASSUME NEW m \in Nat, m \in S PROVE m + 1 \in S
  <2>1. PICK f : PushedTo(f, h, es, m)
    BY <1>2
  <2> DEFINE g == [i \in 0 .. m + 1 |->
                     IF i <= m THEN f[i] ELSE Push(f[i - 1], es[i])]
  <2>2. f[0] = h /\ \A i \in 1 .. m : f[i] = Push(f[i - 1], es[i])
    BY <2>1, PushedStep
  <2>3. ASSUME NEW i \in 0 .. m + 1
        PROVE  g[i] = IF i = 0 THEN h ELSE Push(g[i - 1], es[i])
    <3>1. CASE i = 0
      BY <2>2, <3>1
    <3>2. CASE i \in 1 .. m
      BY <2>2, <3>2
    <3>3. CASE i = m + 1
      BY <3>3
    <3> QED BY <3>1, <3>2, <3>3
  <2>4. PushedTo(g, h, es, m + 1)
    BY <2>3 DEF PushedTo
  <2> QED BY <2>4
<1> HIDE DEF S
<1>3. Nat \subseteq S
  BY <1>1, <1>2, InductionOnNat
<1> QED BY <1>3 DEF S

\* Pushing several events keeps the ring, and what is known of its events.
LEMMA PushAllIs ==
  ASSUME NEW h, Ring(h), NEW es \in Seq(EventType), NEW n \in Nat,
         n <= h.next, NEW E, Told(h, n, E), \A i \in 1 .. Len(es) : es[i] \in E
  PROVE  /\ Ring(PushAll(h, es)) /\ h.next <= PushAll(h, es).next
         /\ Told(PushAll(h, es), n, E)
<1> DEFINE m == Len(es)
           f == CHOOSE g : PushedTo(g, h, es, m)
<1>1. m \in Nat /\ h.next \in Nat
  BY DEF Ring, HubType
<1>2. PushedTo(f, h, es, m)
  BY <1>1, PushedExists
<1>3. PushAll(h, es) = f[m]
  BY DEF PushAll, PushedTo
<1> HIDE DEF f, m
<1>4. f[0] = h /\ \A i \in 1 .. m : f[i] = Push(f[i - 1], es[i])
  BY <1>1, <1>2, PushedStep
<1> DEFINE Good(g) == Ring(g) /\ h.next <= g.next /\ Told(g, n, E)
           N == {i \in Nat : i <= m => Good(f[i])}
<1>5. 0 \in N
  BY <1>1, <1>4
<1>6. ASSUME NEW i \in Nat, i \in N PROVE i + 1 \in N
  <2> SUFFICES ASSUME i + 1 <= m PROVE Good(f[i + 1])
    OBVIOUS
  <2> DEFINE j == i + 1
             g == f[i]
  <2>1. j \in 1 .. m /\ j - 1 = i /\ i <= m
    BY <1>1
  <2>2. Ring(g) /\ h.next <= g.next /\ Told(g, n, E)
    BY <1>6, <2>1
  <2> HIDE DEF j
  <2>3. f[j] = Push(g, es[j]) /\ es[j] \in E
    BY <1>4, <2>1 DEF m
  <2>4. es[j] \in EventType /\ g.next \in Nat
    BY <2>1, <2>2 DEF m, Ring, HubType
  <2> HIDE DEF g
  <2>5. n <= g.next
    BY <1>1, <2>2, <2>4
  <2>6. /\ Ring(f[j]) /\ f[j].next = g.next + 1 /\ Told(f[j], n, E)
    BY <2>2, <2>3, <2>4, <2>5, PushIs
  <2>7. h.next <= f[j].next
    BY <1>1, <2>2, <2>4, <2>6
  <2> QED BY <2>6, <2>7 DEF j
<1> HIDE DEF N
<1>7. Nat \subseteq N
  BY <1>5, <1>6, InductionOnNat
<1> QED BY <1>1, <1>3, <1>7 DEF N

\* The recursive function inside EventsAfter, up to the k-th event of evs.
KeptTo(f, evs, n, k) ==
  f = [i \in 0 .. k |->
         IF i = 0 THEN <<>>
         ELSE IF evs[i].seq > n THEN Append(f[i - 1], evs[i])
         ELSE f[i - 1]]

\* One step of it.
LEMMA KeptStep ==
  ASSUME NEW f, NEW evs, NEW n, NEW k \in Nat, KeptTo(f, evs, n, k)
  PROVE  /\ f[0] = <<>>
         /\ \A i \in 1 .. k :
              f[i] = IF evs[i].seq > n THEN Append(f[i - 1], evs[i])
                     ELSE f[i - 1]
<1> DEFINE F == [i \in 0 .. k |->
                   IF i = 0 THEN <<>>
                   ELSE IF evs[i].seq > n THEN Append(f[i - 1], evs[i])
                   ELSE f[i - 1]]
<1>1. /\ F[0] = <<>>
      /\ \A i \in 1 .. k :
           F[i] = IF evs[i].seq > n THEN Append(f[i - 1], evs[i])
                  ELSE f[i - 1]
  OBVIOUS
<1>2. f = F
  BY DEF KeptTo
<1> HIDE DEF F
<1> QED BY <1>1, <1>2

\* There is such a function.
LEMMA KeptExists ==
  ASSUME NEW evs, NEW n, NEW k \in Nat
  PROVE  \E f : KeptTo(f, evs, n, k)
<1> DEFINE S == {m \in Nat : \E f : KeptTo(f, evs, n, m)}
<1>1. 0 \in S
  <2>1. KeptTo([i \in 0 .. 0 |-> <<>>], evs, n, 0)
    BY DEF KeptTo
  <2> QED BY <2>1
<1>2. ASSUME NEW m \in Nat, m \in S PROVE m + 1 \in S
  <2>1. PICK f : KeptTo(f, evs, n, m)
    BY <1>2
  <2> DEFINE g == [i \in 0 .. m + 1 |->
                     IF i <= m THEN f[i]
                     ELSE IF evs[i].seq > n THEN Append(f[i - 1], evs[i])
                     ELSE f[i - 1]]
  <2>2. /\ f[0] = <<>>
        /\ \A i \in 1 .. m :
             f[i] = IF evs[i].seq > n THEN Append(f[i - 1], evs[i])
                    ELSE f[i - 1]
    BY <2>1, KeptStep
  <2>3. ASSUME NEW i \in 0 .. m + 1
        PROVE  g[i] = IF i = 0 THEN <<>>
                      ELSE IF evs[i].seq > n THEN Append(g[i - 1], evs[i])
                      ELSE g[i - 1]
    <3>1. CASE i = 0
      BY <2>2, <3>1
    <3>2. CASE i \in 1 .. m
      BY <2>2, <3>2
    <3>3. CASE i = m + 1
      BY <3>3
    <3> QED BY <3>1, <3>2, <3>3
  <2>4. KeptTo(g, evs, n, m + 1)
    BY <2>3 DEF KeptTo
  <2> QED BY <2>4
<1> HIDE DEF S
<1>3. Nat \subseteq S
  BY <1>1, <1>2, InductionOnNat
<1> QED BY <1>3 DEF S

\* A batch holds events of the ring that are numbered past n.
Batch(b, n, E) ==
  /\ b \in Seq(Numbered)
  /\ \A i \in 1 .. Len(b) :
       b[i].event \in E /\ b[i].seq > n /\ b[i].seq <= hub.next

\* events_after returns such a batch.
LEMMA EventsAfterIs ==
  ASSUME Ring(hub), NEW n \in Nat, NEW E, Told(hub, n, E)
  PROVE  Batch(EventsAfter(n), n, E)
<1> DEFINE evs == hub.events
           m == Len(evs)
           f == CHOOSE g : KeptTo(g, evs, n, m)
<1>1. evs \in Seq(Numbered) /\ m \in Nat /\ hub.next \in Nat
  BY DEF Ring, HubType
<1>2. KeptTo(f, evs, n, m)
  BY <1>1, KeptExists
<1>3. EventsAfter(n) = f[m]
  BY DEF EventsAfter, KeptTo
<1>4. ASSUME NEW i \in 1 .. m
      PROVE  /\ evs[i] \in Numbered /\ evs[i].seq <= hub.next
             /\ evs[i].seq > n => evs[i].event \in E
  <2>1. evs[i] \in Numbered
    BY <1>1
  <2>2. evs[i].seq = hub.next - m + i
    BY DEF Ring
  <2>3. evs[i].seq <= hub.next
    <3> HIDE DEF m
    <3> QED BY <1>1, <2>2
  <2> QED BY <2>1, <2>3 DEF Told
<1> HIDE DEF f, m, evs
<1>5. /\ f[0] = <<>>
      /\ \A i \in 1 .. m :
           f[i] = IF evs[i].seq > n THEN Append(f[i - 1], evs[i])
                  ELSE f[i - 1]
  BY <1>1, <1>2, KeptStep
<1> DEFINE N == {i \in Nat : i <= m => Batch(f[i], n, E)}
<1>6. 0 \in N
  <2>1. <<>> \in Seq(Numbered) /\ Len(<<>>) = 0
    BY EmptySeq
  <2>2. Batch(<<>>, n, E)
    BY <2>1 DEF Batch
  <2> QED BY <1>5, <2>2
<1>7. ASSUME NEW i \in Nat, i \in N PROVE i + 1 \in N
  <2> SUFFICES ASSUME i + 1 <= m PROVE Batch(f[i + 1], n, E)
    OBVIOUS
  <2> DEFINE j == i + 1
             b == f[i]
             x == evs[j]
  <2>1. j \in 1 .. m /\ j - 1 = i /\ i <= m
    BY <1>1
  <2>2. Batch(b, n, E)
    BY <1>7, <2>1
  <2> HIDE DEF j
  <2>3. /\ f[j] = IF x.seq > n THEN Append(b, x) ELSE b
        /\ x \in Numbered /\ x.seq <= hub.next
        /\ x.seq > n => x.event \in E
    BY <1>4, <1>5, <2>1
  <2> HIDE DEF b, x
  <2>4. CASE x.seq > n
    <3>1. f[j] = Append(b, x) /\ b \in Seq(Numbered)
      BY <2>2, <2>3, <2>4 DEF Batch
    <3>2. /\ f[j] \in Seq(Numbered) /\ Len(f[j]) = Len(b) + 1
          /\ Len(b) \in Nat /\ f[j][Len(b) + 1] = x
          /\ \A k \in 1 .. Len(b) : f[j][k] = b[k]
      BY <2>3, <3>1, AppendProperties
    <3>3. ASSUME NEW k \in 1 .. Len(f[j])
          PROVE  /\ f[j][k].event \in E /\ f[j][k].seq > n
                 /\ f[j][k].seq <= hub.next
      <4>1. CASE k = Len(b) + 1
        BY <2>3, <2>4, <3>2, <4>1
      <4>2. CASE k # Len(b) + 1
        <5>1. k \in 1 .. Len(b)
          BY <3>2, <4>2
        <5> QED BY <2>2, <3>2, <5>1 DEF Batch
      <4> QED BY <4>1, <4>2
    <3> QED BY <3>2, <3>3 DEF Batch, j
  <2>5. CASE ~(x.seq > n)
    BY <2>2, <2>3, <2>5 DEF j
  <2> QED BY <2>4, <2>5
<1> HIDE DEF N
<1>8. Nat \subseteq N
  BY <1>6, <1>7, InductionOnNat
<1> QED BY <1>1, <1>3, <1>8 DEF N

\* The first of some events is one of them.
LEMMA MinIs ==
  ASSUME NEW S \in SUBSET Nat, S # {}
  PROVE  Min(S) \in S
BY LeastElement DEF Min

\* So is the last.
LEMMA MaxIs ==
  ASSUME NEW n \in Nat, NEW S \in SUBSET (1 .. n), S # {}
  PROVE  Max(S) \in S
<1> DEFINE T == {m \in 0 .. n : \A y \in S : y <= m}
<1>1. n \in T
  OBVIOUS
<1>2. T \in SUBSET Nat /\ T # {}
  BY <1>1
<1> HIDE DEF T
<1>3. PICK m \in T : \A k \in T : m <= k
  BY <1>2, LeastElement
<1>4. m \in 0 .. n /\ \A y \in S : y <= m
  BY <1>3 DEF T
<1>5. m \in S
  <2> SUFFICES ASSUME m \notin S PROVE FALSE
    OBVIOUS
  <2>1. \A y \in S : y <= m - 1 /\ y >= 1
    BY <1>4
  <2>2. m - 1 \in 0 .. n
    <3>1. PICK y \in S : TRUE
      OBVIOUS
    <3>2. y \in Nat /\ 1 <= y /\ y <= m - 1
      BY <2>1
    <3> QED BY <1>4, <3>2
  <2>3. m - 1 \in T
    BY <2>1, <2>2 DEF T
  <2> QED BY <1>3, <1>4, <2>3
<1>6. \A y \in S : m >= y
  BY <1>4
<1> QED BY <1>5, <1>6 DEF Max

-----------------------------------------------------------------------------
(* The application *)

\* A status is one of the statuses.
LEMMA StatusIs ==
  ASSUME NEW state \in States, NEW seen
  PROVE  StatusOf(state, seen) \in Statuses
BY DEF StatusOf, Statuses, States

\* What a turn leaves in the history.
LEMMA TurnIs ==
  ASSUME hist \in HistType, pane' \in PaneType, NEW what,
         NEW passing \in SUBSET Statuses, Turn(what, passing)
  PROVE  /\ Active /\ UNCHANGED <<req, w, answer>> /\ hist' \in HistType
         /\ hist.held \subseteq hist'.held /\ passing \subseteq hist'.held
         /\ Status' \in hist'.held
         /\ hist.lost => hist'.lost
         /\ what # "update" => hist'.lost
         /\ ~hist'.lost => /\ holder' = holder /\ pane'.label = pane.label
                           /\ pane'.id = pane.id
                           /\ IsAgentTerminal(pane', holder')
         /\ hist.unmet => hist'.unmet
         /\ w.expired /\ ~Met(Status', pane'.change, Until, w.gated) =>
              hist'.unmet
         /\ hist.effect => hist'.effect
         /\ pane'.change > w.base => hist'.effect
         /\ hist.released => hist'.released
         /\ what = "release" => hist'.released
<1> DEFINE now == StatusOf(pane'.state, pane'.seen)
           h == hist.held \cup {now} \cup passing
           l == hist.lost \/ what # "update" \/ holder' # holder
                \/ pane'.label # pane.label \/ pane'.id # pane.id
                \/ ~IsAgentTerminal(pane', holder')
           u == hist.unmet
                \/ (w.expired /\ ~Met(now, pane'.change, Until, w.gated))
           e == hist.effect \/ pane'.change > w.base
           r == hist.released \/ what = "release"
           d == hist.dropped \/ hub'.next - Len(hub'.events) > w.last
<1>1. hist' = [held |-> h, lost |-> l, unmet |-> u, effect |-> e,
               released |-> r, dropped |-> d]
  BY DEF Turn
<1>2. now \in Statuses
  <2>1. pane'.state \in States
    BY DEF PaneType
  <2> QED BY <2>1, StatusIs
<1>3. h \in SUBSET Statuses
  BY <1>2 DEF HistType
<1>4. /\ l \in BOOLEAN /\ u \in BOOLEAN /\ e \in BOOLEAN /\ r \in BOOLEAN
      /\ d \in BOOLEAN
  OBVIOUS
<1>5. /\ hist.held \subseteq h /\ passing \subseteq h /\ now \in h
      /\ hist.lost => l
      /\ what # "update" => l
      /\ ~l => /\ holder' = holder /\ pane'.label = pane.label
               /\ pane'.id = pane.id /\ IsAgentTerminal(pane', holder')
      /\ hist.unmet => u
      /\ w.expired /\ ~Met(now, pane'.change, Until, w.gated) => u
      /\ hist.effect => e
      /\ pane'.change > w.base => e
      /\ hist.released => r
      /\ what = "release" => r
  OBVIOUS
<1>6. Status' = now
  BY DEF Status
<1> HIDE DEF now, h, l, u, e, r, d
<1>7. /\ hist' \in HistType /\ hist'.held = h /\ hist'.lost = l
      /\ hist'.unmet = u /\ hist'.effect = e /\ hist'.released = r
  BY <1>1, <1>3, <1>4 DEF HistType
<1>8. Active /\ UNCHANGED <<req, w, answer>>
  BY DEF Turn, Active
<1> QED BY <1>5, <1>6, <1>7, <1>8

\* A turn keeps the invariant when what it publishes is true.
LEMMA TurnStep ==
  ASSUME IInv, NEW what, NEW passing \in SUBSET Statuses,
         Turn(what, passing), AppTypes', hub.next <= hub'.next,
         Told(hub', w.from, TrueEvents')
  PROVE  IInv'
<1>1. /\ Active /\ UNCHANGED <<req, w, answer>> /\ hist' \in HistType
      /\ hist.held \subseteq hist'.held
      /\ Status' \in hist'.held
      /\ hist.lost => hist'.lost
      /\ ~hist'.lost => /\ holder' = holder /\ pane'.label = pane.label
                        /\ pane'.id = pane.id
                        /\ IsAgentTerminal(pane', holder')
      /\ hist.unmet => hist'.unmet
      /\ w.expired /\ ~Met(Status', pane'.change, Until, w.gated) =>
           hist'.unmet
      /\ hist.effect => hist'.effect
      /\ pane'.change > w.base => hist'.effect
      /\ hist.released => hist'.released
  BY TurnIs DEF IInv, ThreadTypes, AppTypes
<1>2. ThreadTypes'
  <2>1. /\ hub.next \in Nat /\ hub'.next \in Nat /\ w.last \in Nat
        /\ w.last <= hub.next
    BY DEF IInv, AppTypes, ThreadTypes, Ring, HubType, ThreadType
  <2>2. w.last <= hub'.next
    BY <2>1
  <2> QED BY <1>1, <2>2 DEF IInv, ThreadTypes
<1>3. EventsInv'
  BY <1>1 DEF EventsInv
<1>4. PhaseInv'
  BY <1>1 DEF IInv, PhaseInv
<1>5. AgentInv'
  <2>1. holder' = "other" => hist'.lost
    BY <1>1 DEF IInv, AgentInv
  <2>2. Current(w.agent) => Current(w.agent)'
    BY <1>1 DEF Current
  <2>3. ~hist'.lost => (Reachable => Reachable')
    BY <1>1 DEF Reachable, Open, IsAgentTerminal
  <2>4. ~hist'.lost => ~hist.lost
    BY <1>1
  <2> QED BY <1>1, <2>1, <2>2, <2>3, <2>4 DEF IInv, AgentInv
<1>6. MatchInv'
  BY <1>1 DEF IInv, MatchInv
<1>7. UnmetInv'
  <2>1. Until' = Until
    BY <1>1 DEF Until
  <2>2. Met(Status, pane.change, Until, w.gated)'
          = Met(Status', pane'.change, Until, w.gated)
    BY <1>1, <2>1 DEF Met
  <2> QED BY <1>1, <2>2 DEF UnmetInv
<1>8. EffectInv'
  BY <1>1 DEF IInv, EffectInv
<1>9. OfferInv'
  BY <1>1 DEF IInv, OfferInv
<1>10. AnswersAreTrue'
  <2>1. answer' = NoAnswer
    BY <1>1 DEF IInv, ThreadTypes, Active
  <2> QED BY <2>1 DEF AnswersAreTrue, SuccessIsTrue, NotRunningIsTrue,
          TimeoutIsTrue, PromptHadEffect, NoAnswer
<1> QED BY <1>2, <1>3, <1>4, <1>5, <1>6, <1>7, <1>8, <1>9, <1>10 DEF IInv

\* What was true of the events stays true.
LEMMA TruthGrows ==
  ASSUME IInv, pane' \in PaneType, NEW what, NEW passing \in SUBSET Statuses,
         Turn(what, passing)
  PROVE  /\ Told(hub, w.from, TrueEvents') /\ Ring(hub)
         /\ w.from \in Nat /\ w.from <= hub.next /\ hub.next \in Nat
         /\ TrueEvents' \subseteq EventType
<1> DEFINE E == TrueEvents'
<1>1. /\ Active /\ hist.held \subseteq hist'.held
      /\ hist.lost => hist'.lost
      /\ hist.released => hist'.released
  BY TurnIs DEF IInv, ThreadTypes
<1>2. TrueEvents \subseteq E
  BY <1>1 DEF TrueEvents
<1>3. Told(hub, w.from, TrueEvents) /\ Ring(hub)
  BY <1>1 DEF IInv, EventsInv, AppTypes
<1>4. Told(hub, w.from, E)
  BY <1>2, <1>3 DEF Told
<1>5. w.from \in Nat /\ w.from <= hub.next /\ hub.next \in Nat
  <2>1. /\ w.from \in Nat /\ w.last \in Nat /\ hub.next \in Nat
        /\ w.from <= w.last /\ w.last <= hub.next
    BY DEF IInv, ThreadTypes, ThreadType, AppTypes, Ring, HubType
  <2> QED BY <2>1
<1>6. E \subseteq EventType
  BY DEF TrueEvents
<1> QED BY <1>3, <1>4, <1>5, <1>6

\* Pushing true events leaves only true events.
LEMMA PushTurn ==
  ASSUME IInv, pane' \in PaneType, NEW what, NEW passing \in SUBSET Statuses,
         Turn(what, passing), NEW es \in Seq(TrueEvents'),
         hub' = PushAll(hub, es)
  PROVE  Ring(hub') /\ hub.next <= hub'.next /\ Told(hub', w.from, TrueEvents')
<1> DEFINE E == TrueEvents'
<1>1. /\ Told(hub, w.from, E) /\ Ring(hub) /\ w.from \in Nat
      /\ w.from <= hub.next /\ E \subseteq EventType
  BY TruthGrows
<1>2. es \in Seq(E)
  OBVIOUS
<1> HIDE DEF E
<1>3. es \in Seq(EventType) /\ \A i \in 1 .. Len(es) : es[i] \in E
  BY <1>1, <1>2
<1>4. Ring(hub') /\ hub.next <= hub'.next /\ Told(hub', w.from, E)
  BY <1>1, <1>3, PushAllIs
<1> QED BY <1>4 DEF E

\* The same for one event.
LEMMA PushOneTurn ==
  ASSUME IInv, pane' \in PaneType, NEW what, NEW passing \in SUBSET Statuses,
         Turn(what, passing), NEW e \in TrueEvents', hub' = Push(hub, e)
  PROVE  Ring(hub') /\ hub.next <= hub'.next /\ Told(hub', w.from, TrueEvents')
<1> DEFINE E == TrueEvents'
<1>1. /\ Told(hub, w.from, E) /\ Ring(hub) /\ w.from \in Nat
      /\ w.from <= hub.next /\ hub.next \in Nat /\ E \subseteq EventType
  BY TruthGrows
<1>2. e \in E /\ e \in EventType
  BY <1>1
<1> HIDE DEF E
<1>3. Ring(hub') /\ hub'.next = hub.next + 1 /\ Told(hub', w.from, E)
  BY <1>1, <1>2, PushIs
<1> QED BY <1>1, <1>3 DEF E

\* An event is one of the events.
LEMMA EventIs ==
  ASSUME NEW p \in PaneIds, NEW kind \in EventKinds, NEW label \in Labels,
         NEW status \in MaybeStatus
  PROVE  /\ Event(p, kind, label, status) \in EventType
         /\ Event(p, kind, label, status).pane = p
         /\ Event(p, kind, label, status).kind = kind
         /\ Event(p, kind, label, status).status = status
BY DEF Event, EventType

\* update_terminal_state_at keeps to the types, and raises the number of the
\* last change with the state.
LEMMA UpdateIs ==
  ASSUME AppTypes, NEW label \in Labels, NEW state \in States,
         NEW watched \in BOOLEAN
  PROVE  LET p == Update(label, state, watched)
         IN  /\ p \in PaneType /\ p.id = pane.id /\ p.label = label
             /\ p.state = state /\ p.managed = pane.managed
             /\ p.alias = pane.alias /\ p.process = pane.process
             /\ NextChange(state) \in Nat /\ p.change <= NextChange(state)
<1>1. pane \in PaneType /\ change \in Nat /\ pane.change <= change
      /\ pane.change \in Nat /\ pane.seen \in BOOLEAN
  BY DEF AppTypes, PaneType
<1> DEFINE s == SeenAfter(label, state, watched)
           c == IF state # pane.state THEN change + 1 ELSE pane.change
<1>2. s \in BOOLEAN
  BY <1>1 DEF SeenAfter
<1>3. c \in Nat /\ NextChange(state) \in Nat /\ c <= NextChange(state)
  BY <1>1 DEF NextChange
<1>4. Update(label, state, watched)
        = [pane EXCEPT !.label = label, !.state = state, !.seen = s,
                       !.change = c]
  BY DEF Update
<1> HIDE DEF s, c
<1> QED BY <1>1, <1>2, <1>3, <1>4 DEF PaneType

\* The events of a change of state are true if the agent is lost where they
\* say so and has the status they name.
LEMMA StateEventsAre ==
  ASSUME AppTypes, Open, NEW label \in Labels, NEW status \in Statuses,
         NEW released \in BOOLEAN, NEW looks, status \in hist'.held,
         released => hist'.lost /\ hist'.released,
         label # pane.label => hist'.lost
  PROVE  StateEvents(label, status, released, looks) \in Seq(TrueEvents')
<1> DEFINE E == TrueEvents'
           r == Event(pane.id, "released", label, status)
           d == Event(pane.id, "detected", label, NoStatus)
           s == Event(pane.id, "status", label, status)
           a == IF released THEN <<r>>
                ELSE IF label # pane.label THEN <<d>> ELSE <<>>
           b == IF status # Status \/ looks THEN <<s>> ELSE <<>>
<1>1. /\ pane.id \in PaneIds /\ pane.id # 9
      /\ status \in MaybeStatus /\ NoStatus \in MaybeStatus
  BY DEF AppTypes, PaneType, PaneIds, MaybeStatus
<1>2. /\ r \in EventType /\ r.pane # 9 /\ r.kind = "released"
      /\ r.status = status
  BY <1>1, EventIs DEF EventKinds
<1>3. d \in EventType /\ d.pane # 9 /\ d.kind = "detected"
  BY <1>1, EventIs DEF EventKinds
<1>4. /\ s \in EventType /\ s.pane # 9 /\ s.kind = "status"
      /\ s.status = status
  BY <1>1, EventIs DEF EventKinds
<1>5. StateEvents(label, status, released, looks) = a \o b
  BY DEF StateEvents
<1> HIDE DEF r, d, s
<1>6. /\ released => r \in E
      /\ label # pane.label => d \in E
      /\ s \in E
  BY <1>2, <1>3, <1>4 DEF TrueEvents
<1> HIDE DEF E
<1>7. a \in Seq(E)
  BY <1>6
<1>8. b \in Seq(E)
  BY <1>6
<1> HIDE DEF a, b
<1>9. a \o b \in Seq(E)
  BY <1>7, <1>8, ConcatProperties
<1> QED BY <1>5, <1>9 DEF E

\* A turn that publishes nothing.
LEMMA QuietTurn ==
  ASSUME IInv, NEW what, Turn(what, {}), UNCHANGED <<hub, change>>,
         pane' \in PaneType, pane'.change = pane.change,
         holder' \in MaybeTerminal, pane'.alias => holder' # "mine"
  PROVE  IInv'
<1>1. /\ Told(hub, w.from, TrueEvents') /\ Ring(hub) /\ hub.next \in Nat
  BY TruthGrows
<1>2. AppTypes'
  BY <1>1 DEF IInv, AppTypes
<1> QED BY <1>1, <1>2, TurnStep

\* What the detectors and hooks report.
LEMMA ObserveStep ==
  ASSUME IInv, Observe
  PROVE  IInv'
<1>1. PICK label \in Labels, state \in Reported \cup {"Unknown"},
           watched \in BOOLEAN :
        LET p == Update(label, state, watched)
            looks == label = pane.label /\ state = pane.state
            loses == pane.managed /\ label \notin {NoLabel, "codex"}
        IN  /\ Open
            /\ IF pane.process = "none" THEN label = NoLabel
               ELSE label # NoLabel
            /\ IF label = NoLabel THEN state = "Unknown"
               ELSE state \in Reported
            /\ watched => Completes(label, state)
            /\ pane' = [p EXCEPT !.managed = @ /\ ~loses,
                                 !.alias = @ /\ ~loses]
            /\ holder' = IF loses THEN Without("mine") ELSE holder
            /\ change' = NextChange(state)
            /\ hub' = PushAll(hub, StateEvents(label, StatusOf(state, p.seen),
                                               FALSE, looks))
            /\ Turn("update", {})
  BY DEF Observe
<1> DEFINE p == Update(label, state, watched)
           looks == label = pane.label /\ state = pane.state
           loses == pane.managed /\ label \notin {NoLabel, "codex"}
           m == p.managed /\ ~loses
           n == p.alias /\ ~loses
           es == StateEvents(label, StatusOf(state, p.seen), FALSE, looks)
<1>2. /\ Open /\ pane' = [p EXCEPT !.managed = m, !.alias = n]
      /\ holder' = IF loses THEN Without("mine") ELSE holder
      /\ change' = NextChange(state) /\ hub' = PushAll(hub, es)
      /\ Turn("update", {})
  BY <1>1
<1>3. state \in States /\ AppTypes
  BY ReportedAssumption DEF States, IInv
<1>4. /\ p \in PaneType /\ p.id = pane.id /\ p.label = label
      /\ p.state = state /\ p.alias = pane.alias
      /\ NextChange(state) \in Nat /\ p.change <= NextChange(state)
  BY <1>3, UpdateIs
<1>5. m \in BOOLEAN /\ n \in BOOLEAN /\ (n => pane.alias /\ ~loses)
  BY <1>4
<1> HIDE DEF p, m, n
<1>6. /\ pane' \in PaneType /\ pane'.id = pane.id /\ pane'.label = label
      /\ pane'.state = state /\ pane'.seen = p.seen
      /\ pane'.change = p.change /\ pane'.alias = n
  BY <1>2, <1>4, <1>5 DEF PaneType
<1>7. /\ Status' \in hist'.held
      /\ ~hist'.lost => pane'.label = pane.label
  BY <1>2, <1>6, TurnIs DEF IInv, ThreadTypes
<1>8. StatusOf(state, p.seen) \in hist'.held
  BY <1>6, <1>7 DEF Status
<1>9. es \in Seq(TrueEvents')
  <2>1. StatusOf(state, p.seen) \in Statuses
    BY <1>3, StatusIs
  <2> QED BY <1>2, <1>3, <1>6, <1>7, <1>8, <2>1, StateEventsAre
<1> HIDE DEF es, loses
<1>10. /\ Ring(hub') /\ hub.next <= hub'.next
       /\ Told(hub', w.from, TrueEvents')
  BY <1>2, <1>6, <1>9, PushTurn
<1>11. /\ holder' \in MaybeTerminal
       /\ pane'.alias => holder' # "mine"
  BY <1>2, <1>3, <1>5, <1>6 DEF AppTypes, MaybeTerminal, Without
<1>12. AppTypes'
  BY <1>2, <1>4, <1>6, <1>10, <1>11 DEF AppTypes
<1> QED BY <1>2, <1>10, <1>12, TurnStep

\* The agent's process ends.
LEMMA ProcessExitStep ==
  ASSUME IInv, ProcessExit
  PROVE  IInv'
<1>1. PICK watched \in BOOLEAN :
        LET p == Update(pane.label, "Idle", watched)
        IN  /\ Open
            /\ pane' = [p EXCEPT !.process = "none", !.managed = FALSE,
                                 !.alias = @ /\ ~pane.managed]
            /\ holder' = IF pane.managed THEN Without("mine") ELSE holder
            /\ change' = NextChange("Idle")
            /\ hub' = PushAll(hub, StateEvents(pane.label,
                                               StatusOf("Idle", p.seen),
                                               TRUE, FALSE))
            /\ Turn("release", {})
  BY DEF ProcessExit
<1> DEFINE p == Update(pane.label, "Idle", watched)
           n == p.alias /\ ~pane.managed
           es == StateEvents(pane.label, StatusOf("Idle", p.seen), TRUE, FALSE)
<1>2. /\ Open
      /\ pane' = [p EXCEPT !.process = "none", !.managed = FALSE, !.alias = n]
      /\ holder' = IF pane.managed THEN Without("mine") ELSE holder
      /\ change' = NextChange("Idle") /\ hub' = PushAll(hub, es)
      /\ Turn("release", {})
  BY <1>1
<1>3. "Idle" \in States /\ AppTypes /\ pane.label \in Labels
  BY DEF States, IInv, AppTypes, PaneType
<1>4. /\ p \in PaneType /\ p.id = pane.id /\ p.label = pane.label
      /\ p.state = "Idle" /\ n \in BOOLEAN /\ (n => pane.alias)
      /\ NextChange("Idle") \in Nat /\ p.change <= NextChange("Idle")
  BY <1>3, UpdateIs
<1> HIDE DEF p, n
<1>5. /\ pane' \in PaneType /\ pane'.state = "Idle" /\ pane'.seen = p.seen
      /\ pane'.change = p.change /\ pane'.alias = n
  BY <1>2, <1>4 DEF PaneType
<1>6. Status' \in hist'.held /\ hist'.lost /\ hist'.released
  BY <1>2, <1>5, TurnIs DEF IInv, ThreadTypes
<1>7. StatusOf("Idle", p.seen) \in hist'.held
  BY <1>5, <1>6 DEF Status
<1>8. es \in Seq(TrueEvents')
  <2>1. StatusOf("Idle", p.seen) \in Statuses
    BY <1>3, StatusIs
  <2> QED BY <1>2, <1>3, <1>6, <1>7, <2>1, StateEventsAre
<1> HIDE DEF es
<1>9. /\ Ring(hub') /\ hub.next <= hub'.next
      /\ Told(hub', w.from, TrueEvents')
  BY <1>2, <1>5, <1>8, PushTurn
<1>10. AppTypes'
  <2>1. holder' \in MaybeTerminal /\ (pane'.alias => holder' # "mine")
    BY <1>2, <1>3, <1>4, <1>5 DEF AppTypes, MaybeTerminal, Without
  <2> QED BY <1>2, <1>4, <1>5, <1>9, <2>1 DEF AppTypes
<1> QED BY <1>2, <1>9, <1>10, TurnStep

\* A hook releases the agent.
LEMMA HookReleaseStep ==
  ASSUME IInv, HookRelease
  PROVE  IInv'
<1> DEFINE p == Update(NoLabel, "Unknown", FALSE)
           es == StateEvents(NoLabel, "Unknown", TRUE, FALSE)
<1>1. /\ Open /\ pane' = [p EXCEPT !.process = "none"] /\ holder' = holder
      /\ change' = NextChange("Unknown") /\ hub' = PushAll(hub, es)
      /\ Turn("release", {})
  BY DEF HookRelease
<1>2. "Unknown" \in States /\ AppTypes /\ NoLabel \in Labels
  BY DEF States, IInv, Labels
<1>3. /\ p \in PaneType /\ p.state = "Unknown" /\ p.alias = pane.alias
      /\ NextChange("Unknown") \in Nat /\ p.change <= NextChange("Unknown")
  BY <1>2, UpdateIs
<1> HIDE DEF p
<1>4. /\ pane' \in PaneType /\ pane'.state = "Unknown"
      /\ pane'.change = p.change /\ pane'.alias = pane.alias
  BY <1>1, <1>3 DEF PaneType
<1>5. Status' \in hist'.held /\ hist'.lost /\ hist'.released
  BY <1>1, <1>4, TurnIs DEF IInv, ThreadTypes
<1>6. "Unknown" \in hist'.held /\ "Unknown" \in Statuses
  BY <1>4, <1>5 DEF Status, StatusOf, Statuses, States
<1>7. es \in Seq(TrueEvents')
  BY <1>1, <1>2, <1>5, <1>6, StateEventsAre
<1> HIDE DEF es
<1>8. /\ Ring(hub') /\ hub.next <= hub'.next
      /\ Told(hub', w.from, TrueEvents')
  BY <1>1, <1>4, <1>7, PushTurn
<1>9. AppTypes'
  BY <1>1, <1>2, <1>3, <1>4, <1>8 DEF AppTypes
<1> QED BY <1>1, <1>8, <1>9, TurnStep

\* The pane after its process has died.
LEMMA DiedIs ==
  ASSUME AppTypes, NEW watched \in BOOLEAN
  PROVE  LET c == IF WithAgent THEN NextChange("Idle") ELSE change
         IN  /\ Died(watched) \in PaneType /\ Died(watched).id = pane.id
             /\ Died(watched).alias = pane.alias
             /\ WithAgent => Died(watched).state = "Idle"
             /\ c \in Nat /\ Died(watched).change <= c
<1>1. /\ "Idle" \in States /\ pane.label \in Labels /\ pane \in PaneType
      /\ change \in Nat /\ pane.change <= change
  BY DEF States, AppTypes, PaneType
<1>2. CASE WithAgent
  <2>1. Died(watched) = Update(pane.label, "Idle", watched)
    BY <1>2 DEF Died
  <2> QED BY <1>1, <1>2, <2>1, UpdateIs
<1>3. CASE ~WithAgent
  BY <1>1, <1>3 DEF Died
<1> QED BY <1>2, <1>3

\* The events of its death are true.
LEMMA DeathEventsAre ==
  ASSUME AppTypes, Open, NEW watched \in BOOLEAN,
         WithAgent => /\ hist'.lost /\ hist'.released
                      /\ StatusOf("Idle", Died(watched).seen) \in hist'.held
  PROVE  DeathEvents(watched) \in Seq(TrueEvents')
<1>1. CASE WithAgent
  <2> DEFINE s == StatusOf("Idle", Died(watched).seen)
  <2>1. "Idle" \in States /\ pane.label \in Labels
    BY DEF States, AppTypes, PaneType
  <2>2. s \in Statuses /\ s \in hist'.held
    BY <1>1, <2>1, StatusIs
  <2>3. DeathEvents(watched) = StateEvents(pane.label, s, TRUE, FALSE)
    BY <1>1 DEF DeathEvents
  <2> HIDE DEF s
  <2> QED BY <1>1, <2>1, <2>2, <2>3, StateEventsAre
<1>2. CASE ~WithAgent
  BY <1>2 DEF DeathEvents
<1> QED BY <1>1, <1>2

\* The pane goes with its process.
LEMMA PaneExitsStep ==
  ASSUME IInv, PaneExits
  PROVE  IInv'
<1>1. PICK watched \in BOOLEAN :
        /\ PaneDies(watched)
        /\ pane' = [Died(watched) EXCEPT !.id = Gone, !.managed = FALSE,
                                         !.process = "none"]
        /\ hub' = PushAll(hub, DeathEvents(watched)
                               \o <<Event(pane.id, "gone", NoLabel, NoStatus)>>)
        /\ Turn(Death, {})
  BY DEF PaneExits
<1> DEFINE p == Died(watched)
           g == Event(pane.id, "gone", NoLabel, NoStatus)
           es == DeathEvents(watched) \o <<g>>
           c == IF WithAgent THEN NextChange("Idle") ELSE change
<1>2. /\ Open /\ holder' = (IF holder = "mine" THEN Nobody ELSE holder)
      /\ change' = c /\ AppTypes
  BY <1>1 DEF PaneDies, IInv, Without
<1>3. /\ p \in PaneType /\ (WithAgent => p.state = "Idle")
      /\ p.alias = pane.alias /\ c \in Nat /\ p.change <= c
  BY <1>2, DiedIs
<1> HIDE DEF p, c
<1>4. /\ pane' = [p EXCEPT !.id = Gone, !.managed = FALSE, !.process = "none"]
      /\ hub' = PushAll(hub, es)
  BY <1>1 DEF p
<1>5. /\ pane' \in PaneType /\ pane'.id = Gone /\ pane'.state = p.state
      /\ pane'.seen = p.seen /\ pane'.change = p.change
      /\ pane'.alias = p.alias
  <2>1. Gone \in 0 .. 2
    BY DEF Gone
  <2> QED BY <1>3, <1>4, <2>1 DEF PaneType
<1>6. /\ Status' \in hist'.held /\ (WithAgent => hist'.released)
      /\ hist'.lost
  <2>1. WithAgent => Death = "release"
    BY DEF Death
  <2> HIDE DEF es
  <2> QED BY <1>1, <1>2, <1>5, <2>1, TurnIs DEF IInv, ThreadTypes, Open
<1>7. es \in Seq(TrueEvents')
  <2>1. WithAgent => StatusOf("Idle", p.seen) \in hist'.held
    BY <1>3, <1>5, <1>6 DEF Status
  <2>2. DeathEvents(watched) \in Seq(TrueEvents')
    BY <1>2, <1>6, <2>1, DeathEventsAre DEF p
  <2>3. /\ pane.id \in PaneIds /\ pane.id # 9 /\ NoStatus \in MaybeStatus
        /\ NoLabel \in Labels /\ "gone" \in EventKinds
    BY <1>2 DEF AppTypes, PaneType, PaneIds, MaybeStatus, Labels, EventKinds
  <2>4. g \in EventType /\ g.pane # 9 /\ g.kind = "gone"
    BY <2>3, EventIs
  <2> HIDE DEF g
  <2>5. g \in TrueEvents'
    BY <1>6, <2>4 DEF TrueEvents
  <2>6. <<g>> \in Seq(TrueEvents')
    BY <2>5
  <2> QED BY <2>2, <2>6, ConcatProperties
<1> HIDE DEF es
<1>8. /\ Ring(hub') /\ hub.next <= hub'.next
      /\ Told(hub', w.from, TrueEvents')
  BY <1>1, <1>4, <1>5, <1>7, PushTurn
<1>9. AppTypes'
  BY <1>2, <1>3, <1>5, <1>8 DEF AppTypes, MaybeTerminal
<1> QED BY <1>1, <1>8, <1>9, TurnStep

\* The pane gets a new shell.
LEMMA PaneRespawnsStep ==
  ASSUME IInv, PaneRespawns
  PROVE  IInv'
<1>1. PICK watched \in BOOLEAN :
        /\ PaneDies(watched)
        /\ pane' = [Died(watched) EXCEPT !.label = NoLabel,
                      !.state = "Unknown", !.change = 0, !.managed = FALSE,
                      !.alias = FALSE, !.argv = FALSE, !.process = "none"]
        /\ hub' = PushAll(hub, DeathEvents(watched))
        /\ Turn(Death, {StatusOf(Died(watched).state, Died(watched).seen)})
  BY DEF PaneRespawns
<1> DEFINE p == Died(watched)
           passing == {StatusOf(p.state, p.seen)}
           es == DeathEvents(watched)
           c == IF WithAgent THEN NextChange("Idle") ELSE change
<1>2. /\ Open /\ holder' = (IF holder = "mine" THEN Nobody ELSE holder)
      /\ change' = c /\ AppTypes
  BY <1>1 DEF PaneDies, IInv, Without
<1>3. /\ p \in PaneType /\ p.state \in States
      /\ WithAgent => p.state = "Idle"
      /\ c \in Nat
  BY <1>2, DiedIs DEF PaneType
<1>4. passing \in SUBSET Statuses
  BY <1>3, StatusIs
<1> HIDE DEF p, c
<1>5. /\ pane' = [p EXCEPT !.label = NoLabel, !.state = "Unknown",
                   !.change = 0, !.managed = FALSE, !.alias = FALSE,
                   !.argv = FALSE, !.process = "none"]
      /\ hub' = PushAll(hub, es) /\ Turn(Death, passing)
  BY <1>1 DEF p
<1>6. pane' \in PaneType /\ pane'.change = 0 /\ ~pane'.alias
  BY <1>3, <1>5 DEF PaneType, Labels, States
<1> HIDE DEF es
<1>7. WithAgent => /\ hist'.lost /\ hist'.released
                   /\ StatusOf("Idle", p.seen) \in hist'.held
  <2>1. WithAgent => Death = "release"
    BY DEF Death
  <2>2. hist \in HistType
    BY DEF IInv, ThreadTypes
  <2>3. /\ passing \subseteq hist'.held
        /\ Death # "update" => hist'.lost
        /\ Death = "release" => hist'.released
    <3> HIDE DEF passing
    <3> QED BY <1>4, <1>5, <1>6, <2>2, TurnIs
  <2> QED BY <1>3, <2>1, <2>3
<1>8. es \in Seq(TrueEvents')
  BY <1>2, <1>7, DeathEventsAre DEF p, es
<1> HIDE DEF passing
<1>9. /\ Ring(hub') /\ hub.next <= hub'.next
      /\ Told(hub', w.from, TrueEvents')
  BY <1>4, <1>5, <1>6, <1>8, PushTurn
<1>10. AppTypes'
  BY <1>2, <1>3, <1>6, <1>9 DEF AppTypes, MaybeTerminal
<1> QED BY <1>4, <1>5, <1>9, <1>10, TurnStep

\* pane.close.
LEMMA CloseStep ==
  ASSUME IInv, Close
  PROVE  IInv'
<1> DEFINE g == Event(pane.id, "gone", NoLabel, NoStatus)
<1>1. /\ Open /\ pane' = [pane EXCEPT !.id = Gone, !.managed = FALSE]
      /\ holder' = (IF holder = "mine" THEN Nobody ELSE holder)
      /\ hub' = Push(hub, g) /\ change' = change /\ Turn("update", {})
      /\ AppTypes /\ pane \in PaneType
  BY DEF Close, IInv, AppTypes, Without
<1>2. /\ pane' \in PaneType /\ pane'.id = Gone /\ pane'.alias = pane.alias
      /\ pane'.change = pane.change
  <2>1. Gone \in 0 .. 2
    BY DEF Gone
  <2> QED BY <1>1, <2>1 DEF PaneType
<1>3. hist'.lost
  BY <1>1, <1>2, TurnIs DEF IInv, ThreadTypes, Open
<1>4. g \in EventType /\ g.pane # 9 /\ g.kind = "gone"
  <2>1. /\ pane.id \in PaneIds /\ pane.id # 9 /\ NoStatus \in MaybeStatus
        /\ NoLabel \in Labels /\ "gone" \in EventKinds
    BY <1>1 DEF PaneType, PaneIds, MaybeStatus, Labels, EventKinds
  <2> QED BY <2>1, EventIs
<1> HIDE DEF g
<1>5. g \in TrueEvents'
  BY <1>3, <1>4 DEF TrueEvents
<1>6. /\ Ring(hub') /\ hub.next <= hub'.next
      /\ Told(hub', w.from, TrueEvents')
  BY <1>1, <1>2, <1>5, PushOneTurn
<1>7. AppTypes'
  BY <1>1, <1>2, <1>6 DEF AppTypes, MaybeTerminal
<1> QED BY <1>1, <1>6, <1>7, TurnStep

\* pane.move.
LEMMA MoveStep ==
  ASSUME IInv, Move
  PROVE  IInv'
<1> DEFINE g == Event(pane.id, "moved", NoLabel, NoStatus)
<1>1. PICK to \in {pane.id, 2} :
        /\ Open /\ pane' = [pane EXCEPT !.id = to] /\ hub' = Push(hub, g)
        /\ UNCHANGED <<holder, change>> /\ Turn("move", {})
  BY DEF Move
<1>2. AppTypes /\ pane \in PaneType /\ to \in 0 .. 2
  BY DEF IInv, AppTypes, PaneType
<1>3. /\ pane' \in PaneType /\ pane'.alias = pane.alias
      /\ pane'.change = pane.change
  BY <1>1, <1>2 DEF PaneType
<1>4. hist'.lost
  BY <1>1, <1>3, TurnIs DEF IInv, ThreadTypes
<1>5. g \in EventType /\ g.pane # 9 /\ g.kind = "moved"
  <2>1. /\ pane.id \in PaneIds /\ pane.id # 9 /\ NoStatus \in MaybeStatus
        /\ NoLabel \in Labels /\ "moved" \in EventKinds
    BY <1>2 DEF PaneType, PaneIds, MaybeStatus, Labels, EventKinds
  <2> QED BY <2>1, EventIs
<1> HIDE DEF g
<1>6. g \in TrueEvents'
  BY <1>4, <1>5 DEF TrueEvents
<1>7. /\ Ring(hub') /\ hub.next <= hub'.next
      /\ Told(hub', w.from, TrueEvents')
  BY <1>1, <1>3, <1>6, PushOneTurn
<1>8. AppTypes'
  BY <1>1, <1>2, <1>3, <1>7 DEF AppTypes
<1> QED BY <1>1, <1>7, <1>8, TurnStep

\* An event that says nothing of the agent.
LEMMA UpdatedStep ==
  ASSUME IInv, Updated
  PROVE  IInv'
<1>1. PICK p \in {pane.id, 9} :
        /\ hub' = Push(hub, Event(p, "updated", NoLabel, NoStatus))
        /\ UNCHANGED <<pane, holder, change>> /\ Turn("update", {})
  BY DEF Updated
<1> DEFINE g == Event(p, "updated", NoLabel, NoStatus)
<1>2. AppTypes /\ pane \in PaneType
  BY DEF IInv, AppTypes
<1>3. g \in EventType /\ g.kind = "updated"
  <2>1. /\ p \in PaneIds /\ NoStatus \in MaybeStatus
        /\ NoLabel \in Labels /\ "updated" \in EventKinds
    BY <1>2 DEF PaneType, PaneIds, MaybeStatus, Labels, EventKinds
  <2> QED BY <2>1, EventIs
<1>4. hub' = Push(hub, g)
  BY <1>1
<1> HIDE DEF g
<1>5. g \in TrueEvents'
  BY <1>3 DEF TrueEvents
<1>6. /\ Ring(hub') /\ hub.next <= hub'.next
      /\ Told(hub', w.from, TrueEvents')
  BY <1>1, <1>2, <1>4, <1>5, PushOneTurn
<1>7. AppTypes'
  BY <1>1, <1>2, <1>6 DEF AppTypes
<1> QED BY <1>1, <1>6, <1>7, TurnStep

\* The turns that publish nothing.
LEMMA QuietSteps ==
  ASSUME IInv, ProcessStarts \/ MarkSeen \/ Rename
  PROVE  IInv'
<1>1. /\ pane \in PaneType /\ holder \in MaybeTerminal
      /\ pane.alias => holder # "mine"
  BY DEF IInv, AppTypes
<1>2. CASE ProcessStarts
  <2>1. /\ pane' = [pane EXCEPT !.process = "live"]
        /\ UNCHANGED <<hub, holder, change>> /\ Turn("update", {})
    BY <1>2 DEF ProcessStarts
  <2>2. /\ pane' \in PaneType /\ pane'.change = pane.change
        /\ pane'.alias = pane.alias
    BY <1>1, <2>1 DEF PaneType
  <2> QED BY <1>1, <2>1, <2>2, QuietTurn
<1>3. CASE MarkSeen
  <2>1. /\ pane' = [pane EXCEPT !.seen = TRUE]
        /\ UNCHANGED <<hub, holder, change>> /\ Turn("update", {})
    BY <1>3 DEF MarkSeen
  <2>2. /\ pane' \in PaneType /\ pane'.change = pane.change
        /\ pane'.alias = pane.alias
    BY <1>1, <2>1 DEF PaneType
  <2> QED BY <1>1, <2>1, <2>2, QuietTurn
<1>4. CASE Rename
  <2>1. /\ RenameMine \/ RenameOther
        /\ UNCHANGED <<hub, change>> /\ Turn("update", {})
    BY <1>4 DEF Rename
  <2>2. /\ pane' \in PaneType /\ pane'.change = pane.change
        /\ holder' \in MaybeTerminal /\ (pane'.alias => holder' # "mine")
    <3>1. CASE RenameMine
      <4>1. CASE pane' = [pane EXCEPT !.alias = FALSE] /\ holder' = "mine"
        BY <1>1, <4>1 DEF PaneType, MaybeTerminal, Terminals
      <4>2. CASE /\ pane' = [pane EXCEPT !.alias = TRUE]
                 /\ holder' = Without("mine")
        BY <1>1, <4>2 DEF PaneType, Without, MaybeTerminal, Nobody
      <4>3. CASE /\ pane' = [pane EXCEPT !.alias = FALSE, !.managed = FALSE]
                 /\ holder' = Without("mine")
        BY <1>1, <4>3 DEF PaneType, Without, MaybeTerminal, Nobody
      <4> QED BY <3>1, <4>1, <4>2, <4>3 DEF RenameMine
    <3>2. CASE RenameOther
      BY <1>1, <3>2 DEF RenameOther, MaybeTerminal, Terminals, Nobody
    <3> QED BY <2>1, <3>1, <3>2
  <2> QED BY <2>1, <2>2, QuietTurn
<1> QED BY <1>2, <1>3, <1>4

\* No turn of the application breaks the invariant.
LEMMA AppStep ==
  ASSUME IInv, App
  PROVE  IInv'
BY ObserveStep, ProcessExitStep, HookReleaseStep, PaneExitsStep,
   PaneRespawnsStep, CloseStep, MoveStep, UpdatedStep, QuietSteps DEF App

-----------------------------------------------------------------------------
(* The connection's thread *)

\* The application does nothing meanwhile.
AppStays == UNCHANGED <<hub, pane, holder, change, req>>

\* The agent's status is among those it had.
LEMMA StatusHeld ==
  ASSUME IInv, Active
  PROVE  Status \in hist.held /\ Status \in Statuses
<1>1. pane.state \in States
  BY DEF IInv, AppTypes, PaneType
<1> QED BY <1>1, StatusIs DEF IInv, EventsInv, Status

\* An answer keeps the invariant when it is true.
LEMMA AnswerStep ==
  ASSUME IInv, AppStays, NEW kind, NEW status, NEW t,
         Answer(kind, status, t),
         kind = "success" =>
           /\ status \in req.until
           /\ w.first # Nobody => t = w.first
           /\ t = "mine" => status \in hist.held
           /\ req.kind = "prompt" => hist.effect \/ hist.released,
         kind = "not_running" => hist.lost,
         kind \in {"timeout", "stalled"} /\ req.kind # "events"
           /\ w.first = "mine" => hist.unmet
  PROVE  IInv'
<1>1. /\ answer' = [kind |-> kind, status |-> status, terminal |-> t]
      /\ w' = NoThread("done", w.first) /\ hist' = hist
  BY DEF Answer
<1>2. answer'.kind = kind /\ answer'.status = status /\ answer'.terminal = t
  BY <1>1
<1>3. w.first \in MaybeTerminal
  BY DEF IInv, ThreadTypes, ThreadType
<1>4. NoInfo \in InfoType
  BY DEF NoInfo, InfoType, MaybeTerminal, PaneIds, Labels, MaybeStatus, Gone
<1>5. /\ w' \in ThreadType /\ w'.phase = "done" /\ w'.stage = "final"
      /\ w'.from = 0 /\ w'.last = 0 /\ w'.first = w.first /\ ~w'.gated
      /\ w'.matched = NoStatus /\ ~w'.offer
  BY <1>1, <1>3, <1>4 DEF NoThread, ThreadType, PhaseNames, MaybeStatus
<1>6. AppTypes'
  BY DEF IInv, AppTypes, AppStays
<1>7. ThreadTypes'
  <2>1. hub'.next \in Nat /\ hub' = hub /\ req' = req
    BY DEF IInv, AppTypes, Ring, HubType, AppStays
  <2> QED BY <1>1, <1>5, <2>1 DEF IInv, ThreadTypes
<1>8. EventsInv' /\ PhaseInv' /\ MatchInv' /\ UnmetInv' /\ EffectInv'
      /\ OfferInv'
  BY <1>5 DEF EventsInv, Active, PhaseInv, MatchInv, UnmetInv, EffectInv,
     OfferInv
<1>9. AgentInv'
  BY <1>1, <1>5 DEF IInv, AgentInv, AppStays
<1>10. AnswersAreTrue'
  <2>1. req' = req
    BY DEF AppStays
  <2> QED BY <1>1, <1>2, <1>5, <2>1 DEF AnswersAreTrue, SuccessIsTrue,
          NotRunningIsTrue, TimeoutIsTrue, PromptHadEffect
<1> QED BY <1>6, <1>7, <1>8, <1>9, <1>10 DEF IInv

\* A failure says nothing of the agent.
LEMMA FailedStep ==
  ASSUME IInv, AppStays, Failed
  PROVE  IInv'
BY AnswerStep DEF Failed

\* A step of the thread that does not answer.
LEMMA WorkStep ==
  ASSUME IInv, AppStays, answer' = answer, Active, w' \in ThreadType,
         w'.phase \notin {"new", "done"}, w'.from = w.from,
         w'.from <= w'.last, w'.last <= hub.next,
         hist' \in HistType, hist'.held = hist.held, hist'.lost = hist.lost,
         hist'.released = hist.released,
         PhaseInv', AgentInv', MatchInv', UnmetInv', EffectInv', OfferInv'
  PROVE  IInv'
<1>1. hub' = hub /\ pane' = pane /\ req' = req
  BY DEF AppStays
<1>2. AppTypes'
  BY DEF IInv, AppTypes, AppStays
<1>3. ThreadTypes'
  BY <1>1 DEF IInv, ThreadTypes, Active
<1>4. EventsInv'
  <2>1. TrueEvents' = TrueEvents
    BY DEF TrueEvents
  <2>2. Status' = Status
    BY <1>1 DEF Status
  <2> QED BY <1>1, <2>1, <2>2 DEF IInv, EventsInv
<1>5. AnswersAreTrue'
  <2>1. answer' = NoAnswer
    BY DEF IInv, ThreadTypes, Active
  <2> QED BY <2>1 DEF AnswersAreTrue, SuccessIsTrue, NotRunningIsTrue,
          TimeoutIsTrue, PromptHadEffect, NoAnswer
<1> QED BY <1>2, <1>3, <1>4, <1>5 DEF IInv

\* The request arrives.
LEMMA BeginStep ==
  ASSUME IInv, AppStays, Begin
  PROVE  IInv'
<1>1. /\ w.phase = "new" /\ answer' = answer
      /\ w' = [w EXCEPT !.phase = "resolve", !.from = hub.next,
                        !.last = hub.next]
      /\ hist' = [hist EXCEPT !.held = {Status}]
  BY DEF Begin
<1>2. /\ hub' = hub /\ pane' = pane /\ holder' = holder /\ req' = req
      /\ hub.next \in Nat /\ Ring(hub)
  BY DEF AppStays, IInv, AppTypes, Ring, HubType
<1>3. /\ w' \in ThreadType /\ w'.phase = "resolve" /\ w'.from = hub.next
      /\ w'.last = hub.next /\ w'.first = w.first /\ w'.stage = w.stage
      /\ w'.gated = w.gated /\ w'.expired = w.expired
      /\ w'.offer = w.offer /\ w'.matched = w.matched /\ w'.base = w.base
  BY <1>1, <1>2 DEF IInv, ThreadTypes, ThreadType, PhaseNames
<1>4. Status \in Statuses
  <2>1. pane.state \in States
    BY DEF IInv, AppTypes, PaneType
  <2> QED BY <2>1, StatusIs DEF Status
<1>5. /\ hist' \in HistType /\ hist'.held = {Status}
      /\ hist'.lost = hist.lost
  BY <1>1, <1>4 DEF IInv, ThreadTypes, HistType
<1>6. AppTypes'
  BY DEF IInv, AppTypes, AppStays
<1>7. ThreadTypes'
  BY <1>1, <1>2, <1>3, <1>5 DEF IInv, ThreadTypes
<1>8. EventsInv'
  <2> DEFINE l == Len(hub.events)
             E == TrueEvents'
  <2>1. l \in Nat /\ \A i \in 1 .. l : hub.events[i].seq = hub.next - l + i
    BY <1>2 DEF Ring, HubType
  <2>2. ASSUME NEW i \in 1 .. l PROVE ~(hub.events[i].seq > hub.next)
    <3> HIDE DEF l
    <3> QED BY <1>2, <2>1
  <2> HIDE DEF E
  <2>3. Told(hub, hub.next, E)
    BY <2>2 DEF Told
  <2>4. Status' \in hist'.held
    BY <1>2, <1>5 DEF Status
  <2> QED BY <1>2, <1>3, <2>3, <2>4 DEF EventsInv, E
<1>9. PhaseInv'
  BY <1>1, <1>2, <1>3 DEF IInv, PhaseInv
<1>10. AgentInv'
  BY <1>2, <1>3, <1>5 DEF IInv, AgentInv
<1>11. MatchInv' /\ UnmetInv' /\ EffectInv' /\ OfferInv'
  BY <1>1, <1>2, <1>3 DEF IInv, PhaseInv, MatchInv, UnmetInv, EffectInv,
     OfferInv
<1>12. AnswersAreTrue'
  <2>1. answer' = NoAnswer
    BY <1>1 DEF IInv, ThreadTypes
  <2> QED BY <2>1 DEF AnswersAreTrue, SuccessIsTrue, NotRunningIsTrue,
          TimeoutIsTrue, PromptHadEffect, NoAnswer
<1> QED BY <1>6, <1>7, <1>8, <1>9, <1>10, <1>11, <1>12 DEF IInv

\* What agent_get returns, and when.
LEMMA AgentGetIs ==
  ASSUME IInv, NEW a \in AgentGet
  PROVE  /\ a \in InfoType /\ a.terminal \in Terminals
         /\ a.terminal = "mine" =>
              /\ Reachable /\ a.status = Status /\ a.change = pane.change
              /\ (a.named <=> holder = "mine") /\ a.label = pane.label
         /\ a.terminal = "other" =>
              holder = "other" /\ a.pane = 9 /\ a.change = 0
         /\ \A b \in AgentGet : b = a
<1>1. /\ pane \in PaneType /\ holder \in MaybeTerminal /\ req \in Requests
      /\ pane.state \in States
  BY DEF IInv, AppTypes, ThreadTypes, PaneType
<1>2. Status \in MaybeStatus
  BY <1>1, StatusIs DEF Status, MaybeStatus
<1>3. PICK t \in Terminals :
        /\ a = InfoOf(t) /\ \A b \in AgentGet : b = a
        /\ IF req.target = "name" THEN holder = t
           ELSE t = "mine" /\ Open
                /\ IsAgentTerminal(pane, holder)
  <2>1. CASE req.target = "name"
    BY <1>1, <2>1 DEF AgentGet, MaybeTerminal
  <2>2. CASE req.target # "name"
    BY <1>1, <2>2 DEF AgentGet, Terminals
  <2> QED BY <2>1, <2>2
<1>4. CASE t = "mine"
  <2> DEFINE n == holder = "mine"
  <2>1. a = [terminal |-> "mine", pane |-> pane.id, named |-> n,
             label |-> pane.label, status |-> Status, change |-> pane.change]
    BY <1>3, <1>4 DEF InfoOf
  <2>2. /\ n \in BOOLEAN /\ (n <=> holder = "mine")
        /\ pane.id \in PaneIds /\ pane.label \in Labels
        /\ pane.change \in Nat
    BY <1>1 DEF PaneType, PaneIds
  <2> HIDE DEF n
  <2>3. /\ a \in InfoType /\ a.terminal = "mine" /\ a.status = Status
        /\ a.change = pane.change /\ a.label = pane.label /\ a.named = n
    BY <1>2, <2>1, <2>2 DEF InfoType, MaybeTerminal, Terminals
  <2>4. Reachable
    BY <1>3, <1>4 DEF Reachable
  <2> QED BY <1>3, <2>2, <2>3, <2>4 DEF Terminals
<1>5. CASE t = "other"
  <2>1. a = [terminal |-> "other", pane |-> 9, named |-> TRUE,
             label |-> "codex", status |-> "Idle", change |-> 0]
    BY <1>3, <1>5 DEF InfoOf
  <2>2. /\ a \in InfoType /\ a.terminal = "other" /\ a.pane = 9
        /\ a.change = 0
    BY <2>1 DEF InfoType, MaybeTerminal, Terminals, PaneIds, Labels,
       MaybeStatus, Statuses, States
  <2>3. holder = "other"
    BY <1>3, <1>5
  <2> QED BY <1>3, <2>2, <2>3 DEF Terminals
<1> QED BY <1>4, <1>5 DEF Terminals

\* The agent that is not lost is found.
LEMMA AgentFound ==
  ASSUME IInv, w.phase \in {"probe", "dead"}, ~hist.lost
  PROVE  \E a \in AgentGet : SameAgent(a, w.agent)
<1> DEFINE a == InfoOf("mine")
<1>1. /\ w.first = "mine" /\ w.agent.terminal = "mine" /\ Reachable
      /\ (w.agent.named <=> holder = "mine") /\ w.agent.label = pane.label
  <2>1. /\ w.first # Nobody /\ w.agent.terminal = w.first
        /\ w.first = "other" => hist.lost
        /\ w.first = "mine" /\ ~hist.lost => Reachable
        /\ Current(w.agent)
    BY DEF IInv, AgentInv, PhaseInv
  <2>2. w.first \in MaybeTerminal
    BY DEF IInv, ThreadTypes, ThreadType
  <2> QED BY <2>1, <2>2 DEF Current, MaybeTerminal, Terminals
<1>2. a \in AgentGet
  BY <1>1 DEF AgentGet, Reachable, Nobody
<1>3. /\ a.terminal = "mine" /\ (a.named <=> holder = "mine")
      /\ a.label = pane.label
  BY DEF InfoOf
<1> HIDE DEF a
<1>4. SameAgent(a, w.agent)
  <2>1. pane.label = NoLabel => holder = "mine" \/ w.agent.label = NoLabel
    BY <1>1
  <2> QED BY <1>1, <1>3, <2>1 DEF SameAgent
<1> QED BY <1>2, <1>4

\* The types of what the thread changes.
LEMMA ThreadIs ==
  ASSUME IInv
  PROVE  /\ w \in ThreadType /\ hist \in HistType /\ hub.next \in Nat
         /\ w.from \in Nat /\ w.last \in Nat /\ w.from <= w.last
         /\ w.last <= hub.next /\ w.agent \in InfoType
         /\ w.first \in MaybeTerminal /\ w.gated \in BOOLEAN
         /\ w.expired \in BOOLEAN /\ w.offer \in BOOLEAN
         /\ w.shown \in MaybeStatus /\ req.kind \in Kinds
         /\ pane.change \in Nat
BY RequestsAssumption
   DEF IInv, AppTypes, Ring, HubType, ThreadTypes, ThreadType, PaneType

\* The first look at the agent.
LEMMA ResolveStep ==
  ASSUME IInv, AppStays, Resolve
  PROVE  IInv'
<1>1. w.phase = "resolve" /\ req.kind # "events"
  BY DEF Resolve
<1>2. CASE AgentGet = {}
  BY <1>2, FailedStep DEF Resolve
<1>3. CASE AgentGet # {}
  <2>1. PICK a \in AgentGet :
          IF req.kind = "wait" /\ a.status \in req.until
          THEN Answer("success", a.status, a.terminal)
          ELSE /\ w' = [w EXCEPT !.agent = a, !.first = a.terminal,
                          !.phase = IF req.kind = "wait" THEN "loop"
                                    ELSE "prompt"]
               /\ UNCHANGED <<answer, hist>>
    BY <1>3 DEF Resolve
  <2>2. /\ a \in InfoType /\ a.terminal \in Terminals
        /\ a.terminal = "mine" =>
             /\ Reachable /\ a.status = Status /\ a.change = pane.change
             /\ (a.named <=> holder = "mine") /\ a.label = pane.label
        /\ a.terminal = "other" =>
             holder = "other" /\ a.pane = 9 /\ a.change = 0
    BY AgentGetIs
  <2>3. Active /\ Status \in hist.held
    BY <1>1, StatusHeld DEF Active
  <2>4. /\ w.first = Nobody /\ ~w.expired /\ w.stage = "final" /\ ~w.gated
        /\ ~w.offer /\ w.matched = NoStatus /\ w.base = 0
    BY <1>1 DEF IInv, PhaseInv
  <2>5. CASE req.kind = "wait" /\ a.status \in req.until
    <3>1. Answer("success", a.status, a.terminal)
      BY <2>1, <2>5
    <3>2. a.terminal = "mine" => a.status \in hist.held
      BY <2>2, <2>3
    <3> QED BY <2>4, <2>5, <3>1, <3>2, AnswerStep
  <2>6. CASE ~(req.kind = "wait" /\ a.status \in req.until)
    <3> DEFINE ph == IF req.kind = "wait" THEN "loop" ELSE "prompt"
    <3>1. /\ w' = [w EXCEPT !.agent = a, !.first = a.terminal, !.phase = ph]
          /\ answer' = answer /\ hist' = hist
      BY <2>1, <2>6
    <3>2. /\ req.kind = "wait" => ph = "loop"
          /\ req.kind # "wait" => ph = "prompt" /\ req.kind = "prompt"
      BY <1>1, ThreadIs DEF Kinds
    <3> HIDE DEF ph
    <3>3. /\ w' \in ThreadType /\ w'.phase = ph /\ w'.from = w.from
          /\ w'.last = w.last /\ w'.agent = a /\ w'.first = a.terminal
          /\ w'.stage = w.stage /\ w'.gated = w.gated
          /\ w'.expired = w.expired /\ w'.offer = w.offer
          /\ w'.matched = w.matched /\ w'.base = w.base
      BY <2>2, <3>1, <3>2, ThreadIs DEF ThreadType, PhaseNames,
         MaybeTerminal
    <3>4. req' = req /\ holder' = holder /\ pane' = pane
      BY DEF AppStays
    <3>5. AgentInv'
      <4>1. Current(a)' /\ (a.terminal = "mine" => Reachable')
        BY <2>2, <3>1, <3>3, <3>4 DEF Current, Reachable, Open,
           IsAgentTerminal
      <4>2. holder = "other" => hist.lost
        BY DEF IInv, AgentInv
      <4>3. a.terminal # Nobody
        BY <2>2 DEF Terminals, Nobody
      <4> QED BY <2>2, <2>4, <3>1, <3>3, <3>4, <4>1, <4>2, <4>3
              DEF AgentInv
    <3>6. PhaseInv' /\ MatchInv' /\ UnmetInv' /\ EffectInv' /\ OfferInv'
      BY <1>1, <2>4, <3>2, <3>3, <3>4 DEF PhaseInv, MatchInv, UnmetInv,
         EffectInv, OfferInv
    <3> QED BY <2>3, <3>1, <3>2, <3>3, <3>5, <3>6, ThreadIs, WorkStep
  <2> QED BY <2>5, <2>6
<1> QED BY <1>2, <1>3

\* The prompt.
LEMMA PromptStep ==
  ASSUME IInv, AppStays, Prompt
  PROVE  IInv'
<1>0. PICK a : a = InfoOf(holder)
  OBVIOUS
<1>1. /\ w.phase = "prompt" /\ holder # Nobody
      /\ IF ~SameAgent(a, w.agent) THEN NotRunning
         ELSE /\ w' = [w EXCEPT !.agent = a, !.base = a.change,
                         !.gated = TRUE, !.stage = "effect",
                         !.phase = "loop"]
              /\ hist' = [hist EXCEPT !.effect = FALSE]
              /\ UNCHANGED answer
  BY <1>0 DEF Prompt
<1>2. /\ holder \in {"mine", "other"} /\ pane \in PaneType
      /\ req.kind = "prompt" /\ Status \in MaybeStatus
  BY <1>1, StatusHeld DEF IInv, AppTypes, PhaseInv, Active, MaybeTerminal,
     Terminals, MaybeStatus
<1>3. /\ a \in InfoType /\ a.terminal = holder
      /\ holder = "mine" =>
           a.named /\ a.label = pane.label /\ a.change = pane.change
      /\ holder = "other" => a.pane = 9 /\ a.change = 0
  <2>1. CASE holder = "mine"
    <3> DEFINE n == holder = "mine"
    <3>1. a = [terminal |-> holder, pane |-> pane.id, named |-> n,
               label |-> pane.label, status |-> Status,
               change |-> pane.change]
      BY <1>0, <2>1 DEF InfoOf
    <3>2. /\ n \in BOOLEAN /\ n /\ pane.id \in PaneIds
          /\ pane.label \in Labels /\ pane.change \in Nat
      BY <1>2, <2>1 DEF PaneType, PaneIds
    <3> HIDE DEF n
    <3> QED BY <1>2, <2>1, <3>1, <3>2 DEF InfoType, MaybeTerminal, Terminals
  <2>2. CASE holder = "other"
    <3>1. a = [terminal |-> holder, pane |-> 9, named |-> TRUE,
               label |-> "codex", status |-> "Idle", change |-> 0]
      BY <1>0, <2>2 DEF InfoOf
    <3> QED BY <2>2, <3>1 DEF InfoType, MaybeTerminal, Terminals, PaneIds,
            Labels, MaybeStatus, Statuses, States
  <2> QED BY <1>2, <2>1, <2>2
<1>4. /\ w.first # Nobody /\ w.agent.terminal = w.first
      /\ w.first = "other" => hist.lost
      /\ w.first = "mine" /\ ~hist.lost => Reachable
      /\ Current(w.agent) /\ (holder = "other" => hist.lost)
      /\ w.first \in {"mine", "other"}
  BY <1>1, <1>2, ThreadIs DEF IInv, AgentInv, MaybeTerminal, Terminals
<1>5. ASSUME ~SameAgent(a, w.agent) PROVE IInv'
  <2>1. hist.lost
    <3> SUFFICES ASSUME ~hist.lost PROVE FALSE
      OBVIOUS
    <3>1. /\ w.first = "mine" /\ holder = "mine"
          /\ w.agent.label = pane.label
      BY <1>2, <1>4 DEF Current
    <3>2. SameAgent(a, w.agent)
      BY <1>3, <1>4, <3>1 DEF SameAgent
    <3> QED BY <1>5, <3>2
  <2> QED BY <1>1, <1>5, <2>1, AnswerStep DEF NotRunning
<1>6. ASSUME SameAgent(a, w.agent) PROVE IInv'
  <2>1. a.terminal = w.first
    BY <1>4, <1>6 DEF SameAgent
  <2>2. /\ w' = [w EXCEPT !.agent = a, !.base = a.change, !.gated = TRUE,
                   !.stage = "effect", !.phase = "loop"]
        /\ hist' = [hist EXCEPT !.effect = FALSE] /\ answer' = answer
    BY <1>1, <1>6
  <2>3. a.change \in Nat
    BY <1>3 DEF InfoType
  <2>4. /\ w' \in ThreadType /\ w'.phase = "loop" /\ w'.from = w.from
        /\ w'.last = w.last /\ w'.agent = a /\ w'.first = w.first
        /\ w'.stage = "effect" /\ w'.gated /\ w'.expired = w.expired
        /\ w'.offer = w.offer /\ w'.matched = w.matched
        /\ w'.base = a.change
    BY <1>3, <2>2, <2>3, ThreadIs DEF ThreadType, PhaseNames
  <2>5. /\ hist' \in HistType /\ hist'.held = hist.held
        /\ hist'.lost = hist.lost /\ hist'.released = hist.released
    BY <2>2, ThreadIs DEF HistType
  <2>6. req' = req /\ holder' = holder /\ pane' = pane
    BY DEF AppStays
  <2>7. ~w.expired /\ ~w.offer /\ w.matched = NoStatus
    BY <1>1 DEF IInv, PhaseInv
  <2>8. AgentInv'
    <3>1. Current(a)' /\ (Reachable => Reachable')
      BY <1>3, <1>4, <2>1, <2>4, <2>5, <2>6 DEF Current, Reachable, Open,
       IsAgentTerminal
    <3>2. w.first = "other" => a.change = 0
      BY <1>3, <2>1
    <3> QED BY <1>4, <2>1, <2>4, <2>5, <2>6, <3>1, <3>2 DEF AgentInv
  <2>9. EffectInv'
    <3>1. w.first = "mine" => ~(pane.change > a.change)
      BY <1>3, <2>1, ThreadIs
    <3> QED BY <2>4, <2>6, <3>1 DEF EffectInv
  <2>10. PhaseInv' /\ MatchInv' /\ UnmetInv' /\ OfferInv'
    BY <1>2, <2>4, <2>6, <2>7 DEF PhaseInv, MatchInv, UnmetInv, OfferInv
  <2>11. Active
    BY <1>1 DEF Active
  <2> QED BY <2>2, <2>4, <2>5, <2>8, <2>9, <2>10, <2>11, ThreadIs, WorkStep
<1> QED BY <1>5, <1>6

\* What a wait has found is true of the agent it is for.
LEMMA MatchedStep ==
  ASSUME IInv, AppStays, req.kind # "events",
         w.phase \in {"loop", "probe", "dead"}, NEW a \in InfoType,
         a.terminal = w.first, a.status \in Until,
         w.first = "mine" => a.status \in hist.held,
         req.kind = "prompt" => hist.effect \/ hist.released,
         Current(a), Matched(a)
  PROVE  IInv'
<1>1. CASE w.stage = "final" \/ a.status \in req.until
  <2>1. a.status \in req.until
    BY <1>1 DEF Until
  <2>2. Answer("success", a.status, a.terminal)
    BY <1>1 DEF Matched
  <2> QED BY <2>1, <2>2, AnswerStep
<1>2. CASE ~(w.stage = "final" \/ a.status \in req.until)
  <2> DEFINE e == w.expired /\ req.timeout = "short"
             u == /\ w.expired /\ req.timeout = "short"
                  /\ ~Met(Status, pane.change, req.until, FALSE)
  <2>1. /\ w' = [w EXCEPT !.stage = "final", !.phase = "loop", !.agent = a,
                   !.last = w.from, !.gated = FALSE, !.matched = NoStatus,
                   !.expired = e]
        /\ hist' = [hist EXCEPT !.unmet = u] /\ answer' = answer
    BY <1>2 DEF Matched
  <2>2. /\ e \in BOOLEAN /\ u \in BOOLEAN
        /\ e /\ ~Met(Status, pane.change, req.until, FALSE) => u
    OBVIOUS
  <2> HIDE DEF e, u
  <2>3. /\ w' \in ThreadType /\ w'.phase = "loop" /\ w'.from = w.from
        /\ w'.last = w.from /\ w'.agent = a /\ w'.first = w.first
        /\ w'.stage = "final" /\ ~w'.gated /\ w'.expired = e
        /\ w'.offer = w.offer /\ w'.matched = NoStatus /\ w'.base = w.base
    BY <2>1, <2>2, ThreadIs DEF ThreadType, PhaseNames, MaybeStatus
  <2>4. /\ hist' \in HistType /\ hist'.held = hist.held
        /\ hist'.lost = hist.lost /\ hist'.released = hist.released
        /\ hist'.effect = hist.effect /\ hist'.unmet = u
    BY <2>1, <2>2, ThreadIs DEF HistType
  <2>5. req' = req /\ holder' = holder /\ pane' = pane
    BY DEF AppStays
  <2>6. AgentInv'
    <3>1. Current(a)' /\ (Reachable => Reachable')
      BY <2>3, <2>4, <2>5 DEF Current, Reachable, Open,
       IsAgentTerminal
    <3> QED BY <2>3, <2>4, <2>5, <3>1 DEF IInv, AgentInv
  <2>7. UnmetInv'
    <3>1. /\ Until' = req.until /\ Status' = Status
          /\ w'.gated = FALSE
      BY <2>3, <2>5 DEF Until, Status, ThreadType
    <3>2. Met(Status, pane.change, Until, w.gated)'
            = Met(Status, pane.change, req.until, FALSE)
      BY <2>5, <3>1 DEF Met
    <3> QED BY <2>2, <2>3, <2>4, <3>2 DEF UnmetInv
  <2>8. EffectInv'
    BY <2>3, <2>4, <2>5 DEF EffectInv
  <2>9. PhaseInv' /\ MatchInv' /\ OfferInv'
    BY <2>3, <2>4, <2>5 DEF IInv, PhaseInv, MatchInv, OfferInv
  <2>10. Active /\ w'.last <= hub.next /\ w'.from <= w'.last
    BY <2>3, ThreadIs DEF Active
  <2> QED BY <2>1, <2>3, <2>4, <2>6, <2>7, <2>8, <2>9, <2>10, WorkStep
<1> QED BY <1>1, <1>2

\* The thread goes on without having changed anything but its phase and how
\* far it has read.
LEMMA GoStep ==
  ASSUME IInv, AppStays, req.kind # "events", UNCHANGED <<answer, hist>>,
         w.phase \in {"loop", "probe", "dead"},
         NEW ph \in {"loop", "probe", "dead"}, ph = "dead" => w.expired,
         NEW n \in Nat, w.last <= n, n <= hub.next,
         NEW m \in MaybeStatus,
         m # NoStatus =>
           req.kind = "wait" /\ m \in req.until /\ m \in hist.held,
         w' = [w EXCEPT !.phase = ph, !.last = n, !.matched = m]
  PROVE  IInv'
<1>1. /\ w' \in ThreadType /\ w'.phase = ph /\ w'.from = w.from
      /\ w'.last = n /\ w'.agent = w.agent /\ w'.first = w.first
      /\ w'.stage = w.stage /\ w'.gated = w.gated
      /\ w'.expired = w.expired /\ w'.offer = w.offer /\ w'.matched = m
      /\ w'.base = w.base
  BY ThreadIs DEF ThreadType, PhaseNames
<1>2. req' = req /\ holder' = holder /\ pane' = pane /\ hist' = hist
  BY DEF AppStays
<1>3. AgentInv'
  <2>1. /\ Current(w.agent) => Current(w.agent)'
        /\ Reachable => Reachable'
    BY <1>1, <1>2 DEF Current, Reachable, Open,
       IsAgentTerminal
  <2> QED BY <1>1, <1>2, <2>1 DEF IInv, AgentInv
<1>4. UnmetInv'
  <2>1. Until' = Until /\ Status' = Status
    BY <1>1, <1>2 DEF Until, Status
  <2>2. Met(Status, pane.change, Until, w.gated)'
          = Met(Status, pane.change, Until, w.gated)
    BY <1>1, <1>2, <2>1 DEF Met
  <2> QED BY <1>1, <1>2, <2>2 DEF IInv, UnmetInv
<1>5. PhaseInv' /\ MatchInv' /\ EffectInv' /\ OfferInv'
  BY <1>1, <1>2 DEF IInv, PhaseInv, MatchInv, EffectInv, OfferInv
<1>6. Active /\ w'.from <= w'.last
  BY <1>1, ThreadIs DEF Active
<1> QED BY <1>1, <1>2, <1>3, <1>4, <1>5, <1>6, ThreadIs, WorkStep

\* What the thread reads from the ring is true.
LEMMA BatchIs ==
  ASSUME IInv, Active
  PROVE  Batch(EventsAfter(w.last), w.last, TrueEvents)
<1>1. Ring(hub) /\ Told(hub, w.from, TrueEvents)
  BY DEF IInv, AppTypes, EventsInv
<1>2. Told(hub, w.last, TrueEvents)
  <2>1. ASSUME NEW i \in 1 .. Len(hub.events), hub.events[i].seq > w.last
        PROVE  hub.events[i].event \in TrueEvents
    <3>1. hub.events[i].seq \in Nat
      <4>1. hub.events[i] \in Numbered
        BY <1>1 DEF Ring, HubType
      <4> QED BY <4>1 DEF Numbered
    <3>2. hub.events[i].seq > w.from
      BY <2>1, <3>1, ThreadIs
    <3> QED BY <1>1, <3>2 DEF Told
  <2> QED BY <2>1 DEF Told
<1> QED BY <1>1, <1>2, EventsAfterIs, ThreadIs

\* How far the thread has read then.
LEMMA LastIs ==
  ASSUME NEW n \in Nat, n <= hub.next, hub.next \in Nat, NEW b, NEW E,
         Batch(b, n, E)
  PROVE  LET l == IF b = <<>> THEN n ELSE Last(b).seq
         IN  l \in Nat /\ n <= l /\ l <= hub.next
<1>1. CASE b = <<>>
  BY <1>1
<1>2. CASE b # <<>>
  <2>1. Len(b) \in 1 .. Len(b) /\ Last(b) = b[Len(b)]
    BY <1>2, EmptySeq DEF Batch, Last
  <2>2. b[Len(b)] \in Numbered
    BY <2>1 DEF Batch
  <2>3. b[Len(b)].seq \in Nat
    BY <2>2 DEF Numbered
  <2>4. b[Len(b)].seq > n /\ b[Len(b)].seq <= hub.next
    BY <2>1 DEF Batch
  <2> QED BY <1>2, <2>1, <2>3, <2>4
<1> QED BY <1>1, <1>2

\* A pass over the events.
LEMMA ReadEventsStep ==
  ASSUME IInv, AppStays, ReadEvents
  PROVE  IInv'
<1> DEFINE batch == EventsAfter(w.last)
           own == {i \in DOMAIN batch : batch[i].event.pane = w.agent.pane}
           stops == {i \in own : Stops(batch[i].event)}
           end == IF stops = {} THEN Len(batch) ELSE Min(stops)
           hits == {i \in own : /\ i < end \/ stops = {}
                                /\ batch[i].event.kind = "status"
                                /\ batch[i].event.status \in Until
                                /\ req.kind = "wait"}
           matched == IF hits = {} THEN NoStatus
                      ELSE batch[Max(hits)].event.status
           stop == batch[end].event
           final == IF stop.status \in Until THEN stop.status ELSE matched
           n == IF batch = <<>> THEN w.last ELSE Last(batch).seq
           ph == IF own # {} THEN "probe"
                 ELSE IF w.expired THEN "dead" ELSE "loop"
<1>1. /\ w.phase = "loop" /\ req.kind # "events"
      /\ stops = {} => /\ w' = [w EXCEPT !.last = n, !.matched = matched,
                                  !.phase = ph]
                       /\ UNCHANGED <<answer, hist>>
      /\ stops # {} => IF stop.kind = "released" /\ final # NoStatus
                       THEN Matched([w.agent EXCEPT !.status = final])
                       ELSE NotRunning
  BY DEF ReadEvents
<1>2. Active
  BY <1>1 DEF Active
<1>3. Batch(batch, w.last, TrueEvents)
  BY <1>2, BatchIs
<1>4. n \in Nat /\ w.last <= n /\ n <= hub.next
  BY <1>3, LastIs, ThreadIs
<1> HIDE DEF batch, n
<1>5. /\ batch \in Seq(Numbered) /\ Len(batch) \in Nat
      /\ DOMAIN batch = 1 .. Len(batch)
      /\ \A i \in DOMAIN batch : batch[i].event \in TrueEvents
  BY <1>3 DEF Batch
<1>6. /\ own \in SUBSET (1 .. Len(batch)) /\ stops \in SUBSET Nat
      /\ stops \subseteq own /\ hits \in SUBSET (1 .. Len(batch))
      /\ \A i \in hits : /\ batch[i].event \in TrueEvents
                         /\ batch[i].event.kind = "status"
                         /\ batch[i].event.status \in Until
                         /\ req.kind = "wait"
      /\ \A i \in stops : /\ batch[i].event \in TrueEvents
                          /\ Stops(batch[i].event)
  BY <1>5
<1>7. matched # NoStatus =>
        /\ req.kind = "wait" /\ matched \in Until /\ matched \in hist.held
        /\ matched \in MaybeStatus
  <2> SUFFICES ASSUME matched # NoStatus
               PROVE  /\ req.kind = "wait" /\ matched \in Until
                      /\ matched \in hist.held /\ matched \in MaybeStatus
    OBVIOUS
  <2>1. hits # {} /\ matched = batch[Max(hits)].event.status
    OBVIOUS
  <2> HIDE DEF hits, matched
  <2>2. Max(hits) \in hits
    BY <1>5, <1>6, <2>1, MaxIs
  <2> QED BY <1>6, <2>1, <2>2 DEF TrueEvents, EventType
<1>8. req.kind = "wait" => Until = req.until
  BY ThreadIs DEF IInv, PhaseInv, Until
<1>9. CASE stops = {}
  <2>1. ph \in {"loop", "probe", "dead"} /\ (ph = "dead" => w.expired)
    OBVIOUS
  <2>2. matched \in MaybeStatus
    <3> HIDE DEF matched
    <3> QED BY <1>7 DEF MaybeStatus
  <2> HIDE DEF ph, matched, stops
  <2>3. w' = [w EXCEPT !.phase = ph, !.last = n, !.matched = matched]
    BY <1>1, <1>9, ThreadIs DEF ThreadType
  <2> QED BY <1>1, <1>4, <1>7, <1>8, <1>9, <2>1, <2>2, <2>3, GoStep
<1>10. CASE stops # {}
  <2> HIDE DEF stops
  <2>1. end \in stops
    BY <1>6, <1>10, MinIs
  <2> HIDE DEF end
  <2>2. /\ stop \in TrueEvents /\ Stops(stop)
    BY <1>6, <2>1
  <2> HIDE DEF stop
  <2>3. stop.kind \in {"released", "moved", "gone", "detected"}
    BY <2>2 DEF Stops
  <2>4. hist.lost
    BY <2>2, <2>3 DEF TrueEvents
  <2>5. ASSUME stop.kind = "released" /\ final # NoStatus PROVE IInv'
    <3>1. hist.released /\ stop.status \in hist.held
      BY <2>2, <2>5 DEF TrueEvents
    <3>2. final \in Until /\ final \in hist.held
      <4> HIDE DEF matched
      <4> QED BY <1>7, <2>5, <3>1
    <3> HIDE DEF final
    <3>3. PICK a : a = [w.agent EXCEPT !.status = final]
      OBVIOUS
    <3>4. final \in MaybeStatus
      BY <3>2, ThreadIs DEF HistType, MaybeStatus
    <3>5. /\ a \in InfoType /\ a.terminal = w.agent.terminal
          /\ a.pane = w.agent.pane /\ a.named = w.agent.named
          /\ a.label = w.agent.label /\ a.status = final
      BY <3>3, <3>4, ThreadIs DEF InfoType
    <3>6. w.agent.terminal = w.first /\ Current(w.agent)
      BY <1>1 DEF IInv, AgentInv
    <3>7. Current(a)
      BY <3>5, <3>6 DEF Current
    <3>8. Matched(a)
      BY <1>1, <1>10, <2>5, <3>3
    <3> QED BY <1>1, <3>1, <3>2, <3>5, <3>6, <3>7, <3>8, MatchedStep
  <2>6. ASSUME ~(stop.kind = "released" /\ final # NoStatus) PROVE IInv'
    <3>1. NotRunning
      BY <1>1, <1>10, <2>6
    <3> QED BY <2>4, <3>1, AnswerStep DEF NotRunning
  <2> QED BY <2>5, <2>6
<1> QED BY <1>9, <1>10

\* The agent that is looked at is the agent waited for, and what is asked of
\* it holds of it.
LEMMA LookIs ==
  ASSUME IInv, req.kind # "events", w.phase \in {"probe", "dead"},
         NEW a \in AgentGet, ~\A b \in AgentGet : ~SameAgent(b, w.agent)
  PROVE  /\ a \in InfoType /\ a.terminal = w.first /\ Current(a)
         /\ w.first = "mine" =>
              a.status = Status /\ a.change = pane.change
         /\ Met(a.status, a.change, Until, w.gated) =>
              /\ a.status \in Until
              /\ w.first = "mine" => a.status \in hist.held
              /\ req.kind = "prompt" => hist.effect \/ hist.released
<1>1. /\ a \in InfoType /\ a.terminal \in Terminals
      /\ a.terminal = "mine" =>
           /\ Reachable /\ a.status = Status /\ a.change = pane.change
           /\ (a.named <=> holder = "mine") /\ a.label = pane.label
      /\ a.terminal = "other" =>
           holder = "other" /\ a.pane = 9 /\ a.change = 0
      /\ \A b \in AgentGet : b = a
  BY AgentGetIs
<1>2. SameAgent(a, w.agent)
  BY <1>1
<1>3. /\ w.agent.terminal = w.first
      /\ w.first = "other" => w.base = 0
  BY DEF IInv, AgentInv
<1>4. a.terminal = w.first
  BY <1>2, <1>3 DEF SameAgent
<1>5. Current(a)
  BY <1>1, <1>4 DEF Current
<1>6. ASSUME Met(a.status, a.change, Until, w.gated)
      PROVE  /\ a.status \in Until
             /\ w.first = "mine" => a.status \in hist.held
             /\ req.kind = "prompt" => hist.effect \/ hist.released
  <2>1. a.status \in Until /\ (w.gated => a.change > w.base)
    BY <1>6 DEF Met
  <2>2. Status \in hist.held
    BY StatusHeld DEF Active
  <2>3. ASSUME req.kind = "prompt" PROVE hist.effect \/ hist.released
    <3>1. IF w.gated THEN w.first = "mine" /\ pane.change > w.base
                          => hist.effect
          ELSE hist.effect \/ hist.released
      BY <2>3 DEF IInv, EffectInv
    <3>2. w.gated => w.first = "mine"
      <4>1. w.gated /\ w.first = "other" => 0 > 0
        BY <1>1, <1>3, <1>4, <2>1
      <4> QED BY <1>1, <1>4, <4>1 DEF Terminals
    <3> QED BY <1>1, <1>4, <2>1, <3>1, <3>2
  <2> QED BY <1>1, <1>4, <2>1, <2>2, <2>3
<1> QED BY <1>1, <1>4, <1>5, <1>6

\* The look after an event.
LEMMA ProbeStep ==
  ASSUME IInv, AppStays, Probe
  PROVE  IInv'
<1>1. w.phase = "probe" /\ req.kind # "events"
  BY DEF Probe, IInv, PhaseInv
<1>2. CASE \A a \in AgentGet : ~SameAgent(a, w.agent)
  <2>1. hist.lost
    BY <1>1, <1>2, AgentFound
  <2> QED BY <1>2, <2>1, AnswerStep DEF Probe, NotRunning
<1>3. CASE ~\A a \in AgentGet : ~SameAgent(a, w.agent)
  <2>1. PICK a \in AgentGet :
          IF w.matched # NoStatus
          THEN Matched([a EXCEPT !.status = w.matched])
          ELSE IF Met(a.status, a.change, Until, w.gated) THEN Matched(a)
          ELSE Go(IF w.expired THEN "dead" ELSE "loop")
    BY <1>3 DEF Probe
  <2>2. /\ a \in InfoType /\ a.terminal = w.first /\ Current(a)
        /\ Met(a.status, a.change, Until, w.gated) =>
             /\ a.status \in Until
             /\ w.first = "mine" => a.status \in hist.held
             /\ req.kind = "prompt" => hist.effect \/ hist.released
    BY <1>1, <1>3, LookIs
  <2>3. CASE w.matched # NoStatus
    <3>1. /\ req.kind = "wait" /\ w.matched \in req.until
          /\ w.matched \in hist.held
      BY <2>3 DEF IInv, MatchInv
    <3>2. Until = req.until /\ w.matched \in MaybeStatus
      BY <3>1, ThreadIs DEF IInv, PhaseInv, Until, ThreadType
    <3>3. PICK b : b = [a EXCEPT !.status = w.matched]
      OBVIOUS
    <3>4. /\ b \in InfoType /\ b.terminal = a.terminal
          /\ b.pane = a.pane /\ b.named = a.named
          /\ b.label = a.label /\ b.status = w.matched
      BY <2>2, <3>2, <3>3 DEF InfoType
    <3>5. Current(b)
      BY <2>2, <3>4 DEF Current
    <3>6. Matched(b)
      BY <2>1, <2>3, <3>3
    <3> QED BY <1>1, <2>2, <3>1, <3>2, <3>4, <3>5, <3>6, MatchedStep
  <2>4. CASE /\ w.matched = NoStatus
             /\ Met(a.status, a.change, Until, w.gated)
    BY <1>1, <2>1, <2>2, <2>4, MatchedStep
  <2>5. CASE /\ w.matched = NoStatus
             /\ ~Met(a.status, a.change, Until, w.gated)
    <3> DEFINE ph == IF w.expired THEN "dead" ELSE "loop"
    <3>1. w' = [w EXCEPT !.phase = ph] /\ UNCHANGED <<answer, hist>>
      BY <2>1, <2>5 DEF Go
    <3>2. ph \in {"loop", "probe", "dead"} /\ (ph = "dead" => w.expired)
      OBVIOUS
    <3> HIDE DEF ph
    <3>3. PICK n, m : n = w.last /\ m = w.matched
      OBVIOUS
    <3>4. w' = [w EXCEPT !.phase = ph, !.last = n, !.matched = m]
      BY <3>1, <3>3, ThreadIs DEF ThreadType
    <3>5. m \in MaybeStatus /\ m = NoStatus
      BY <2>5, <3>3 DEF MaybeStatus
    <3>6. n \in Nat /\ w.last <= n /\ n <= hub.next
      BY <3>3, ThreadIs
    <3>7. w.phase \in {"loop", "probe", "dead"}
      BY <1>1
    <3> QED BY <1>1, <3>1, <3>2, <3>4, <3>5, <3>6, <3>7, GoStep
  <2> QED BY <2>3, <2>4, <2>5
<1> QED BY <1>2, <1>3

\* The last look.
LEMMA DeadlineStep ==
  ASSUME IInv, AppStays, Deadline
  PROVE  IInv'
<1>1. w.phase = "dead" /\ req.kind # "events" /\ w.expired
  BY DEF Deadline, IInv, PhaseInv
<1>2. CASE \A a \in AgentGet : ~SameAgent(a, w.agent)
  <2>1. hist.lost
    BY <1>1, <1>2, AgentFound
  <2> QED BY <1>2, <2>1, AnswerStep DEF Deadline, NotRunning
<1>3. CASE ~\A a \in AgentGet : ~SameAgent(a, w.agent)
  <2> DEFINE kind == IF w.stage = "effect" /\ req.timeout # "short"
                     THEN "stalled" ELSE "timeout"
  <2>1. PICK a \in AgentGet :
          IF Met(a.status, a.change, Until, w.gated) THEN Matched(a)
          ELSE Answer(kind, NoStatus, Nobody)
    BY <1>3 DEF Deadline
  <2>2. /\ a \in InfoType /\ a.terminal = w.first /\ Current(a)
        /\ w.first = "mine" => a.status = Status /\ a.change = pane.change
        /\ Met(a.status, a.change, Until, w.gated) =>
             /\ a.status \in Until
             /\ w.first = "mine" => a.status \in hist.held
             /\ req.kind = "prompt" => hist.effect \/ hist.released
    BY <1>1, <1>3, LookIs
  <2>3. CASE Met(a.status, a.change, Until, w.gated)
    BY <1>1, <2>1, <2>2, <2>3, MatchedStep
  <2>4. CASE ~Met(a.status, a.change, Until, w.gated)
    <3>1. w.first = "mine" => hist.unmet
      BY <1>1, <2>2, <2>4 DEF IInv, UnmetInv
    <3>2. kind \in {"stalled", "timeout"} /\ Answer(kind, NoStatus, Nobody)
      BY <2>1, <2>4
    <3> HIDE DEF kind
    <3> QED BY <3>1, <3>2, AnswerStep
  <2> QED BY <2>3, <2>4
<1> QED BY <1>2, <1>3

\* The time is over.
LEMMA ExpireStep ==
  ASSUME IInv, AppStays, Expire
  PROVE  IInv'
<1> DEFINE u == ~Met(Status, pane.change, Until, w.gated)
<1>1. /\ w.phase \notin {"new", "resolve", "prompt", "done"}
      /\ w' = [w EXCEPT !.expired = TRUE]
      /\ hist' = [hist EXCEPT !.unmet = u] /\ answer' = answer
  BY DEF Expire
<1>2. u \in BOOLEAN
  OBVIOUS
<1> HIDE DEF u
<1>3. /\ w' \in ThreadType /\ w'.phase = w.phase /\ w'.from = w.from
      /\ w'.last = w.last /\ w'.agent = w.agent /\ w'.first = w.first
      /\ w'.stage = w.stage /\ w'.gated = w.gated /\ w'.expired
      /\ w'.offer = w.offer /\ w'.matched = w.matched /\ w'.base = w.base
  BY <1>1, ThreadIs DEF ThreadType
<1>4. /\ hist' \in HistType /\ hist'.held = hist.held
      /\ hist'.lost = hist.lost /\ hist'.released = hist.released
      /\ hist'.effect = hist.effect /\ hist'.unmet = u
  BY <1>1, <1>2, ThreadIs DEF HistType
<1>5. req' = req /\ holder' = holder /\ pane' = pane
  BY DEF AppStays
<1>6. AgentInv'
  <2>1. /\ Current(w.agent) => Current(w.agent)'
        /\ Reachable => Reachable'
    BY <1>3, <1>4, <1>5 DEF Current, Reachable, Open,
       IsAgentTerminal
  <2> QED BY <1>3, <1>4, <1>5, <2>1 DEF IInv, AgentInv
<1>7. UnmetInv'
  <2>1. Until' = Until /\ Status' = Status
    BY <1>3, <1>5 DEF Until, Status
  <2>2. Met(Status, pane.change, Until, w.gated)'
          = Met(Status, pane.change, Until, w.gated)
    BY <1>3, <1>5, <2>1 DEF Met
  <2> QED BY <1>4, <2>2 DEF UnmetInv, u
<1>8. PhaseInv'
  BY <1>1, <1>3, <1>5 DEF IInv, PhaseInv
<1>9. MatchInv' /\ EffectInv' /\ OfferInv'
  BY <1>3, <1>4, <1>5 DEF IInv, MatchInv, EffectInv, OfferInv
<1>10. Active /\ w'.phase \notin {"new", "done"}
  BY <1>1, <1>3 DEF Active
<1> QED BY <1>1, <1>3, <1>4, <1>6, <1>7, <1>8, <1>9, <1>10, ThreadIs,
        WorkStep

\* A step of events.wait that does not answer.
LEMMA PollStep ==
  ASSUME IInv, AppStays, req.kind = "events", UNCHANGED <<answer, hist>>,
         w.phase \in {"loop", "check", "snap", "snapped"},
         NEW ph \in {"loop", "check", "snap", "snapped"},
         w' \in ThreadType, w'.phase = ph, w'.from = w.from,
         w'.from <= w'.last, w'.last <= hub.next, w'.first = w.first,
         w'.stage = w.stage, w'.gated = w.gated, w'.expired = w.expired,
         w'.matched = w.matched,
         w'.offer => w.offer /\ w'.agent.status = w.agent.status,
         ph \in {"snap", "snapped"} => ~w'.offer,
         ph = "snapped" => w'.agent.status \in hist.held \cup {NoStatus}
  PROVE  IInv'
<1>1. req' = req /\ holder' = holder /\ hist' = hist
  BY DEF AppStays
<1>2. /\ PhaseInv' /\ AgentInv' /\ MatchInv' /\ UnmetInv' /\ EffectInv'
      /\ OfferInv'
  <2>1. PhaseInv'
    BY <1>1 DEF IInv, PhaseInv
  <2>2. AgentInv'
    BY <1>1 DEF IInv, AgentInv
  <2>3. MatchInv' /\ UnmetInv' /\ EffectInv'
    BY <1>1 DEF IInv, MatchInv, UnmetInv, EffectInv
  <2>4. OfferInv'
    BY <1>1 DEF IInv, OfferInv
  <2> QED BY <2>1, <2>2, <2>3, <2>4
<1>3. Active
  BY DEF Active
<1> QED BY <1>1, <1>2, <1>3, ThreadIs, WorkStep

\* The subscription begins.
LEMMA SubscribeStep ==
  ASSUME IInv, AppStays, Subscribe
  PROVE  IInv'
<1>1. w.phase = "resolve" /\ req.kind = "events"
  BY DEF Subscribe
<1>2. CASE ~Open
  BY <1>2, FailedStep DEF Subscribe
<1>3. CASE Open
  <2> DEFINE n == holder = "mine"
             o == Status \in req.until
  <2>1. PICK a : a = InfoOf("mine")
    OBVIOUS
  <2>2. /\ w' = [w EXCEPT !.agent = a, !.first = "mine", !.shown = Status,
                          !.offer = o, !.phase = "loop"]
        /\ UNCHANGED <<answer, hist>>
    BY <1>3, <2>1 DEF Subscribe
  <2>3. Active /\ Status \in hist.held /\ Status \in MaybeStatus
    BY <1>1, StatusHeld DEF Active, MaybeStatus
  <2>4. a = [terminal |-> "mine", pane |-> pane.id, named |-> n,
             label |-> pane.label, status |-> Status,
             change |-> pane.change]
    BY <2>1 DEF InfoOf
  <2>5. /\ n \in BOOLEAN /\ o \in BOOLEAN /\ (o => Status \in req.until)
        /\ pane.id \in PaneIds /\ pane.label \in Labels
        /\ pane.change \in Nat
    BY DEF IInv, AppTypes, PaneType, PaneIds
  <2> HIDE DEF n, o
  <2>6. a \in InfoType /\ a.status = Status
    BY <2>3, <2>4, <2>5 DEF InfoType, MaybeTerminal, Terminals
  <2>7. /\ w' \in ThreadType /\ w'.phase = "loop" /\ w'.from = w.from
        /\ w'.last = w.last /\ w'.agent = a /\ w'.first = "mine"
        /\ w'.stage = w.stage /\ w'.gated = w.gated
        /\ w'.expired = w.expired /\ w'.offer = o
        /\ w'.matched = w.matched
    BY <2>2, <2>3, <2>5, <2>6, ThreadIs DEF ThreadType, PhaseNames,
       MaybeTerminal, Terminals
  <2>8. req' = req /\ holder' = holder /\ hist' = hist
    BY <2>2 DEF AppStays
  <2>9. PhaseInv'
    BY <1>1, <2>7, <2>8 DEF IInv, PhaseInv
  <2>10. AgentInv'
    BY <1>1, <2>7, <2>8 DEF IInv, AgentInv
  <2>11. MatchInv' /\ UnmetInv' /\ EffectInv'
    BY <1>1, <2>7, <2>8 DEF IInv, PhaseInv, MatchInv, UnmetInv, EffectInv
  <2>12. OfferInv'
    BY <1>1, <2>3, <2>5, <2>6, <2>7, <2>8 DEF OfferInv
  <2> QED BY <2>2, <2>3, <2>7, <2>8, <2>9, <2>10, <2>11, <2>12, ThreadIs,
          WorkStep
<1> QED BY <1>2, <1>3

\* A poll that has nothing to tell.
LEMMA NoEventStep ==
  ASSUME IInv, AppStays, w.phase \in {"check", "snap", "snapped"},
         NEW shown \in MaybeStatus, NoEvent(shown)
  PROVE  IInv'
<1>1. req.kind = "events"
  BY DEF IInv, PhaseInv
<1>2. CASE w.expired
  BY <1>1, <1>2, AnswerStep DEF NoEvent
<1>3. CASE ~w.expired
  <2>1. /\ w' = [w EXCEPT !.phase = "loop", !.shown = shown]
        /\ UNCHANGED <<answer, hist>>
    BY <1>3 DEF NoEvent
  <2>2. /\ w' \in ThreadType /\ w'.phase = "loop" /\ w'.from = w.from
        /\ w'.last = w.last /\ w'.first = w.first /\ w'.stage = w.stage
        /\ w'.gated = w.gated /\ w'.expired = w.expired
        /\ w'.matched = w.matched /\ w'.offer = w.offer
        /\ w'.agent = w.agent
    BY <2>1, ThreadIs DEF ThreadType, PhaseNames
  <2> QED BY <1>1, <2>1, <2>2, ThreadIs, PollStep
<1> QED BY <1>2, <1>3

\* The events of a poll.
LEMMA PollEventsStep ==
  ASSUME IInv, AppStays, PollEvents
  PROVE  IInv'
<1> DEFINE batch == EventsAfter(w.last)
           own == {i \in DOMAIN batch : /\ batch[i].event.pane = w.agent.pane
                                        /\ batch[i].event.kind = "status"}
           hits == {i \in own : batch[i].event.status \in req.until}
           n == IF batch = <<>> THEN w.last ELSE Last(batch).seq
           o == w.offer /\ own = {}
           sh == IF own = {} THEN w.shown ELSE batch[Max(own)].event.status
           ph == IF own = {} THEN "check" ELSE "snap"
<1>1. /\ w.phase = "loop" /\ req.kind = "events"
      /\ hits # {} => Answer("success", batch[Min(hits)].event.status, "mine")
      /\ hits = {} => /\ w' = [w EXCEPT !.last = n, !.offer = o,
                                 !.shown = sh, !.phase = ph]
                      /\ UNCHANGED <<answer, hist>>
  BY DEF PollEvents
<1>2. Active /\ w.first = "mine"
  BY <1>1 DEF Active, IInv, OfferInv
<1>3. Batch(batch, w.last, TrueEvents)
  BY <1>2, BatchIs
<1>4. n \in Nat /\ w.last <= n /\ n <= hub.next
  BY <1>3, LastIs, ThreadIs
<1> HIDE DEF batch, n
<1>5. /\ batch \in Seq(Numbered) /\ Len(batch) \in Nat
      /\ DOMAIN batch = 1 .. Len(batch)
      /\ \A i \in DOMAIN batch : batch[i].event \in TrueEvents
  BY <1>3 DEF Batch
<1>6. /\ own \in SUBSET (1 .. Len(batch)) /\ hits \in SUBSET Nat
      /\ \A i \in own : /\ batch[i].event \in TrueEvents
                        /\ batch[i].event.kind = "status"
      /\ \A i \in hits : /\ batch[i].event \in TrueEvents
                         /\ batch[i].event.kind = "status"
                         /\ batch[i].event.status \in req.until
  BY <1>5
<1>7. CASE hits # {}
  <2> HIDE DEF hits, own
  <2>1. Min(hits) \in hits
    BY <1>6, <1>7, MinIs
  <2> DEFINE s == batch[Min(hits)].event.status
  <2>2. s \in req.until /\ s \in hist.held
    BY <1>6, <2>1 DEF TrueEvents
  <2>3. Answer("success", s, "mine")
    BY <1>1, <1>7
  <2> HIDE DEF s
  <2> QED BY <1>1, <1>2, <2>2, <2>3, AnswerStep
<1>8. CASE hits = {}
  <2>1. sh \in MaybeStatus
    <3>1. CASE own = {}
      BY <3>1, ThreadIs
    <3>2. CASE own # {}
      <4>1. sh = batch[Max(own)].event.status
        BY <3>2
      <4> HIDE DEF own, sh
      <4>2. Max(own) \in own
        BY <1>5, <1>6, <3>2, MaxIs
      <4> QED BY <1>6, <4>1, <4>2 DEF TrueEvents, EventType
    <3> QED BY <3>1, <3>2
  <2>2. /\ o \in BOOLEAN /\ (o => w.offer /\ ph = "check")
        /\ ph \in {"check", "snap"}
    BY ThreadIs
  <2>3. /\ w' = [w EXCEPT !.last = n, !.offer = o, !.shown = sh, !.phase = ph]
        /\ UNCHANGED <<answer, hist>>
    BY <1>1, <1>8
  <2> HIDE DEF own, hits, sh, o, ph
  <2>4. /\ w' \in ThreadType /\ w'.phase = ph /\ w'.from = w.from
        /\ w'.last = n /\ w'.first = w.first /\ w'.stage = w.stage
        /\ w'.gated = w.gated /\ w'.expired = w.expired
        /\ w'.matched = w.matched /\ w'.offer = o /\ w'.agent = w.agent
    BY <1>4, <2>1, <2>2, <2>3, ThreadIs DEF ThreadType, PhaseNames
  <2>5. w'.from <= w'.last
    BY <1>4, <2>4, ThreadIs
  <2>6. w'.offer => w.offer /\ w'.agent.status = w.agent.status
    BY <2>2, <2>4
  <2>7. /\ ph \in {"loop", "check", "snap", "snapped"} /\ ph # "snapped"
        /\ ph \in {"snap", "snapped"} => ~w'.offer
    BY <2>2, <2>4
  <2> QED BY <1>1, <1>4, <2>3, <2>4, <2>5, <2>6, <2>7, PollStep
<1> QED BY <1>7, <1>8

\* What the subscription began with.
LEMMA PollInitialStep ==
  ASSUME IInv, AppStays, PollInitial
  PROVE  IInv'
<1>1. w.phase = "check" /\ req.kind = "events" /\ w.first = "mine"
  BY DEF PollInitial, IInv, PhaseInv, OfferInv
<1>2. CASE hub.next # w.last
  <2>1. NoEvent(w.shown)
    BY <1>2 DEF PollInitial
  <2> QED BY <1>1, <2>1, ThreadIs, NoEventStep
<1>3. CASE hub.next = w.last /\ w.offer
  <2>1. w.agent.status \in req.until /\ w.agent.status \in hist.held
    BY <1>3 DEF IInv, OfferInv
  <2>2. Answer("success", w.agent.status, "mine")
    BY <1>3 DEF PollInitial
  <2> QED BY <1>1, <2>1, <2>2, AnswerStep
<1>4. CASE hub.next = w.last /\ ~w.offer
  <2>1. w' = [w EXCEPT !.phase = "snap"] /\ UNCHANGED <<answer, hist>>
    BY <1>4 DEF PollInitial, Go
  <2>2. /\ w' \in ThreadType /\ w'.phase = "snap" /\ w'.from = w.from
        /\ w'.last = w.last /\ w'.first = w.first /\ w'.stage = w.stage
        /\ w'.gated = w.gated /\ w'.expired = w.expired
        /\ w'.matched = w.matched /\ w'.offer = w.offer
        /\ w'.agent = w.agent
    BY <2>1, ThreadIs DEF ThreadType, PhaseNames
  <2> QED BY <1>1, <1>4, <2>1, <2>2, ThreadIs, PollStep
<1> QED BY <1>2, <1>3, <1>4

\* The pane itself.
LEMMA TakeSnapshotStep ==
  ASSUME IInv, AppStays, TakeSnapshot
  PROVE  IInv'
<1> DEFINE s == IF Open THEN Status ELSE NoStatus
<1>1. /\ w.phase = "snap" /\ UNCHANGED <<answer, hist>>
      /\ w' = [w EXCEPT !.phase = "snapped", !.agent.status = s]
  BY DEF TakeSnapshot
<1>2. req.kind = "events" /\ ~w.offer /\ Active
  BY <1>1 DEF IInv, PhaseInv, OfferInv, Active
<1>3. s \in MaybeStatus /\ s \in hist.held \cup {NoStatus}
  BY <1>2, StatusHeld DEF MaybeStatus
<1> HIDE DEF s
<1>4. PICK a : a = [w.agent EXCEPT !.status = s]
  OBVIOUS
<1>5. a \in InfoType /\ a.status = s
  BY <1>3, <1>4, ThreadIs DEF InfoType
<1>6. w' = [w EXCEPT !.phase = "snapped", !.agent = a]
  BY <1>1, <1>4, ThreadIs DEF ThreadType
<1>7. /\ w' \in ThreadType /\ w'.phase = "snapped" /\ w'.from = w.from
      /\ w'.last = w.last /\ w'.first = w.first /\ w'.stage = w.stage
      /\ w'.gated = w.gated /\ w'.expired = w.expired
      /\ w'.matched = w.matched /\ w'.offer = w.offer /\ w'.agent = a
  BY <1>5, <1>6, ThreadIs DEF ThreadType, PhaseNames
<1> QED BY <1>1, <1>2, <1>3, <1>5, <1>7, ThreadIs, PollStep

\* What the pane showed, if no event came meanwhile.
LEMMA PollSnapshotStep ==
  ASSUME IInv, AppStays, PollSnapshot
  PROVE  IInv'
<1> DEFINE s == w.agent.status
<1>1. /\ w.phase = "snapped" /\ req.kind = "events" /\ w.first = "mine"
      /\ s \in hist.held \cup {NoStatus} /\ s \in MaybeStatus
  BY ThreadIs DEF PollSnapshot, IInv, PhaseInv, OfferInv, InfoType
<1>2. CASE hub.next # w.last
  <2>1. NoEvent(w.shown)
    BY <1>2 DEF PollSnapshot
  <2> QED BY <1>1, <2>1, ThreadIs, NoEventStep
<1>3. CASE hub.next = w.last /\ s = NoStatus
  BY <1>3, FailedStep DEF PollSnapshot
<1>4. CASE hub.next = w.last /\ s # NoStatus
  <2>1. CASE s # w.shown /\ s \in req.until
    <3>1. Answer("success", s, "mine")
      BY <1>4, <2>1 DEF PollSnapshot
    <3> QED BY <1>1, <1>4, <2>1, <3>1, AnswerStep
  <2>2. CASE ~(s # w.shown /\ s \in req.until)
    <3>1. NoEvent(s)
      BY <1>4, <2>2 DEF PollSnapshot
    <3> QED BY <1>1, <3>1, NoEventStep
  <2> QED BY <2>1, <2>2
<1> QED BY <1>2, <1>3, <1>4

-----------------------------------------------------------------------------
(* The theorems *)

\* No step breaks the invariant.
LEMMA StepKeeps ==
  ASSUME IInv, [Next]_vars
  PROVE  IInv'
<1>1. CASE App
  BY <1>1, AppStep
<1>2. CASE Thread
  <2>1. AppStays
    BY <1>2 DEF Thread, appVars, AppStays
  <2>2. PromptRefused => IInv'
    BY <2>1, FailedStep DEF PromptRefused
  <2> QED BY <1>2, <2>1, <2>2, BeginStep, ResolveStep, PromptStep,
          ReadEventsStep, ProbeStep, DeadlineStep, SubscribeStep,
          PollEventsStep, PollInitialStep, TakeSnapshotStep,
          PollSnapshotStep DEF Thread
<1>3. CASE Timer
  <2>1. AppStays /\ Expire
    BY <1>3 DEF Timer, appVars, AppStays
  <2> QED BY <2>1, ExpireStep
<1>4. CASE Silent
  <2>1. AppStays
    BY <1>4 DEF Silent, appVars, AppStays
  <2>2. Failed \/ (w.phase = "snap" /\ NoEvent(w.shown))
    BY <1>4 DEF Silent
  <2> QED BY <2>1, <2>2, FailedStep, NoEventStep, ThreadIs
<1>5. CASE Leave
  <2>1. AppStays /\ Answer("left", NoStatus, Nobody)
    BY <1>5 DEF Leave, appVars, AppStays
  <2> QED BY <2>1, AnswerStep
<1>6. CASE UNCHANGED vars
  <2>1. /\ hub' = hub /\ pane' = pane /\ holder' = holder
        /\ change' = change /\ req' = req /\ w' = w /\ answer' = answer
        /\ hist' = hist
    BY <1>6 DEF vars, appVars
  <2>2. AppTypes' /\ ThreadTypes' /\ PhaseInv' /\ MatchInv' /\ OfferInv'
        /\ EffectInv'
    BY <2>1 DEF IInv, AppTypes, ThreadTypes, PhaseInv, MatchInv, OfferInv,
       EffectInv
  <2>3. EventsInv'
    BY <2>1 DEF IInv, EventsInv, Active, TrueEvents, Status
  <2>4. AgentInv'
    BY <2>1 DEF IInv, AgentInv, Current, Reachable, Open,
       IsAgentTerminal
  <2>5. UnmetInv'
    BY <2>1 DEF IInv, UnmetInv, Met, Until, Status
  <2>6. AnswersAreTrue'
    BY <2>1 DEF IInv, AnswersAreTrue, SuccessIsTrue, NotRunningIsTrue,
       TimeoutIsTrue, PromptHadEffect
  <2> QED BY <2>2, <2>3, <2>4, <2>5, <2>6 DEF IInv
<1> QED BY <1>1, <1>2, <1>3, <1>4, <1>5, <1>6 DEF Next

\* The invariant holds when the request is made.
LEMMA InitHolds ==
  ASSUME Init
  PROVE  IInv
<1> DEFINE h == [next |-> 0, events |-> <<>>]
           x == Event(1, "status", "codex", "Idle")
           y == Event(1, "status", pane.label, Status)
<1>1. /\ pane \in [id : {1}, label : {NoLabel, "codex"},
                   state : Reported \cup {"Unknown"},
                   seen : BOOLEAN, change : {0}, managed : BOOLEAN,
                   alias : BOOLEAN, argv : BOOLEAN,
                   process : {"live", "none"}]
      /\ hub = PushAll(h, <<x, y>>)
      /\ holder \in {"mine", Nobody} /\ (pane.alias => holder = Nobody)
      /\ change = 0 /\ req \in Requests /\ w = NoThread("new", Nobody)
      /\ answer = NoAnswer
      /\ hist = [held |-> {}, lost |-> FALSE, unmet |-> FALSE,
                 effect |-> FALSE, released |-> FALSE, dropped |-> FALSE]
  BY DEF Init
<1>2. /\ pane \in PaneType /\ pane.change = 0 /\ pane.state \in States
      /\ pane.label \in Labels
  <2>1. Reported \cup {"Unknown"} \subseteq States
    BY ReportedAssumption DEF States
  <2>2. {NoLabel, "codex"} \subseteq Labels /\ {1} \subseteq 0 .. 2
        /\ {0} \subseteq Nat
    BY DEF Labels
  <2> QED BY <1>1, <2>1, <2>2 DEF PaneType
<1>3. x \in EventType /\ y \in EventType
  <2>1. Status \in MaybeStatus
    BY <1>2, StatusIs DEF Status, MaybeStatus
  <2>2. /\ 1 \in PaneIds /\ "status" \in EventKinds /\ "codex" \in Labels
        /\ "Idle" \in MaybeStatus
    BY DEF PaneIds, EventKinds, Labels, MaybeStatus, Statuses, States
  <2> QED BY <1>2, <2>1, <2>2, EventIs
<1> HIDE DEF x, y
<1>4. h \in HubType /\ h.next = 0 /\ h.events = <<>> /\ Len(h.events) = 0
  BY EmptySeq DEF HubType
<1> HIDE DEF h
<1>5. Ring(h) /\ Told(h, 0, EventType)
  BY <1>4, BoundsAssumption DEF Ring, Told
<1>6. Ring(hub)
  <2>1. /\ <<x, y>> \in Seq(EventType)
        /\ \A i \in 1 .. Len(<<x, y>>) : <<x, y>>[i] \in EventType
    BY <1>3
  <2>2. 0 \in Nat /\ 0 <= h.next
    BY <1>4
  <2> QED BY <1>1, <1>5, <2>1, <2>2, PushAllIs
<1>7. AppTypes
  BY <1>1, <1>2, <1>6 DEF AppTypes, MaybeTerminal, Terminals, Nobody
<1>8. NoInfo \in InfoType
  BY DEF NoInfo, InfoType, MaybeTerminal, PaneIds, Labels, MaybeStatus, Gone
<1>9. /\ w \in ThreadType /\ w.phase = "new" /\ w.stage = "final"
      /\ w.from = 0 /\ w.last = 0 /\ w.first = Nobody /\ ~w.gated
      /\ w.matched = NoStatus /\ ~w.offer /\ ~w.expired /\ w.base = 0
  BY <1>1, <1>8 DEF NoThread, ThreadType, PhaseNames, MaybeStatus,
     MaybeTerminal
<1>10. ThreadTypes
  <2>1. hist \in HistType
    BY <1>1 DEF HistType
  <2>2. hub.next \in Nat
    BY <1>6 DEF Ring, HubType
  <2> QED BY <1>1, <1>9, <2>1, <2>2 DEF ThreadTypes
<1>11. EventsInv /\ PhaseInv /\ MatchInv /\ UnmetInv /\ EffectInv /\ OfferInv
  BY <1>9 DEF EventsInv, Active, PhaseInv, MatchInv, UnmetInv, EffectInv,
     OfferInv
<1>12. AgentInv
  BY <1>1, <1>9 DEF AgentInv, Nobody
<1>13. AnswersAreTrue
  BY <1>1 DEF AnswersAreTrue, SuccessIsTrue, NotRunningIsTrue,
     TimeoutIsTrue, PromptHadEffect, NoAnswer
<1> QED BY <1>7, <1>10, <1>11, <1>12, <1>13 DEF IInv

\* The invariant holds throughout.
THEOREM Invariance == Spec => []IInv
<1>1. Init => IInv
  BY InitHolds
<1>2. IInv /\ [Next]_vars => IInv'
  BY StepKeeps
<1> QED BY <1>1, <1>2, PTL DEF Spec

\* Every variable keeps to its type, and the ring of events to its size and
\* numbering (EventHub::push), for a ring of any size.
THEOREM TypeCorrect == Spec => []TypeOK
<1>1. IInv => TypeOK
  <2> SUFFICES ASSUME IInv PROVE TypeOK
    OBVIOUS
  <2>1. /\ hub.next \in Nat /\ Len(hub.events) <= RingSize
        /\ \A i \in DOMAIN hub.events :
             hub.events[i].seq = hub.next - Len(hub.events) + i
    <3>1. Ring(hub)
      BY DEF IInv, AppTypes
    <3>2. hub.next \in Nat /\ hub.events \in Seq(Numbered)
      BY <3>1 DEF Ring, HubType
    <3>3. DOMAIN hub.events = 1 .. Len(hub.events)
      BY <3>2
    <3> QED BY <3>1, <3>2, <3>3 DEF Ring
  <2>2. /\ pane.id \in 0 .. 2 /\ pane.label \in Labels
        /\ pane.state \in States /\ pane.seen \in BOOLEAN
        /\ pane.managed \in BOOLEAN /\ pane.process \in {"live", "none"}
        /\ pane.change \in Nat /\ change \in Nat /\ pane.change <= change
        /\ holder \in Terminals \cup {Nobody}
        /\ pane.alias \in BOOLEAN /\ pane.argv \in BOOLEAN
        /\ pane.alias => holder # "mine"
    BY DEF IInv, AppTypes, PaneType, MaybeTerminal
  <2>3. pane.change \in 0 .. change
    BY <2>2
  <2>4. /\ req \in Requests /\ w.from <= w.last /\ w.last <= hub.next
        /\ w.phase \in PhaseNames /\ hist.held \subseteq Statuses
    BY DEF IInv, ThreadTypes, ThreadType, HistType
  <2> QED BY <2>1, <2>2, <2>3, <2>4 DEF TypeOK, PhaseNames
<1> QED BY <1>1, Invariance, PTL

\* What the client of agent.wait, agent.prompt and events.wait is told is
\* true, whatever the application does between the thread's looks at the
\* agent and however many events the ring has dropped.
THEOREM AnswersTrue == Spec => []AnswersAreTrue
<1>1. IInv => AnswersAreTrue
  BY DEF IInv
<1> QED BY <1>1, Invariance, PTL

=============================================================================
