--------------------------- MODULE DeferredRequests ---------------------------
(***************************************************************************)
(* How the headless server orders API requests around alternate-screen     *)
(* reads.  A read of an idle agent's alternate screen is a traversal that  *)
(* scrolls the application and takes seconds; meanwhile input for the same *)
(* terminal is put aside in the terminal's queue, a live handoff waits     *)
(* behind barriers in the queues of the terminals that are being read, and *)
(* everything else goes on.  When traversals end the queues are released.  *)
(* The server is one thread: while a release is under way nothing else     *)
(* happens.  Whether a traversal runs at all and how it ends is in         *)
(* AltScreenRead.                                                          *)
(***************************************************************************)
EXTENDS Naturals, Sequences, SequencesExt, FiniteSets

CONSTANTS Terminals, Names,
          Bindings,     \* what the names may stand for to begin with
          NoTerminal,   \* what a name stands for when its pane is closed
          MaxRequests,  \* bound: requests
          MaxRebinds    \* bound: times a name comes to mean another terminal

ASSUME BoundsAssumption == MaxRequests \in Nat /\ MaxRebinds \in Nat
ASSUME TerminalsAssumption == IsFiniteSet(Terminals)
ASSUME NoTerminalAssumption == NoTerminal \notin Terminals
ASSUME BindingsAssumption == Bindings \subseteq [Names -> Terminals]

Kinds == {"input",    \* pane.send_input, agent.prompt, agent.start, ...
          "read",     \* agent.read or an interactive pane.read, as text
          "rawread",  \* the same in another format
          "handoff"}  \* server.live_handoff

VARIABLES
  request,   \* request[r]: kind and name of the r-th request
  seen,      \* seen[r]: the terminal its name stood for when it arrived
  reads,     \* pending_alt_screen_reads: <<terminal, request>>
  queues,    \* terminal_queues
  handoffs,  \* handoffs: id |-> [request, waiting, terminals]
  barriers,  \* terminal_barrier_counts
  nextId,    \* next_handoff_id
  work,      \* the terminals a release has still to look at
  taken,     \* the terminal whose queue a release has taken, and the queue
  releasing, \* a release is under way
  bind,      \* what the names stand for
  rebinds,
  captured,  \* history: terminals a handoff was to wait for when it arrived
  log,       \* history: <<request, outcome, terminal>> in order
  stopped    \* shutting_down

queueVars == <<queues, handoffs, barriers, nextId>>
releaseVars == <<work, taken, releasing>>
arrivalVars == <<request, seen, captured>>
vars == <<reads, queueVars, releaseVars, arrivalVars, bind, rebinds, log,
          stopped>>

Requests == DOMAIN request
NotTaken == [terminal |-> NoTerminal, queue |-> <<>>]
Outcomes == {"performed", "frozen", "missing", "changed", "unavailable"}

Init ==
  /\ request = <<>> /\ seen = <<>> /\ captured = <<>>
  /\ reads = <<>> /\ queues = [t \in Terminals |-> <<>>]
  /\ handoffs = <<>> /\ barriers = [t \in Terminals |-> 0] /\ nextId = 1
  /\ work = <<>> /\ taken = NotTaken /\ releasing = FALSE
  /\ bind \in Bindings /\ rebinds = 0
  /\ log = <<>> /\ stopped = FALSE

Item(what, id) == [what |-> what, id |-> id]

Reading(t) == \E i \in DOMAIN reads : reads[i][1] = t
BlockedByHandoff(t) == barriers[t] > 0

Answered(r) == \E i \in DOMAIN log : log[i][1] = r
Entry(r, outcome, t) == << <<r, outcome, t>> >>

-----------------------------------------------------------------------------
(* Deferral *)

DeferRequestInFront(t, r) ==
  /\ queues' = [queues EXCEPT ![t] = <<Item("request", r)>> \o @]
  /\ UNCHANGED <<handoffs, barriers, nextId>>

DeferRequest(t, r) ==
  /\ queues' = [queues EXCEPT ![t] = Append(@, Item("request", r))]
  /\ UNCHANGED <<handoffs, barriers, nextId>>

\* A barrier in the queue of every terminal that is being read; hs and bs are
\* the handoffs and the barrier counts before.
BarrierInFront(q, x) == <<x>> \o q
BarrierBehind(q, x) == Append(q, x)

DeferHandoff(r, hs, bs) ==
  LET ts == {reads[i][1] : i \in DOMAIN reads} IN
  /\ queues' = [t \in Terminals |->
                  IF t \in ts
                  THEN BarrierBehind(queues[t], Item("barrier", nextId))
                  ELSE queues[t]]
  /\ barriers' = [t \in Terminals |-> IF t \in ts THEN bs[t] + 1 ELSE bs[t]]
  /\ handoffs' = [h \in DOMAIN hs \cup {nextId} |->
                    IF h = nextId
                    THEN [request |-> r, waiting |-> ts, terminals |-> ts]
                    ELSE hs[h]]
  /\ nextId' = nextId + 1

\* drain_messages: everything put aside is answered server_unavailable.
Deferred ==
  {it.id : it \in {x \in UNION {ToSet(queues[t]) : t \in Terminals} :
                     x.what = "request"}}
  \cup {handoffs[h].request : h \in DOMAIN handoffs}
RejectDeferred(l, except) ==
  LET rs == SetToSeq(Deferred \ except) IN
  /\ queues' = [t \in Terminals |-> <<>>] /\ handoffs' = <<>>
  /\ barriers' = [t \in Terminals |-> 0]
  /\ log' = l \o [i \in DOMAIN rs |-> <<rs[i], "unavailable", NoTerminal>>]
  /\ UNCHANGED nextId

-----------------------------------------------------------------------------
(* Dispatch of one request, from the socket or from a queue *)

\* The request reaches the handler of the App; a read of an idle agent's
\* alternate screen becomes a traversal and is answered when that ends.
Perform(r, kind, t) ==
  \/ /\ log' = log \o Entry(r, "performed", t)
     /\ UNCHANGED reads
  \/ /\ kind = "read" /\ ~Reading(t)
     /\ reads' = Append(reads, <<t, r>>)
     /\ UNCHANGED log

\* perform_live_handoff, and on success the end of this server.
PerformHandoff(r, hs, bs) ==
  \/ /\ log' = log \o Entry(r, "performed", NoTerminal)
     /\ handoffs' = hs /\ barriers' = bs
     /\ UNCHANGED <<queues, nextId, reads, stopped>>
  \/ /\ stopped' = TRUE /\ UNCHANGED reads
     /\ RejectDeferred(log \o Entry(r, "performed", NoTerminal), {r})

ShouldDefer(kind, t) ==
  \/ kind \in {"input", "rawread"} /\ (Reading(t) \/ BlockedByHandoff(t))
  \/ kind = "read" /\ BlockedByHandoff(t)

Record(kind, name, t, ts) ==
  /\ ~releasing /\ ~stopped /\ Len(request) < MaxRequests
  /\ request' = Append(request, [kind |-> kind, name |-> name])
  /\ seen' = Append(seen, t)
  /\ captured' = Append(captured, ts)
  /\ UNCHANGED <<releaseVars, bind, rebinds>>

\* A request comes from the socket.  A server that is stopping answers
\* server_unavailable at once, which changes nothing here.
\* The events the handler drains between its check of the target and the
\* dispatch are taken to come before the check.
Arrive(kind, name) ==
  LET r == Len(request) + 1
      t == bind[name]
  IN
  /\ kind # "handoff" /\ Record(kind, name, t, {})
  /\ UNCHANGED stopped
  /\ \/ /\ t = NoTerminal
        /\ log' = log \o Entry(r, "missing", NoTerminal)
        /\ UNCHANGED <<queueVars, reads>>
     \/ /\ t # NoTerminal /\ ShouldDefer(kind, t)
        /\ DeferRequest(t, r)
        /\ UNCHANGED <<reads, log>>
     \/ /\ t # NoTerminal /\ ~ShouldDefer(kind, t) /\ Reading(t)
        /\ log' = log \o Entry(r, "frozen", t)
        /\ UNCHANGED <<queueVars, reads>>
     \/ /\ t # NoTerminal /\ ~ShouldDefer(kind, t) /\ ~Reading(t)
        /\ Perform(r, kind, t)
        /\ UNCHANGED queueVars

ArriveHandoff ==
  LET r == Len(request) + 1 IN
  /\ Record("handoff", NoTerminal, NoTerminal,
            {reads[i][1] : i \in DOMAIN reads})
  /\ IF reads = <<>> THEN PerformHandoff(r, handoffs, barriers)
     ELSE /\ DeferHandoff(r, handoffs, barriers)
          /\ UNCHANGED <<reads, log, stopped>>

-----------------------------------------------------------------------------
(* The end of traversals and the release of the queues *)

\* The traversals of some terminals, in their order.
ReadsOf(S) ==
  LET upTo[i \in 0 .. Len(reads)] ==
        IF i = 0 THEN <<>>
        ELSE IF reads[i][1] \in S THEN Append(upTo[i - 1], reads[i])
        ELSE upTo[i - 1]
  IN  upTo[Len(reads)]

\* poll_pending_alt_screen_reads: some traversals have come to an end, and are
\* answered; their terminals are to be released, in the order of the reads.
FinishReads(S) ==
  LET done == ReadsOf(S) IN
  /\ ~releasing /\ ~stopped
  /\ reads' = ReadsOf(Terminals \ S)
  /\ log' = log \o [i \in DOMAIN done |->
                      <<done[i][2], "performed", done[i][1]>>]
  /\ work' = [i \in DOMAIN done |-> done[i][1]]
  /\ releasing' = TRUE
  /\ UNCHANGED <<queueVars, taken, arrivalVars, bind, rebinds, stopped>>

Holding == taken.terminal # NoTerminal

TakeQueue ==
  /\ releasing /\ ~Holding /\ work # <<>>
  /\ taken' = [terminal |-> Head(work), queue |-> queues[Head(work)]]
  /\ queues' = [queues EXCEPT ![Head(work)] = <<>>]
  /\ work' = Tail(work)
  /\ UNCHANGED <<handoffs, barriers, nextId, reads, releasing, arrivalVars,
                 bind, rebinds, log, stopped>>

\* The rest of a queue goes back behind what was put aside meanwhile.
RestoreQueueLost ==
  /\ Holding /\ (taken.queue = <<>> \/ Reading(taken.terminal))
  /\ taken' = NotTaken
  /\ UNCHANGED <<handoffs, barriers, nextId, work, releasing, reads, queues,
                 arrivalVars, bind, rebinds, log, stopped>>

RestoreQueue ==
  /\ Holding /\ (taken.queue = <<>> \/ Reading(taken.terminal))
  /\ queues' = [queues EXCEPT ![taken.terminal] = @ \o taken.queue]
  /\ taken' = NotTaken
  /\ UNCHANGED <<handoffs, barriers, nextId, work, releasing, reads,
                 arrivalVars, bind, rebinds, log, stopped>>

\* A request leaves its queue: its name must still mean the terminal whose
\* queue it waited in.
ReleaseRequestUnchecked ==
  /\ Holding /\ taken.queue # <<>> /\ Head(taken.queue).what = "request"
  /\ ~Reading(taken.terminal)
  /\ LET r == Head(taken.queue).id
         t == bind[request[r].name]
     IN  \/ t = NoTerminal /\ UNCHANGED reads
            /\ log' = log \o Entry(r, "missing", NoTerminal)
         \/ t # NoTerminal /\ Perform(r, request[r].kind, t)
  /\ taken' = [taken EXCEPT !.queue = Tail(@)]
  /\ UNCHANGED <<queueVars, work, releasing, arrivalVars, bind, rebinds,
                 stopped>>

ReleaseRequestDuringRead ==
  /\ Holding /\ taken.queue # <<>> /\ Head(taken.queue).what = "request"
  /\ LET r == Head(taken.queue).id
     IN  Perform(r, request[r].kind, taken.terminal)
  /\ taken' = [taken EXCEPT !.queue = Tail(@)]
  /\ UNCHANGED <<queueVars, work, releasing, arrivalVars, bind, rebinds,
                 stopped>>

ReleaseRequest ==
  /\ Holding /\ taken.queue # <<>> /\ Head(taken.queue).what = "request"
  /\ ~Reading(taken.terminal)
  /\ LET r == Head(taken.queue).id
         t == bind[request[r].name]
     IN  \/ t = taken.terminal /\ Perform(r, request[r].kind, t)
         \/ /\ t # taken.terminal /\ UNCHANGED reads
            /\ log' = log \o Entry(r, IF t = NoTerminal THEN "missing"
                                      ELSE "changed", NoTerminal)
  /\ taken' = [taken EXCEPT !.queue = Tail(@)]
  /\ UNCHANGED <<queueVars, work, releasing, arrivalVars, bind, rebinds,
                 stopped>>

ReachBarrierUncounted ==
  /\ Holding /\ taken.queue # <<>> /\ Head(taken.queue).what = "barrier"
  /\ ~Reading(taken.terminal)
  /\ queues' = [queues EXCEPT ![taken.terminal] = @ \o Tail(taken.queue)]
  /\ taken' = NotTaken
  /\ UNCHANGED <<handoffs, barriers, nextId, work, releasing, reads,
                 arrivalVars, bind, rebinds, log, stopped>>

\* A barrier: the handoff need no longer wait for this terminal, and what is
\* behind the barrier waits for the handoff.
ReachBarrier ==
  /\ Holding /\ taken.queue # <<>> /\ Head(taken.queue).what = "barrier"
  /\ ~Reading(taken.terminal)
  /\ handoffs' = [h \in DOMAIN handoffs |->
                    IF h = Head(taken.queue).id
                    THEN [handoffs[h] EXCEPT !.waiting = @ \ {taken.terminal}]
                    ELSE handoffs[h]]
  /\ queues' = [queues EXCEPT ![taken.terminal] = @ \o Tail(taken.queue)]
  /\ taken' = NotTaken
  /\ UNCHANGED <<barriers, nextId, work, releasing, reads, arrivalVars, bind,
                 rebinds, log, stopped>>

\* The oldest handoff, once all its barriers are reached.  It is dispatched
\* like a request from the socket: if a terminal is being read by now it is
\* put aside anew, behind that terminal.  Either way its terminals are next.
Ready(h) == handoffs[h].waiting = {} /\ \A g \in DOMAIN handoffs : h <= g

LoweredEverywhere(ts) == [t \in Terminals |-> barriers[t] - 1]
Lowered(ts) ==
  [t \in Terminals |-> IF t \in ts THEN barriers[t] - 1 ELSE barriers[t]]

AffectedNot(ts) == <<>>
Affected(ts) == SetToSeq({t \in ts : ~Reading(t)})

TakeReadyHandoff(h) ==
  LET it == handoffs[h]
      hs == [g \in DOMAIN handoffs \ {h} |-> handoffs[g]]
      bs == Lowered(it.terminals)
  IN
  /\ releasing /\ ~Holding /\ work = <<>> /\ Ready(h)
  /\ IF reads = <<>> THEN PerformHandoff(it.request, hs, bs)
     ELSE DeferHandoff(it.request, hs, bs) /\ UNCHANGED <<reads, log, stopped>>
  /\ IF stopped' THEN releasing' = FALSE /\ UNCHANGED work
     ELSE /\ work' = Affected(it.terminals)
          /\ UNCHANGED releasing
  /\ UNCHANGED <<taken, arrivalVars, bind, rebinds>>

EndRelease ==
  /\ releasing /\ ~Holding /\ work = <<>>
  /\ ~\E h \in DOMAIN handoffs : Ready(h)
  /\ releasing' = FALSE
  /\ UNCHANGED <<reads, queueVars, work, taken, arrivalVars, bind, rebinds,
                 log, stopped>>

\* server.stop, or a signal: traversals are dropped, their callers with them.
InitiateShutdown ==
  /\ ~releasing /\ ~stopped
  /\ stopped' = TRUE /\ reads' = <<>>
  /\ RejectDeferred(log \o [i \in DOMAIN reads |->
                      <<reads[i][2], "unavailable", NoTerminal>>], {})
  /\ UNCHANGED <<releaseVars, arrivalVars, bind, rebinds>>

\* A pane is closed, or an agent's name comes to mean another terminal.
\* A release drains such events before each request it dispatches.
Rebind(name, t) ==
  /\ rebinds < MaxRebinds /\ t # bind[name]
  /\ rebinds' = rebinds + 1
  /\ bind' = [bind EXCEPT ![name] = t]
  /\ UNCHANGED <<reads, queueVars, releaseVars, arrivalVars, log, stopped>>

Release ==
  \/ TakeQueue \/ RestoreQueue \/ ReleaseRequest \/ ReachBarrier \/ EndRelease
  \/ \E h \in DOMAIN handoffs : TakeReadyHandoff(h)

Next ==
  \/ \E kind \in Kinds, name \in Names : Arrive(kind, name)
  \/ ArriveHandoff
  \/ \E S \in SUBSET {reads[i][1] : i \in DOMAIN reads} :
       S # {} /\ FinishReads(S)
  \/ Release
  \/ \E name \in Names, t \in Terminals \cup {NoTerminal} : Rebind(name, t)
  \/ InitiateShutdown

Spec == Init /\ [][Next]_vars

\* A traversal ends (it has deadlines), and the main loop keeps running.
FairSpec ==
  /\ Spec /\ WF_vars(Release)
  /\ WF_vars(\E S \in SUBSET {reads[i][1] : i \in DOMAIN reads} :
               S # {} /\ FinishReads(S))

-----------------------------------------------------------------------------
TypeOK ==
  /\ Len(request) <= MaxRequests
  /\ \A r \in Requests : request[r].kind \in Kinds
  /\ \A i, j \in DOMAIN reads : reads[i][1] = reads[j][1] => i = j
  /\ \A i \in DOMAIN log : log[i][1] \in Requests /\ log[i][2] \in Outcomes
  /\ barriers \in [Terminals -> 0 .. MaxRequests]
  /\ \A h \in DOMAIN handoffs :
       h < nextId /\ handoffs[h].waiting \subseteq handoffs[h].terminals
  /\ bind \in [Names -> Terminals \cup {NoTerminal}]
  /\ releasing \in BOOLEAN /\ stopped \in BOOLEAN

\* The requests that are put aside or on their way, and the read behind each
\* traversal.
Aside ==
  Deferred
  \cup {it.id : it \in {x \in ToSet(taken.queue) : x.what = "request"}}
  \cup {reads[i][2] : i \in DOMAIN reads}

\* No request is lost and none is answered twice, whatever ends first: a
\* request waits for its answer in one place, or has exactly one.
AnsweredOnce ==
  /\ \A r \in Requests : Answered(r) \/ r \in Aside
  /\ \A i, j \in DOMAIN log : log[i][1] = log[j][1] => i = j
  /\ \A i \in DOMAIN log : log[i][1] \notin Aside

IsPerformed(i, kind) ==
  log[i][2] = "performed" /\ request[log[i][1]].kind = kind

\* Input for a terminal is carried out in the order of arrival (SPEC.md:
\* "serialized behind the traversal in arrival order").
InputInArrivalOrder ==
  \A i, j \in DOMAIN log :
    i < j /\ IsPerformed(i, "input") /\ IsPerformed(j, "input")
          /\ log[i][3] = log[j][3] => log[i][1] < log[j][1]

\* No input reaches a terminal while a traversal scrolls it.
NoInputDuringRead ==
  [][\A i \in DOMAIN log' \ DOMAIN log :
       log'[i][2] = "performed" /\ request'[log'[i][1]].kind = "input" =>
         ~Reading(log'[i][3])]_vars

\* Input never reaches another terminal than the one its name stood for when
\* it arrived, however often the name changes its meaning meanwhile.
IdentityKept ==
  \A i \in DOMAIN log :
    log[i][2] = "performed" /\ request[log[i][1]].kind # "handoff" =>
      log[i][3] = seen[log[i][1]]

\* Nothing waits without a reason: between releases a queue that is not empty
\* belongs to a terminal that is being read or waits for a handoff, and a
\* terminal waits for a handoff exactly when there is one
\* (nonempty_buckets_have_release_source).
NothingStranded ==
  /\ ~releasing => \A t \in Terminals :
       queues[t] # <<>> => Reading(t) \/ BlockedByHandoff(t)
  /\ \A t \in Terminals :
       barriers[t] =
         Cardinality({h \in DOMAIN handoffs : t \in handoffs[h].terminals})

\* A request is answered once or waits where something will release it.
NoneLost == AnsweredOnce /\ NothingStranded

\* A handoff is carried out after every request that arrived before it for a
\* terminal it was put aside for.
HandoffAfterEarlier ==
  \A i \in DOMAIN log :
    IsPerformed(i, "handoff") =>
      \A r \in 1 .. log[i][1] - 1 :
        seen[r] \in captured[log[i][1]] /\ request[r].kind # "handoff" =>
          \E j \in 1 .. i - 1 : log[j][1] = r

\* However long it was put aside, a request is carried out in its turn and on
\* the terminal it was meant for.
CarriedOutAsMeant ==
  InputInArrivalOrder /\ HandoffAfterEarlier /\ IdentityKept

\* SPEC.md: a deferred handoff "remains ordered after each captured traversal
\* and before later input for those terminals".
HandoffBeforeLaterInput ==
  \A i \in DOMAIN log :
    IsPerformed(i, "input") =>
      \A h \in 1 .. log[i][1] - 1 :
        log[i][3] \in captured[h] => \E j \in 1 .. i - 1 : log[j][1] = h

\* Every request is answered.
AllAnswered ==
  \A r \in 1 .. MaxRequests : r \in Requests ~> Answered(r)

=============================================================================
