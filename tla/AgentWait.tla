------------------------------ MODULE AgentWait ------------------------------
(***************************************************************************)
(* How a client waits for an agent: agent.wait, agent.prompt with a wait,  *)
(* and events.wait.  The thread of the connection follows the server's     *)
(* event hub, a ring of numbered events, and asks the application thread   *)
(* for the agent when an event concerns it; the application thread goes on *)
(* changing the agent, its name and its pane meanwhile.  One request is    *)
(* modelled, beside one terminal it may be about and another one that can  *)
(* get the name.  A managed agent is one whose launch is over.             *)
(***************************************************************************)
EXTENDS Naturals, Sequences, SequencesExt, FiniteSets

CONSTANTS RingSize,   \* MAX_EVENTS
          Requests,   \* the requests a client may make
          Reported,   \* the states an agent is reported in
          MaxTurns,   \* bound, for each kind of request: turns of the
                      \* application that change something
          MaxSilent   \* bound: requests the application answers too late

Kinds == {"wait",    \* agent.wait
          "prompt",  \* agent.prompt with a wait
          "events"}  \* events.wait for a status

ASSUME BoundsAssumption ==
  /\ RingSize \in Nat \ {0} /\ MaxSilent \in Nat
  /\ MaxTurns \in [Kinds -> Nat]

States == {"Idle", "Working", "Blocked", "Unknown"}
ASSUME ReportedAssumption == Reported \subseteq States

Statuses == States \cup {"Done"}
NoLabel == "no agent"
Labels == {NoLabel, "codex", "claude"}
NoStatus == "no status"
Targets == {"name", "terminal"}   \* what the request calls the agent
Terminals == {"mine", "other"}    \* the terminal waited for, and another one
Nobody == "nobody"
Gone == 0                         \* the pane id of a pane that is closed

ASSUME RequestsAssumption ==
  Requests \subseteq [kind : Kinds, target : Targets,
                      until : SUBSET Statuses,
                      timeout : {"none", "short", "long"}]

VARIABLES
  hub,     \* EventHub: next (next_sequence) and events
  pane,    \* the pane of "mine" and the agent in it; alias: it has another
           \* name, argv: it was started with a command (launch_argv)
  holder,  \* the terminal whose agent_name is the name
  change,  \* next_agent_state_change_seq
  turns, silent,
  req,     \* the request
  w,       \* the connection's thread
  answer,  \* what it answered
  hist     \* history, for the properties

appVars == <<hub, pane, holder, change, turns>>
vars == <<appVars, silent, req, w, answer, hist>>

\* pane_agent_status
StatusOf(state, seen) == IF state = "Idle" /\ ~seen THEN "Done" ELSE state
Status == StatusOf(pane.state, pane.seen)

NoInfo == [terminal |-> Nobody, pane |-> Gone, named |-> FALSE,
           label |-> NoLabel, status |-> NoStatus, change |-> 0]
NoAnswer == [kind |-> "none", status |-> NoStatus, terminal |-> Nobody]

Event(p, kind, label, status) ==
  [pane |-> p, kind |-> kind, label |-> label, status |-> status]

\* Mutant: the ring keeps one event too many.
PushKeepsOneMore(h, e) ==
  LET all == Append(h.events, [seq |-> h.next + 1, event |-> e])
      overflow == IF Len(all) > RingSize + 1 THEN Len(all) - RingSize ELSE 0
  IN  [next |-> h.next + 1,
       events |-> SubSeq(all, overflow + 1, Len(all))]

\* EventHub::push: number the event, and drop the oldest ones past the size.
Push(h, e) ==
  LET all == Append(h.events, [seq |-> h.next + 1, event |-> e])
      overflow == IF Len(all) > RingSize THEN Len(all) - RingSize ELSE 0
  IN  [next |-> h.next + 1,
       events |-> SubSeq(all, overflow + 1, Len(all))]

\* Several events, one after the other.
PushAll(h, es) ==
  LET to[i \in 0 .. Len(es)] == IF i = 0 THEN h ELSE Push(to[i - 1], es[i])
  IN  to[Len(es)]

NoThread(phase, first) ==
  [phase |-> phase, stage |-> "final", from |-> 0, last |-> 0,
   agent |-> NoInfo, first |-> first, base |-> 0, gated |-> FALSE,
   matched |-> NoStatus, expired |-> FALSE, shown |-> NoStatus,
   offer |-> FALSE]

Init ==
  /\ pane \in [id : {1}, label : {NoLabel, "codex"},
               state : Reported \cup {"Unknown"},
               seen : BOOLEAN, change : {0}, managed : BOOLEAN,
               alias : BOOLEAN, argv : BOOLEAN, process : {"live", "none"}]
  /\ pane.label = NoLabel <=> pane.process = "none"
  /\ IF pane.label = NoLabel THEN pane.state = "Unknown"
     ELSE pane.state \in Reported
  /\ pane.state # "Idle" => pane.seen
  /\ hub = PushAll([next |-> 0, events |-> <<>>],
             \* from before the request: the agent was idle before
             <<Event(1, "status", "codex", "Idle"),
               Event(1, "status", pane.label, Status)>>)
  /\ holder \in {"mine", Nobody} /\ (pane.alias => holder = Nobody)
  /\ pane.managed => pane.alias \/ holder = "mine"
  /\ change = 0 /\ turns = 0 /\ silent = 0
  /\ req \in Requests /\ (req.kind = "events" => holder = Nobody)
  \* only a request that calls the agent by its terminal depends on these
  /\ req.kind = "events" \/ req.target = "name" => ~pane.alias /\ ~pane.argv
  /\ w = NoThread("new", Nobody)
  /\ answer = NoAnswer
  /\ hist = [held |-> {}, lost |-> FALSE, unmet |-> FALSE, effect |-> FALSE,
             released |-> FALSE, dropped |-> FALSE]

\* EventHub::events_after.
EventsAfter(n) ==
  LET upTo[i \in 0 .. Len(hub.events)] ==
        IF i = 0 THEN <<>>
        ELSE IF hub.events[i].seq > n THEN Append(upTo[i - 1], hub.events[i])
        ELSE upTo[i - 1]
  IN  upTo[Len(hub.events)]

-----------------------------------------------------------------------------
(* The application.  Each action is a turn: what it changes, with the       *)
(* events it pushes.                                                        *)

\* Mutant: the status alone counts, whenever it was reached.
MetEver(status, seq, until, gated) == status \in until

\* What a wait asks of the agent: agent_wait_matches.
Met(status, seq, until, gated) ==
  status \in until /\ (gated => seq > w.base)

Until == IF w.stage = "effect" THEN Statuses ELSE req.until

\* is_agent_terminal: by a name, the agent in it or the command that started it.
IsAgentTerminal(p, h) ==
  h = "mine" \/ p.alias \/ p.label # NoLabel \/ p.argv

\* A turn ends: the bound, and what the properties remember of it, with the
\* statuses the agent had only within the turn.  The turns of interest are
\* those between the request and its answer.
Turn(what, passing) ==
  LET now == StatusOf(pane'.state, pane'.seen)
  IN  /\ w.phase \notin {"new", "done"}
      /\ turns < MaxTurns[req.kind] /\ turns' = turns + 1
      /\ UNCHANGED <<silent, req, w, answer>>
      /\ hist' =
           [held |-> hist.held \cup {now} \cup passing,
            lost |-> hist.lost \/ what # "update" \/ holder' # holder
                     \/ pane'.label # pane.label \/ pane'.id # pane.id
                     \/ ~IsAgentTerminal(pane', holder'),
            unmet |-> hist.unmet
                      \/ (w.expired
                          /\ ~Met(now, pane'.change, Until, w.gated)),
            effect |-> hist.effect \/ pane'.change > w.base,
            released |-> hist.released \/ what = "release",
            dropped |-> hist.dropped
                        \/ hub'.next - Len(hub'.events) > w.last]

\* apply_pane_state_change: an agent that completed is unseen, unless its tab
\* is the active one of a focused client.
Completes(label, state) ==
  /\ state = "Idle"
  /\ \/ pane.state \in {"Working", "Blocked"}
     \/ pane.state = "Unknown" /\ pane.label # NoLabel /\ label = pane.label

SeenAfter(label, state, watched) ==
  IF state # "Idle" THEN TRUE
  ELSE IF Completes(label, state) THEN watched ELSE pane.seen

\* emit_pane_state_update.
StateEvents(label, status, released, looks) ==
  (IF released
   THEN <<Event(pane.id, "released", label, status)>>
   ELSE IF label # pane.label
        THEN <<Event(pane.id, "detected", label, NoStatus)>> ELSE <<>>)
  \o (IF status # Status \/ looks
      THEN <<Event(pane.id, "status", label, status)>> ELSE <<>>)

\* update_terminal_state_at: the pane afterwards, and the number of the last
\* state change, which moves only with the state.
Update(label, state, watched) ==
  [pane EXCEPT !.label = label, !.state = state,
               !.seen = SeenAfter(label, state, watched),
               !.change = IF state # pane.state THEN change + 1 ELSE @]
NextChange(state) == IF state # pane.state THEN change + 1 ELSE change

Open == pane.id # Gone

\* Who has the name when t's name is cleared or changed.
Without(t) == IF holder = t THEN Nobody ELSE holder

\* A detector's observation or a hook's report: another agent, another state,
\* or only another presentation.  A managed agent that turns out to be of
\* another kind loses its name (reconcile_managed_agent_at).
Observe ==
  \E label \in Labels, state \in Reported \cup {"Unknown"},
     watched \in BOOLEAN :
    LET p == Update(label, state, watched)
        looks == label = pane.label /\ state = pane.state
        loses == pane.managed /\ label \notin {NoLabel, "codex"}
    IN  /\ Open
        /\ IF pane.process = "none" THEN label = NoLabel
           ELSE label # NoLabel
        /\ IF label = NoLabel THEN state = "Unknown" ELSE state \in Reported
        /\ watched => Completes(label, state)
        /\ pane' = [p EXCEPT !.managed = @ /\ ~loses, !.alias = @ /\ ~loses]
        /\ holder' = IF loses THEN Without("mine") ELSE holder
        /\ change' = NextChange(state)
        /\ hub' = PushAll(hub, StateEvents(label, StatusOf(state, p.seen),
                                           FALSE, looks))
        /\ Turn("update", {})

\* An agent is started in the pane, which the application does not know yet.
ProcessStarts ==
  /\ Open /\ pane.process = "none"
  /\ pane' = [pane EXCEPT !.process = "live"]
  /\ UNCHANGED <<hub, holder, change>> /\ Turn("update", {})

\* The agent's process ends and its exit is reported: the agent is idle and
\* released, its label stays, and a managed agent loses its name.  This is
\* published also when the agent was idle already.
ProcessExit ==
  \E watched \in BOOLEAN :
    LET p == Update(pane.label, "Idle", watched)
    IN  /\ Open /\ pane.process = "live" /\ pane.label # NoLabel
        /\ watched => Completes(pane.label, "Idle")
        /\ pane' = [p EXCEPT !.process = "none", !.managed = FALSE,
                             !.alias = @ /\ ~pane.managed]
        /\ holder' = IF pane.managed THEN Without("mine") ELSE holder
        /\ change' = NextChange("Idle")
        /\ hub' = PushAll(hub, StateEvents(pane.label,
                                           StatusOf("Idle", p.seen),
                                           TRUE, FALSE))
        /\ Turn("release", {})

\* A hook releases the agent (pane.release_agent).  A process that goes on
\* none the less is one that starts.
HookRelease ==
  /\ Open /\ pane.label # NoLabel
  /\ pane' = [Update(NoLabel, "Unknown", FALSE) EXCEPT !.process = "none"]
  /\ change' = NextChange("Unknown")
  /\ hub' = PushAll(hub, StateEvents(NoLabel, "Unknown", TRUE, FALSE))
  /\ UNCHANGED holder /\ Turn("release", {})

\* The pane's own process dies, and with it the agent, if there is one.
\* (publish_pane_process_exit_if_agent)
WithAgent == pane.label # NoLabel
Death == IF WithAgent THEN "release" ELSE "update"
Died(watched) ==
  IF WithAgent THEN Update(pane.label, "Idle", watched) ELSE pane
DeathEvents(watched) ==
  IF WithAgent
  THEN StateEvents(pane.label, StatusOf("Idle", Died(watched).seen), TRUE,
                   FALSE)
  ELSE <<>>
PaneDies(watched) ==
  /\ Open /\ (watched => WithAgent /\ Completes(pane.label, "Idle"))
  /\ holder' = Without("mine")
  /\ change' = IF WithAgent THEN NextChange("Idle") ELSE change

\* The pane goes, or gets a new shell and keeps no trace of the agent.
PaneExits ==
  \E watched \in BOOLEAN :
    /\ PaneDies(watched)
    /\ pane' = [Died(watched) EXCEPT !.id = Gone, !.managed = FALSE,
                                     !.process = "none"]
    /\ hub' = PushAll(hub, DeathEvents(watched)
                           \o <<Event(pane.id, "gone", NoLabel, NoStatus)>>)
    /\ Turn(Death, {})

PaneRespawns ==
  \E watched \in BOOLEAN :
    /\ PaneDies(watched)
    /\ pane' = [Died(watched) EXCEPT !.label = NoLabel, !.state = "Unknown",
                  !.change = 0, !.managed = FALSE, !.alias = FALSE,
                  !.argv = FALSE, !.process = "none"]
    /\ hub' = PushAll(hub, DeathEvents(watched))
    /\ Turn(Death, {StatusOf(Died(watched).state, Died(watched).seen)})

\* pane.close.
Close ==
  /\ Open /\ pane' = [pane EXCEPT !.id = Gone, !.managed = FALSE]
  /\ holder' = Without("mine")
  /\ hub' = Push(hub, Event(pane.id, "gone", NoLabel, NoStatus))
  /\ UNCHANGED change /\ Turn("update", {})

\* pane.move.  In another workspace the pane has a new public id, and the old
\* one goes on to resolve; the event is the same within a workspace.
Move ==
  \E to \in {pane.id, 2} :
    /\ Open /\ pane' = [pane EXCEPT !.id = to]
    /\ hub' = Push(hub, Event(pane.id, "moved", NoLabel, NoStatus))
    /\ UNCHANGED <<holder, change>> /\ Turn("move", {})

\* emit_pane_updated (a title, a managed agent), or an event of another pane.
Updated ==
  \E p \in {pane.id, 9} :
    /\ Open /\ hub' = Push(hub, Event(p, "updated", NoLabel, NoStatus))
    /\ UNCHANGED <<pane, holder, change>> /\ Turn("update", {})

\* mark_active_tab_seen: no event.
MarkSeen ==
  /\ Open /\ ~pane.seen /\ pane' = [pane EXCEPT !.seen = TRUE]
  /\ UNCHANGED <<hub, holder, change>> /\ Turn("update", {})

\* agent.rename: no event.  A name is given only when nobody has it.  An
\* agent stays managed under another name, and not without one.
RenameMine ==
  /\ Open
  /\ \/ holder = Nobody /\ holder' = "mine"
        /\ pane' = [pane EXCEPT !.alias = FALSE]
     \/ holder' = Without("mine") /\ ~pane.alias
        /\ pane' = [pane EXCEPT !.alias = TRUE]
     \/ holder' = Without("mine") /\ (holder = "mine" \/ pane.alias)
        /\ pane' = [pane EXCEPT !.alias = FALSE, !.managed = FALSE]

RenameOther ==
  /\ \/ holder = Nobody /\ holder' = "other"
     \/ holder = "other" /\ holder' = Nobody
  /\ UNCHANGED pane

Rename ==
  /\ RenameMine \/ RenameOther
  /\ UNCHANGED <<hub, change>> /\ Turn("update", {})

App == Observe \/ ProcessStarts \/ ProcessExit \/ HookRelease
       \/ PaneExits \/ PaneRespawns \/ Close \/ Move \/ Updated \/ MarkSeen
       \/ Rename

-----------------------------------------------------------------------------
(* The connection's thread. *)

\* agent_info, of either terminal.  The other one has an idle agent.
InfoOf(t) ==
  IF t = "mine"
  THEN [terminal |-> t, pane |-> pane.id, named |-> holder = t,
        label |-> pane.label, status |-> Status, change |-> pane.change]
  ELSE [terminal |-> t, pane |-> 9, named |-> TRUE, label |-> "codex",
        status |-> "Idle", change |-> 0]

\* agent_get: the agents the target resolves to, at most one.
AgentGet ==
  IF req.target = "name"
  THEN {InfoOf(t) : t \in {holder} \ {Nobody}}
  ELSE {InfoOf(t) : t \in {u \in {"mine"} :
          Open /\ IsAgentTerminal(pane, holder)}}

\* Mutant: the name and the kind of agent suffice, in whatever terminal.
SameAgentAnywhere(a, expected) ==
  /\ req.target = "name" /\ expected.named => a.named
  /\ expected.label # NoLabel =>
       IF a.label = NoLabel THEN a.named ELSE a.label = expected.label

\* Whether an answer is still about the agent the wait was for.
\* (agent_wait_identity_matches)
SameAgent(a, expected) ==
  /\ a.terminal = expected.terminal
  /\ req.target = "name" /\ expected.named => a.named
  /\ expected.label # NoLabel =>
       IF a.label = NoLabel THEN a.named ELSE a.label = expected.label

Go(phase) == w' = [w EXCEPT !.phase = phase] /\ UNCHANGED <<answer, hist>>
Answer(kind, status, t) ==
  /\ answer' = [kind |-> kind, status |-> status, terminal |-> t]
  /\ w' = NoThread("done", w.first) /\ UNCHANGED hist
NotRunning == Answer("not_running", NoStatus, Nobody)
Failed == Answer("error", NoStatus, Nobody)

\* Mutant: the wait begins with the events that are in the ring already.
BeginWithOldEvents ==
  /\ w.phase = "new"
  /\ w' = [w EXCEPT !.phase = "resolve"]
  /\ hist' = [hist EXCEPT !.held = {Status}]
  /\ UNCHANGED answer

\* The request arrives; the number of the last event is read first.
Begin ==
  /\ w.phase = "new"
  /\ w' = [w EXCEPT !.phase = "resolve", !.from = hub.next,
                    !.last = hub.next]
  /\ hist' = [hist EXCEPT !.held = {Status}]
  /\ UNCHANGED answer

\* Mutant: the number of the last event is read after the agent.
ResolveThenNumber ==
  /\ w.phase = "resolve" /\ req.kind # "events"
  /\ IF w.first # Nobody
     THEN /\ w' = [w EXCEPT !.from = hub.next, !.last = hub.next,
                     !.phase = IF req.kind = "wait" THEN "loop"
                               ELSE "prompt"]
          /\ UNCHANGED <<answer, hist>>
     ELSE IF AgentGet = {} THEN Failed
     ELSE \E a \in AgentGet :
       IF req.kind = "wait" /\ a.status \in req.until
       THEN Answer("success", a.status, a.terminal)
       ELSE /\ w' = [w EXCEPT !.agent = a, !.first = a.terminal]
            /\ UNCHANGED <<answer, hist>>

\* The first agent_get of agent.wait and of agent.prompt.
Resolve ==
  /\ w.phase = "resolve" /\ req.kind # "events"
  /\ IF AgentGet = {} THEN Failed
     ELSE \E a \in AgentGet :
       IF req.kind = "wait" /\ a.status \in req.until
       THEN Answer("success", a.status, a.terminal)
       ELSE /\ w' = [w EXCEPT !.agent = a, !.first = a.terminal,
                       !.phase = IF req.kind = "wait" THEN "loop"
                                 ELSE "prompt"]
            /\ UNCHANGED <<answer, hist>>

\* agent.prompt in the application (handle_agent_prompt).  An agent that is
\* not idle is refused, so the wait for an effect always comes first.
Promptable ==
  holder = "mine" =>
    pane.label # NoLabel /\ pane.state = "Idle" /\ pane.process = "live"

PromptRefused == w.phase = "prompt" /\ Failed

Prompt ==
  /\ w.phase = "prompt" /\ holder # Nobody /\ Promptable
  /\ LET a == InfoOf(holder) IN
       IF ~SameAgent(a, w.agent) THEN NotRunning
       ELSE /\ w' = [w EXCEPT !.agent = a, !.base = a.change, !.gated = TRUE,
                       !.stage = "effect", !.phase = "loop"]
            /\ hist' = [hist EXCEPT !.effect = FALSE]
            /\ UNCHANGED answer

\* A wait has found what it waits for.  After the wait for an effect the wait
\* for the status begins, with the events since the request.
Matched(a) ==
  IF w.stage = "final" \/ a.status \in req.until
  THEN Answer("success", a.status, a.terminal)
  ELSE /\ w' = [w EXCEPT !.stage = "final", !.phase = "loop", !.agent = a,
                  !.last = w.from, !.gated = FALSE, !.matched = NoStatus,
                  !.expired = @ /\ req.timeout = "short"]
       /\ hist' = [hist EXCEPT !.unmet =
                     w.expired /\ req.timeout = "short"
                     /\ ~Met(Status, pane.change, req.until, FALSE)]
       /\ UNCHANGED answer

\* An event after which the agent is not the one waited for.
Stops(e) ==
  \/ e.kind \in {"released", "moved", "gone"}
  \/ /\ e.kind = "detected" /\ e.label # NoLabel
     /\ w.agent.label \notin {NoLabel, e.label}

\* One pass over the events.  Only agent.wait accepts a status the agent may
\* have left again.
ReadEvents ==
  LET batch == EventsAfter(w.last)
      own == {i \in DOMAIN batch : batch[i].event.pane = w.agent.pane}
      stops == {i \in own : Stops(batch[i].event)}
      end == IF stops = {} THEN Len(batch) ELSE Min(stops)
      hits == {i \in own : /\ i < end \/ stops = {}
                           /\ batch[i].event.kind = "status"
                           /\ batch[i].event.status \in Until
                           /\ req.kind = "wait"}
      matched == IF hits = {} THEN NoStatus
                 ELSE batch[Max(hits)].event.status
      stop == batch[end].event
      final == IF stop.status \in Until THEN stop.status ELSE matched
  IN  /\ w.phase = "loop" /\ req.kind # "events"
      /\ batch # <<>> \/ w.expired
      /\ IF stops = {}
         THEN /\ w' = [w EXCEPT
                   !.last = IF batch = <<>> THEN @ ELSE Last(batch).seq,
                   !.matched = matched,
                   !.phase = IF own # {} THEN "probe"
                             ELSE IF w.expired THEN "dead" ELSE "loop"]
              /\ UNCHANGED <<answer, hist>>
         ELSE IF stop.kind = "released" /\ final # NoStatus
              THEN Matched([w.agent EXCEPT !.status = final])
              ELSE NotRunning

\* The agent_get after an event that concerns the agent.
Probe ==
  /\ w.phase = "probe"
  /\ IF \A a \in AgentGet : ~SameAgent(a, w.agent) THEN NotRunning
     ELSE \E a \in AgentGet :
       IF w.matched # NoStatus THEN Matched([a EXCEPT !.status = w.matched])
       ELSE IF Met(a.status, a.change, Until, w.gated) THEN Matched(a)
       ELSE Go(IF w.expired THEN "dead" ELSE "loop")

\* The last look, when the time is over.
HasDeadline == w.stage = "effect" \/ req.timeout # "none"
Expire ==
  /\ w.phase \notin {"new", "resolve", "prompt", "done"}
  /\ HasDeadline /\ ~w.expired
  /\ w' = [w EXCEPT !.expired = TRUE]
  /\ hist' = [hist EXCEPT !.unmet =
                ~Met(Status, pane.change, Until, w.gated)]
  /\ UNCHANGED answer

\* Mutant: when the time is over the agent is not looked at again.
DeadlineBlind ==
  /\ w.phase = "dead"
  /\ Answer(IF w.stage = "effect" /\ req.timeout # "short"
            THEN "stalled" ELSE "timeout", NoStatus, Nobody)

Deadline ==
  /\ w.phase = "dead"
  /\ IF \A a \in AgentGet : ~SameAgent(a, w.agent) THEN NotRunning
     ELSE \E a \in AgentGet :
       IF Met(a.status, a.change, Until, w.gated) THEN Matched(a)
       ELSE Answer(IF w.stage = "effect" /\ req.timeout # "short"
                   THEN "stalled" ELSE "timeout", NoStatus, Nobody)

-----------------------------------------------------------------------------
(* events.wait: a subscription to the status of a pane, polled until it has *)
(* the status that is wanted.                                               *)

\* ActiveSubscription::new.  The pane is looked at after the number is read.
Subscribe ==
  /\ w.phase = "resolve" /\ req.kind = "events"
  /\ IF ~Open THEN Failed
     ELSE /\ w' = [w EXCEPT !.agent = InfoOf("mine"), !.first = "mine",
                     !.shown = Status, !.offer = Status \in req.until,
                     !.phase = "loop"]
          /\ UNCHANGED <<answer, hist>>

\* The poll has nothing to tell.
NoEvent(shown) ==
  IF w.expired THEN Answer("timeout", NoStatus, Nobody)
  ELSE /\ w' = [w EXCEPT !.phase = "loop", !.shown = shown]
       /\ UNCHANGED <<answer, hist>>

\* poll_result: first the events.  One of them that is not the wanted status
\* makes what the subscription began with out of date.
PollEvents ==
  LET batch == EventsAfter(w.last)
      own == {i \in DOMAIN batch : /\ batch[i].event.pane = w.agent.pane
                                   /\ batch[i].event.kind = "status"}
      hits == {i \in own : batch[i].event.status \in req.until}
  IN  /\ w.phase = "loop" /\ req.kind = "events"
      /\ IF hits # {}
         THEN Answer("success", batch[Min(hits)].event.status, "mine")
         ELSE /\ w' = [w EXCEPT
                   !.last = IF batch = <<>> THEN @ ELSE Last(batch).seq,
                   !.offer = @ /\ own = {},
                   !.shown = IF own = {} THEN @
                             ELSE batch[Max(own)].event.status,
                   !.phase = IF own = {} THEN "check" ELSE "snap"]
              /\ UNCHANGED <<answer, hist>>

\* Mutant: without an event the pane is not looked at.
PollInitialOnly ==
  /\ w.phase = "check"
  /\ IF hub.next = w.last /\ w.offer
     THEN Answer("success", w.agent.status, "mine")
     ELSE NoEvent(w.shown)

\* Then, if no event came since, what it began with.
PollInitial ==
  /\ w.phase = "check"
  /\ IF hub.next # w.last THEN NoEvent(w.shown)
     ELSE IF w.offer THEN Answer("success", w.agent.status, "mine")
     ELSE Go("snap")

\* Then the pane itself, if no event came while it was looked at.
TakeSnapshot ==
  /\ w.phase = "snap"
  /\ w' = [w EXCEPT !.phase = "snapped",
                    !.agent.status = IF Open THEN Status ELSE NoStatus]
  /\ UNCHANGED <<answer, hist>>

PollSnapshot ==
  LET status == w.agent.status
  IN  /\ w.phase = "snapped"
      /\ IF hub.next # w.last THEN NoEvent(w.shown)
         ELSE IF status = NoStatus THEN Failed
         ELSE IF status # w.shown /\ status \in req.until
              THEN Answer("success", status, "mine")
         ELSE NoEvent(status)

\* The application does not answer a look within APP_RESPONSE_TIMEOUT.
Silent ==
  /\ silent < MaxSilent /\ silent' = silent + 1
  /\ \/ w.phase \in {"resolve", "probe", "dead"} /\ Failed
     \/ w.phase = "snap" /\ NoEvent(w.shown)
  /\ UNCHANGED <<appVars, req>>

\* The client closes its connection, or the server stops.
Leave ==
  /\ w.phase = "loop" /\ Answer("left", NoStatus, Nobody)
  /\ UNCHANGED <<appVars, req, silent>>

Thread ==
  /\ Begin \/ Resolve \/ PromptRefused \/ Prompt \/ ReadEvents \/ Probe
     \/ Deadline \/ Subscribe \/ PollEvents \/ PollInitial \/ TakeSnapshot
     \/ PollSnapshot
  /\ UNCHANGED <<appVars, req, silent>>

Timer == Expire /\ UNCHANGED <<appVars, req, silent>>

Next == App \/ Thread \/ Timer \/ Silent \/ Leave

Spec == Init /\ [][Next]_vars

\* A thread that can go on does, and time passes.  Nothing is assumed of the
\* agent, or of the application beyond its answers.
FairSpec == Spec /\ WF_vars(Thread) /\ WF_vars(Timer)

-----------------------------------------------------------------------------
(* Properties *)

\* Every variable keeps to its type, and the ring to its size and numbering.
TypeOK ==
  /\ hub.next \in Nat /\ Len(hub.events) <= RingSize
  /\ \A i \in DOMAIN hub.events :
       hub.events[i].seq = hub.next - Len(hub.events) + i
  /\ pane.id \in 0 .. 2 /\ pane.label \in Labels /\ pane.state \in States
  /\ pane.seen \in BOOLEAN /\ pane.managed \in BOOLEAN
  /\ pane.change \in 0 .. change /\ pane.process \in {"live", "none"}
  /\ holder \in Terminals \cup {Nobody}
  /\ pane.alias \in BOOLEAN /\ (pane.alias => holder # "mine")
  /\ pane.argv \in BOOLEAN
  /\ req \in Requests /\ w.from <= w.last /\ w.last <= hub.next
  /\ w.phase \in {"new", "resolve", "prompt", "loop", "probe", "dead",
                  "check", "snap", "snapped", "done"}
  /\ hist.held \subseteq Statuses

\* A wait never retargets, and a status it reports is one the agent's
\* terminal had since the request was made.
SuccessIsTrue ==
  answer.kind = "success" =>
    /\ answer.status \in req.until
    /\ w.first # Nobody => answer.terminal = w.first
    /\ answer.terminal = "mine" => answer.status \in hist.held

\* A wait that says the agent is not running any more has lost it: since the
\* request the agent was released or replaced, its name changed, or its pane
\* was moved, closed or no longer an agent's.
NotRunningIsTrue == answer.kind = "not_running" => hist.lost

\* A wait gives up only when the agent was not as asked for at some time
\* after the deadline, so an event that was dropped from the ring costs time
\* but not the answer.
TimeoutIsTrue ==
  /\ answer.kind \in {"timeout", "stalled"} /\ req.kind # "events"
  /\ w.first = "mine"
  => hist.unmet

\* A prompt is reported as completed only after something happened to the
\* agent that was prompted: its state changed, or it was released.
PromptHadEffect ==
  answer.kind = "success" /\ req.kind = "prompt" =>
    hist.effect \/ hist.released

\* What the client of a wait is told is true.
AnswersAreTrue ==
  SuccessIsTrue /\ NotRunningIsTrue /\ TimeoutIsTrue /\ PromptHadEffect

\* A request is answered when it has a timeout.  Without one, events.wait is
\* answered when the pane has the wanted status for good, whatever events
\* were dropped or never sent; agent.wait and agent.prompt when no event was
\* dropped and they do not tell Idle from Done.
Owed ==
  \/ req.timeout # "none"
  \/ req.kind = "events" /\ Open /\ Status \in req.until
  \/ /\ req.kind # "events" /\ w.first \in {"mine", Nobody}
     /\ Status \in req.until /\ ~hist.dropped
     /\ ({"Idle", "Done"} \subseteq req.until
         \/ {"Idle", "Done"} \cap req.until = {})

AwaitedIsAnswered == <>[]Owed => <>(answer # NoAnswer)

\* An agent.prompt that waits is answered with success only for an effect that
\* is later than the prompt (api/server.rs, the test
\* m840_prompt_wait_requires_a_post_submission_sequence).
CompletionIsAfterBaseline ==
  answer.kind = "success" /\ req.kind = "prompt" => hist.effect

=============================================================================
