------------------------------ MODULE Delivery ------------------------------
(***************************************************************************)
(* The life of a message on zynk's native bus.  A sender is one CLI        *)
(* process: it persists the message in the global SQLite store, asks the   *)
(* server of its session to type the text into the target pane, and then   *)
(* records what happened as a delivery event.  Receivers report receipts   *)
(* to that server, and every server that cold-starts on the shared store   *)
(* fails the messages whose sender seems to have died before recording     *)
(* anything.  Senders, servers and receivers are separate processes; each  *)
(* BEGIN IMMEDIATE transaction of the store is one step here.              *)
(***************************************************************************)
EXTENDS Naturals, Sequences

CONSTANTS Messages,  \* send attempts; one sender process each
          Servers    \* named servers, one socket namespace each

ASSUME MessagesNonEmpty == Messages # {}
ASSUME ServersNonEmpty == Servers # {}

VARIABLES
  pc,       \* pc[m]: where the sender process of m is
  command,  \* command[m]: the CLI command that sends m
  socket,   \* socket[m]: the server m is addressed through
  stored,   \* stored[m]: m's row (with its FTS row and embedding job) exists
  expired,  \* expired[m]: m's created_at is older than ORPHAN_GRACE
  log,      \* log[m]: m's delivery_events rows in seq order
  seq,      \* seq[m]: messages.delivery_seq
  rpc,      \* rpc[m]: m's transport request inside the server
  pty,      \* pty[m]: what the pane's input queue was given for m
  outcome,  \* outcome[m]: the result the sender printed
  server,   \* server[s]: the phase of server s
  orphans   \* orphans[s]: the orphan ids a cold start selected and has left

senderVars == <<pc, command, socket, outcome>>
storeVars == <<stored, expired, log, seq>>
vars == <<pc, command, socket, stored, expired, log, seq, rpc, pty, outcome,
          server, orphans>>

-----------------------------------------------------------------------------
(* The vocabulary.  An event is an event_type with its proof source; the   *)
(* only pair that has to be told apart from its type is the synthetic      *)
(* failed / system.recovery event, here "recovered".                       *)

\* send covers zynk send, zynk reply, agent send and pane run, which share
\* one flow over pane.send_input; prompt is agent prompt; draft is pane
\* send-text, which types the text without Enter.
Commands == {"send", "prompt", "draft"}

Events == {"drafted", "submitted", "received", "failed", "recovered"}

EventType(e) == IF e = "recovered" THEN "failed" ELSE e

SenderStates == {"start", "persisted", "waiting", "recording", "refused",
                 "unanswered", "exited", "killed"}

Outcomes == {"none",
             "ok",            \* exit 0: the event is recorded
             "unrecorded",    \* the terminal took it, the store errored
             "superseded",    \* the terminal took it, its event was refused
             "resend",        \* failed: "inspect the error and resend"
             "unverified"}    \* failed: "do not resubmit automatically"

\* The event a sender records once the server confirmed the terminal effect.
ConfirmedEvent(c) == IF c = "draft" THEN "drafted" ELSE "submitted"

\* What the pane's input queue receives: text, or text followed by Enter.
TerminalEffect(c) == IF c = "draft" THEN "typed" ELSE "entered"

-----------------------------------------------------------------------------
(* The store.                                                              *)

EventLess(m) == log[m] = <<>>

Latest(l) == EventType(l[Len(l)])

ValidTransitionNoHistory(l, e) == EventType(e) # "received" \/ l # <<>>

\* validate_delivery_transition
ValidTransition(l, e) ==
  IF l = <<>>
  THEN EventType(e) # "received"
  ELSE \/ Latest(l) = "drafted" /\ EventType(e) = "failed"
       \/ Latest(l) = "submitted" /\ EventType(e) = "received"

RecordCountsDown(m, e) ==
  /\ log' = [log EXCEPT ![m] = Append(@, e)]
  /\ seq' = [seq EXCEPT ![m] = @ - 1]

\* The insert into delivery_events and the bump of messages.delivery_seq.
Record(m, e) ==
  /\ log' = [log EXCEPT ![m] = Append(@, e)]
  /\ seq' = [seq EXCEPT ![m] = @ + 1]

-----------------------------------------------------------------------------
Init ==
  /\ pc = [m \in Messages |-> "start"]
  /\ command \in [Messages -> Commands]
  /\ socket \in [Messages -> Servers]
  /\ stored = [m \in Messages |-> FALSE]
  /\ expired = [m \in Messages |-> FALSE]
  /\ log = [m \in Messages |-> <<>>]
  /\ seq = [m \in Messages |-> 0]
  /\ rpc = [m \in Messages |-> "none"]
  /\ pty = [m \in Messages |-> "none"]
  /\ outcome = [m \in Messages |-> "none"]
  /\ server = [s \in Servers |-> "down"]
  /\ orphans = [s \in Servers |-> {}]

-----------------------------------------------------------------------------
(* The sender process.                                                     *)

BeginSendAttemptFailed(m) ==
  /\ pc[m] = "start"
  /\ pc' = [pc EXCEPT ![m] = "persisted"]
  /\ stored' = [stored EXCEPT ![m] = TRUE]
  /\ Record(m, "failed")
  /\ UNCHANGED <<command, socket, expired, rpc, pty, outcome, server, orphans>>

\* Target resolution succeeded and begin_send_attempt committed the message.
BeginSendAttempt(m) ==
  /\ pc[m] = "start"
  /\ pc' = [pc EXCEPT ![m] = "persisted"]
  /\ stored' = [stored EXCEPT ![m] = TRUE]
  /\ UNCHANGED <<command, socket, expired, log, seq, rpc, pty, outcome,
                 server, orphans>>

\* Resolution failed or begin_send_attempt rolled back: nothing is stored and
\* nothing is sent.
AbandonSend(m) ==
  /\ pc[m] = "start"
  /\ pc' = [pc EXCEPT ![m] = "exited"]
  /\ outcome' = [outcome EXCEPT ![m] = "resend"]
  /\ UNCHANGED <<command, socket, stored, expired, log, seq, rpc, pty,
                 server, orphans>>

\* The transaction committed but close_connection failed: the sender reports
\* an error for a message that is stored, and sends nothing.
PersistUnconfirmed(m) ==
  /\ pc[m] = "start"
  /\ pc' = [pc EXCEPT ![m] = "exited"]
  /\ stored' = [stored EXCEPT ![m] = TRUE]
  /\ outcome' = [outcome EXCEPT ![m] = "resend"]
  /\ UNCHANGED <<command, socket, expired, log, seq, rpc, pty, server, orphans>>

\* send_request connected and wrote the request to a serving server.
SendRequest(m) ==
  /\ pc[m] = "persisted"
  /\ server[socket[m]] = "up"
  /\ pc' = [pc EXCEPT ![m] = "waiting"]
  /\ rpc' = [rpc EXCEPT ![m] = "queued"]
  /\ UNCHANGED <<command, socket, stored, expired, log, seq, pty, outcome,
                 server, orphans>>

\* send_request failed before the request was written: the socket is closed,
\* the ping failed or the protocol guard refused.
ConnectFails(m) ==
  /\ pc[m] = "persisted"
  /\ pc' = [pc EXCEPT ![m] = "unanswered"]
  /\ UNCHANGED <<command, socket, stored, expired, log, seq, rpc, pty,
                 outcome, server, orphans>>

ReadResponseTrusting(m) ==
  /\ pc[m] = "waiting"
  /\ rpc[m] \in {"done", "error", "dropped"}
  /\ pc' = [pc EXCEPT ![m] = IF rpc[m] = "error" THEN "refused"
                                                 ELSE "recording"]
  /\ UNCHANGED <<command, socket, stored, expired, log, seq, rpc, pty,
                 outcome, server, orphans>>

\* The response line arrived: a success, or an error body, which is also what
\* the connection thread of a stopping server answers for a request that the
\* app loop dropped (server_unavailable).
ReadResponse(m) ==
  /\ pc[m] = "waiting"
  /\ rpc[m] \in {"done", "error", "dropped"}
  /\ pc' = [pc EXCEPT ![m] = IF rpc[m] = "done" THEN "recording"
                                                ELSE "refused"]
  /\ UNCHANGED <<command, socket, stored, expired, log, seq, rpc, pty,
                 outcome, server, orphans>>

LoseResponseAsError(m) ==
  /\ pc[m] = "waiting"
  /\ rpc[m] \in {"done", "error", "dropped"}
  /\ pc' = [pc EXCEPT ![m] = "refused"]
  /\ UNCHANGED <<command, socket, stored, expired, log, seq, rpc, pty,
                 outcome, server, orphans>>

\* The connection ended without a readable answer: the server process died, or
\* its answer was lost or not valid JSON.
LoseResponse(m) ==
  /\ pc[m] = "waiting"
  /\ rpc[m] \in {"done", "error", "dropped"}
  /\ pc' = [pc EXCEPT ![m] = "unanswered"]
  /\ UNCHANGED <<command, socket, stored, expired, log, seq, rpc, pty,
                 outcome, server, orphans>>

RecordConfirmedAnyway(m) ==
  /\ pc[m] = "recording"
  /\ pc' = [pc EXCEPT ![m] = "exited"]
  /\ outcome' = [outcome EXCEPT ![m] = "ok"]
  /\ IF ValidTransition(log[m], ConfirmedEvent(command[m]))
     THEN Record(m, ConfirmedEvent(command[m]))
     ELSE UNCHANGED <<log, seq>>
  /\ UNCHANGED <<command, socket, stored, expired, rpc, pty, server, orphans>>

\* append_delivery_event(Submitted | Drafted) after a confirmed effect.  A
\* store error leaves the event out, or, when only closing the connection
\* failed, recorded.
RecordConfirmed(m) ==
  /\ pc[m] = "recording"
  /\ pc' = [pc EXCEPT ![m] = "exited"]
  /\ \/ /\ ValidTransition(log[m], ConfirmedEvent(command[m]))
        /\ Record(m, ConfirmedEvent(command[m]))
        /\ outcome' = [outcome EXCEPT ![m] = "ok"]
     \/ /\ ~ValidTransition(log[m], ConfirmedEvent(command[m]))
        /\ outcome' = [outcome EXCEPT ![m] = "superseded"]
        /\ UNCHANGED <<log, seq>>
     \/ /\ outcome' = [outcome EXCEPT ![m] = "unrecorded"]
        /\ \/ /\ ValidTransition(log[m], ConfirmedEvent(command[m]))
              /\ Record(m, ConfirmedEvent(command[m]))
           \/ UNCHANGED <<log, seq>>
  /\ UNCHANGED <<command, socket, stored, expired, rpc, pty, server, orphans>>

\* agent prompt alone tells an unanswered request from a refused one.
FailureOutcome(c, answered) ==
  IF c = "prompt" /\ ~answered THEN "unverified" ELSE "resend"

\* append_delivery_event(Failed) after an error answer or no answer.  A refused
\* or failed append is ignored, or reported under the same advice.
RecordFailed(m) ==
  /\ pc[m] \in {"refused", "unanswered"}
  /\ pc' = [pc EXCEPT ![m] = "exited"]
  /\ outcome' = [outcome EXCEPT ![m] =
                   FailureOutcome(command[m], pc[m] = "refused")]
  /\ \/ ValidTransition(log[m], "failed") /\ Record(m, "failed")
     \/ UNCHANGED <<log, seq>>
  /\ UNCHANGED <<command, socket, stored, expired, rpc, pty, server, orphans>>

\* The sender process dies, or is suspended and never runs again.  (Dying
\* after its last commit is exiting with nobody reading the outcome.)
KillSender(m) ==
  /\ pc[m] \notin {"start", "exited", "killed"}
  /\ pc' = [pc EXCEPT ![m] = "killed"]
  /\ UNCHANGED <<command, socket, stored, expired, log, seq, rpc, pty,
                 outcome, server, orphans>>

-----------------------------------------------------------------------------
(* The server.                                                             *)

\* The app loop handles pane.send_input, pane.send_text or agent.prompt: the
\* encoded bytes enter the pane's input queue as one item, then it answers.
HandleRequest(m) ==
  /\ rpc[m] = "queued"
  /\ server[socket[m]] = "up"
  /\ rpc' = [rpc EXCEPT ![m] = "done"]
  /\ pty' = [pty EXCEPT ![m] = TerminalEffect(command[m])]
  /\ UNCHANGED <<pc, command, socket, stored, expired, log, seq, outcome,
                 server, orphans>>

\* Any refusal of the handler - no such pane, an unsupported key, an agent
\* that is not ready, a full input queue - comes before the bytes are queued.
\* (The agent_info lookup after the prompt's write cannot fail: the handler
\* has resolved that agent terminal, and nothing runs in between.)
RejectRequest(m) ==
  /\ rpc[m] = "queued"
  /\ server[socket[m]] = "up"
  /\ rpc' = [rpc EXCEPT ![m] = "error"]
  /\ UNCHANGED <<pc, command, socket, stored, expired, log, seq, pty, outcome,
                 server, orphans>>

\* An accepted zynk.message_received: the receipt names a stored message of
\* this server's socket namespace whose latest event is submitted.  Every
\* other receipt is answered (already_received, draft_not_submitted,
\* already_failed, invalid_delivery_transition, ...) and changes nothing.
MessageReceived(s, m) ==
  /\ server[s] = "up"
  /\ socket[m] = s
  /\ stored[m]
  /\ ~EventLess(m)
  /\ Latest(log[m]) = "submitted"
  /\ ValidTransition(log[m], "received")
  /\ Record(m, "received")
  /\ UNCHANGED <<pc, command, socket, stored, expired, rpc, pty, outcome,
                 server, orphans>>

ColdStartNoGrace(s) ==
  /\ server[s] = "down"
  /\ server' = [server EXCEPT ![s] = "recovering"]
  /\ orphans' = [orphans EXCEPT ![s] =
                   {m \in Messages : stored[m] /\ EventLess(m)}]
  /\ UNCHANGED <<senderVars, storeVars, rpc, pty>>

\* The startup pre-flight opens the store and selects the event-less messages
\* that are older than the grace.
ColdStart(s) ==
  /\ server[s] = "down"
  /\ server' = [server EXCEPT ![s] = "recovering"]
  /\ orphans' = [orphans EXCEPT ![s] =
                   {m \in Messages : stored[m] /\ expired[m] /\ EventLess(m)}]
  /\ UNCHANGED <<senderVars, storeVars, rpc, pty>>

FailOrphanNoBump(s, m) ==
  /\ server[s] = "recovering"
  /\ m \in orphans[s]
  /\ orphans' = [orphans EXCEPT ![s] = @ \ {m}]
  /\ IF EventLess(m)
     THEN log' = [log EXCEPT ![m] = Append(@, "recovered")]
     ELSE UNCHANGED log
  /\ UNCHANGED <<pc, command, socket, stored, expired, seq, rpc, pty, outcome,
                 server>>

FailOrphanSwallowed(s, m) ==
  /\ server[s] = "recovering"
  /\ m \in orphans[s]
  /\ orphans' = [orphans EXCEPT ![s] = @ \ {m}]
  /\ UNCHANGED <<senderVars, storeVars, rpc, pty, server>>

\* fail_orphan_message for one selected id, conditional on the message still
\* having no event.
FailOrphan(s, m) ==
  /\ server[s] = "recovering"
  /\ m \in orphans[s]
  /\ orphans' = [orphans EXCEPT ![s] = @ \ {m}]
  /\ IF EventLess(m)
     THEN Record(m, "recovered")
     ELSE UNCHANGED <<log, seq>>
  /\ UNCHANGED <<pc, command, socket, stored, expired, rpc, pty, outcome,
                 server>>

\* Recovery is done and the server binds its sockets.
Serve(s) ==
  /\ server[s] = "recovering"
  /\ orphans[s] = {}
  /\ server' = [server EXCEPT ![s] = "up"]
  /\ UNCHANGED <<senderVars, storeVars, rpc, pty, orphans>>

StopServerKeepsRequests(s) ==
  /\ server[s] # "down"
  /\ server' = [server EXCEPT ![s] = "down"]
  /\ orphans' = [orphans EXCEPT ![s] = {}]
  /\ UNCHANGED <<senderVars, storeVars, rpc, pty>>

\* The server stops or crashes, or its startup aborts on a store error; the
\* requests it has not handled go with it.
StopServer(s) ==
  /\ server[s] # "down"
  /\ server' = [server EXCEPT ![s] = "down"]
  /\ orphans' = [orphans EXCEPT ![s] = {}]
  /\ rpc' = [m \in Messages |->
               IF socket[m] = s /\ rpc[m] = "queued" THEN "dropped"
                                                     ELSE rpc[m]]
  /\ UNCHANGED <<senderVars, storeVars, pty>>

-----------------------------------------------------------------------------
\* Wall-clock time passes ORPHAN_GRACE after m's created_at.
GraceExpires(m) ==
  /\ stored[m]
  /\ ~expired[m]
  /\ expired' = [expired EXCEPT ![m] = TRUE]
  /\ UNCHANGED <<senderVars, stored, log, seq, rpc, pty, server, orphans>>

SenderStep(m) ==
  \/ BeginSendAttempt(m) \/ AbandonSend(m) \/ PersistUnconfirmed(m)
  \/ SendRequest(m) \/ ConnectFails(m)
  \/ ReadResponse(m) \/ LoseResponse(m)
  \/ RecordConfirmed(m) \/ RecordFailed(m)

ServerStep(s) ==
  \/ ColdStart(s) \/ Serve(s) \/ StopServer(s)
  \/ \E m \in Messages : FailOrphan(s, m) \/ MessageReceived(s, m)

Next ==
  \/ \E m \in Messages :
       \/ SenderStep(m) \/ KillSender(m)
       \/ HandleRequest(m) \/ RejectRequest(m)
       \/ GraceExpires(m)
  \/ \E s \in Servers : ServerStep(s)

Spec == Init /\ [][Next]_vars

-----------------------------------------------------------------------------
(* Fairness.  A sender that is not killed keeps running, a serving server  *)
(* handles the requests in its channel and a starting one its recovery     *)
(* list, and time passes.  Nothing makes a server start or stop, or a      *)
(* receiver report.                                                        *)

Fairness ==
  /\ \A m \in Messages :
       /\ WF_vars(SenderStep(m))
       /\ WF_vars(HandleRequest(m) \/ RejectRequest(m))
       /\ WF_vars(GraceExpires(m))
  /\ \A s \in Servers : WF_vars(\E m \in Messages : FailOrphan(s, m))

FairSpec == Spec /\ Fairness

-----------------------------------------------------------------------------
(* Properties.                                                             *)

\* Every variable has its type.
TypeOK ==
  /\ pc \in [Messages -> SenderStates]
  /\ command \in [Messages -> Commands]
  /\ socket \in [Messages -> Servers]
  /\ stored \in [Messages -> BOOLEAN]
  /\ expired \in [Messages -> BOOLEAN]
  /\ log \in [Messages -> Seq(Events)]
  /\ seq \in [Messages -> Nat]
  /\ rpc \in [Messages -> {"none", "queued", "done", "error", "dropped"}]
  /\ pty \in [Messages -> {"none", "typed", "entered"}]
  /\ outcome \in [Messages -> Outcomes]
  /\ server \in [Servers -> {"down", "recovering", "up"}]
  /\ orphans \in [Servers -> SUBSET Messages]

Lifecycles == {<<>>, <<"drafted">>, <<"submitted">>, <<"failed">>,
               <<"recovered">>, <<"submitted", "received">>}

\* The delivery events of a message form one of the known lifecycles: a
\* sender, a receiver and any number of recovering servers that append to it
\* concurrently never record two first events, a second failure, a second
\* receipt or a receipt of something that was not submitted.
LogIsALifecycle == \A m \in Messages : log[m] \in Lifecycles

\* messages.delivery_seq numbers the events without gap or repetition (the
\* UNIQUE (message_id, seq) of the table), whichever of the three writers
\* bumped it.
SeqNumbersTheLog == \A m \in Messages : seq[m] = Len(log[m])

\* The record of a message stays a lifecycle, and stays numbered as one.
LogIsSound == LogIsALifecycle /\ SeqNumbersTheLog

\* A message recorded as submitted (or received) had its text and an Enter put
\* into the pane's input queue, and one recorded as drafted its text only:
\* the delivery status never claims an effect the terminal did not have.
RecordedMeansTyped ==
  \A m \in Messages : log[m] # <<>> =>
    /\ log[m][1] = "submitted" => pty[m] = "entered"
    /\ log[m][1] = "drafted" => pty[m] = "typed"

\* The sender's printed outcome and the store never contradict each other,
\* then or later: after exit 0 the message stays recorded as sent, whatever
\* recoveries run; after a failure it never turns submitted or received, but
\* for the sender that said the record itself is in doubt, and that one never
\* finds its message failed by anything but a recovery.
OutcomeMatchesLog ==
  \A m \in Messages :
    /\ outcome[m] = "ok" => /\ log[m] # <<>>
                            /\ log[m][1] = ConfirmedEvent(command[m])
    /\ outcome[m] \notin {"none", "ok", "unrecorded"} =>
         log[m] \in {<<>>, <<"failed">>, <<"recovered">>}
    /\ outcome[m] = "unrecorded" => log[m] # <<"failed">>

\* Orphan recovery touches only messages past the grace: a sender that
\* confirms its effect within ORPHAN_GRACE never finds its message failed.
RecoveryOnlyPastGrace ==
  \A m \in Messages :
    (log[m] = <<"recovered">> \/ outcome[m] = "superseded") => expired[m]

\* When agent prompt invites a resend the terminal did not get the prompt:
\* resending it cannot submit the same prompt twice.
PromptResendIsSafe ==
  \A m \in Messages :
    command[m] = "prompt" /\ outcome[m] = "resend" => pty[m] = "none"

\* This step adds at most one event to each log.
AppendsAtMostOne ==
  \A m \in Messages :
    log'[m] = log[m] \/ \E e \in Events : log'[m] = Append(log[m], e)

\* No step of any sender, receiver or recovering server rewrites or removes a
\* recorded event, and no step records two.
LogAppendOnly == [][AppendsAtMostOne]_vars

\* A sender that started and is not killed exits: neither a refusing nor a
\* crashing server leaves it waiting for its answer.
SenderExits ==
  \A m \in Messages :
    pc[m] = "persisted" ~> pc[m] \in {"exited", "killed"}

\* If servers keep completing cold starts, every stored message eventually
\* has a delivery event, also when its sender died at the worst moment.
StoredMessageSettles ==
  []<><<\E s \in Servers : Serve(s)>>_vars
    => \A m \in Messages : stored[m] ~> ~EventLess(m)

-----------------------------------------------------------------------------
(* Refinement: the store's record of a message follows MessageLifecycle.   *)

StatusOf(m) ==
  IF ~stored[m] THEN "absent"
  ELSE IF EventLess(m) THEN "pending" ELSE Latest(log[m])

Status == [m \in Messages |-> StatusOf(m)]

Lifecycle == INSTANCE MessageLifecycle WITH status <- Status

\* Every step of the senders, servers and receivers is a step of the message
\* lifecycle of at most one message, or leaves every status alone.
RefinesLifecycle == Lifecycle!Spec

=============================================================================
