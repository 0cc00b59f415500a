------------------------------- MODULE PtyActor -------------------------------
(***************************************************************************)
(* The PTY actor of one pane: a thread that owns the master side of the    *)
(* terminal, and the handle the rest of the server reaches it through.     *)
(* Input passes a gate (user_writes, a mutex), a bounded data queue, the   *)
(* actor's pending writes and at last the PTY, which takes as many bytes   *)
(* as it has room for.  A live handoff shuts the gate, lets the actor      *)
(* drain and quiesce, duplicates the master descriptor and then releases   *)
(* the actor or rolls it back.                                             *)
(* A piece of input is two bytes long, so that a write can be partial.     *)
(***************************************************************************)
EXTENDS Naturals, Sequences, SequencesExt, FiniteSets

CONSTANTS Writers,      \* tasks that call write_user_input
          Buffer,       \* ACTOR_COMMAND_BUFFER (1024)
          MaxInputs,    \* bound: inputs accepted
          MaxHandoffs,  \* bound: calls of begin_handoff
          MaxReads,     \* bound: reads of the PTY
          MaxSchemes,   \* bound: changes of the host's appearance
          MaxResizes,   \* bound: resizes of the pane
          MaxFaults,    \* bound: failed writes
          MaxEvents,    \* bound: all of these together
          SlowActor     \* the actor may outlast the caller of a rollback

ASSUME WritersAssumption == IsFiniteSet(Writers)

ASSUME BoundsAssumption ==
  /\ Buffer \in Nat \ {0} /\ MaxInputs \in Nat /\ MaxHandoffs \in Nat
  /\ MaxReads \in Nat /\ MaxSchemes \in Nat /\ MaxResizes \in Nat
  /\ MaxFaults \in Nat /\ MaxEvents \in Nat /\ SlowActor \in BOOLEAN

VARIABLES
  gate,      \* user_writes.accepting
  dataQ,     \* the data queue: accepted commands
  ctlQ,      \* the control queue: <<command, call>>
  controls,  \* SharedPtyControls
  order,     \* response_order: "free", or held by the appearance change
  state,     \* ActorState
  pc,        \* where the actor's thread is in its loop
  draining,  \* the call whose BeginHandoff the actor is draining for
  pending,   \* pending_writes
  offset,    \* current_write_offset
  size,      \* the size the PTY has
  writer,    \* writer[w]: where task w is in write_user_input
  caller,    \* where the server is between the calls of a handoff
  call,      \* the latest call that waits for an answer
  reply,     \* the answer to it
  dup,       \* the server holds a duplicate of the descriptor
  deaf,      \* the latest rollback was not answered in time
  accepted,  \* history: the bytes callers were told would be written
  written,   \* history: the bytes of user input the PTY took
  replies,   \* history: the terminal responses, in the order of writing
  scheme,    \* the host's appearance as the terminal knows it
  current,   \* PaneRuntime.current_size
  repaint,   \* pending_handoff_repaint_nudge
  counts     \* how often each bounded thing has happened

handleVars == <<gate, dataQ, ctlQ, controls, order>>
actorVars == <<state, pc, draining, pending, offset, size>>
callVars == <<caller, call, reply, dup, deaf>>
histVars == <<accepted, written, replies>>
envVars == <<writer, scheme, current, repaint, counts>>
vars == <<handleVars, actorVars, callVars, histVars, envVars>>

Bounds == [inputs |-> MaxInputs, handoffs |-> MaxHandoffs,
           reads |-> MaxReads, schemes |-> MaxSchemes,
           resizes |-> MaxResizes, faults |-> MaxFaults]
Events == counts.inputs + counts.handoffs + counts.reads + counts.schemes
            + counts.resizes + counts.faults
Count(k) ==
  /\ counts[k] < Bounds[k] /\ Events < MaxEvents
  /\ counts' = [counts EXCEPT ![k] = @ + 1]

None == 0
NoControls == [resize |-> None, nudge |-> None, responses |-> <<>>]

Input(id, part, due) ==
  [src |-> "user", what |-> "input", id |-> id, part |-> part, due |-> due]
Response(what, n) ==
  [src |-> "terminal", what |-> what, id |-> n, part |-> 1, due |-> TRUE]

\* What the actor queues for a data command: one piece, or a text and the
\* suffix that must not be written before its delay is over.
Parts(cmd) ==
  IF cmd.kind = "plain"
  THEN <<Input(cmd.id, 1, TRUE)>>
  ELSE <<Input(cmd.id, 1, TRUE), Input(cmd.id, 2, FALSE)>>
QueuedParts(q) == FlattenSeq([i \in DOMAIN q |-> Parts(q[i])])

\* The bytes of the user's pieces in a sequence of pending writes.
UserBytes(x) ==
  IF x.src = "user" THEN << <<x.id, x.part, 1>>, <<x.id, x.part, 2>> >>
  ELSE <<>>
Bytes(items) == FlattenSeq([i \in DOMAIN items |-> UserBytes(items[i])])
CommandBytes(cmd) == Bytes(Parts(cmd))

\* What is left to write of the pending writes after the offset.
Unwritten ==
  LET bytes == Bytes(pending)
  IN  IF pending # <<>> /\ offset > 0 /\ Head(pending).src = "user"
      THEN SubSeq(bytes, offset + 1, Len(bytes)) ELSE bytes

Init ==
  /\ dataQ = <<>> /\ ctlQ = <<>> /\ controls = NoControls /\ order = "free"
  /\ \/ state = "Running" /\ gate = TRUE /\ caller = "idle"
        /\ repaint = FALSE
     \/ state = "Quiesced" /\ gate = FALSE /\ caller = "import"
        /\ repaint = TRUE
  /\ pc = "control" /\ draining = 0
  /\ pending = <<>> /\ offset = 0 /\ size = 1
  /\ call = 0 /\ reply = "none" /\ dup = FALSE /\ deaf = FALSE
  /\ accepted = <<>> /\ written = <<>> /\ replies = <<>>
  /\ writer = [w \in Writers |-> "idle"] /\ scheme = 0 /\ current = 1
  /\ counts = [k \in DOMAIN Bounds |-> 0]

Exited == pc = "exited"

\* The server's main thread is not inside a call of this handle.  A runtime
\* that a replacement imports is quiesced until the handoff is committed.
MainFree == caller = "idle" /\ order = "free"

-----------------------------------------------------------------------------
(* The handle: user input *)

Permits == Cardinality({w \in Writers : writer[w] = "permit"})
RoomInQueue == Len(dataQ) < Buffer
Room == Len(dataQ) + Permits < Buffer

\* The command is in the queue and its caller is told so.
Accept(kind) ==
  LET cmd == [id |-> counts.inputs + 1, kind |-> kind] IN
  /\ Count("inputs")
  /\ dataQ' = Append(dataQ, cmd)
  /\ accepted' = accepted \o CommandBytes(cmd)

\* try_write_user_input and ..._with_delayed_suffix: gate and queue under the
\* mutex; a full or closed queue refuses and changes nothing.
TryWrite(kind) ==
  /\ gate /\ ~Exited /\ Room
  /\ Accept(kind)
  /\ UNCHANGED <<gate, ctlQ, controls, order, actorVars, callVars, written,
                 replies, writer, scheme, current, repaint>>

\* write_user_input: look at the gate, wait for a permit, look again.
WriteStart(w) ==
  /\ writer[w] = "idle" /\ gate
  /\ writer' = [writer EXCEPT ![w] = "reserving"]
  /\ UNCHANGED <<handleVars, actorVars, callVars, histVars, scheme, current,
                 repaint, counts>>

WriteReserve(w) ==
  /\ writer[w] = "reserving"
  /\ Exited \/ Room
  /\ writer' = [writer EXCEPT ![w] = IF Exited THEN "idle" ELSE "permit"]
  /\ UNCHANGED <<handleVars, actorVars, callVars, histVars, scheme, current,
                 repaint, counts>>

WriteFinish(w) ==
  /\ writer[w] = "permit"
  /\ \/ gate /\ Accept("plain")
     \/ ~gate /\ UNCHANGED <<dataQ, accepted, counts>>
  /\ writer' = [writer EXCEPT ![w] = "idle"]
  /\ UNCHANGED <<gate, ctlQ, controls, order, actorVars, callVars, written,
                 replies, scheme, current, repaint>>

-----------------------------------------------------------------------------
(* The handle: controls *)

\* PaneRuntime::resize does nothing when the size is the current one; a resize
\* that waits to be applied is replaced, its responses with it.
Resize(s) ==
  /\ MainFree /\ s # current /\ Count("resizes")
  /\ current' = s
  /\ controls' = [controls EXCEPT !.resize = s]
  /\ UNCHANGED <<gate, dataQ, ctlQ, order, actorVars, callVars, histVars,
                 writer, scheme, repaint>>

\* The first client attaches to a server that was handed over.
Nudge ==
  /\ MainFree /\ repaint
  /\ repaint' = FALSE
  /\ controls' = [controls EXCEPT !.nudge = current]
  /\ UNCHANGED <<gate, dataQ, ctlQ, order, actorVars, callVars, histVars,
                 writer, scheme, current, counts>>

\* write_terminal_response with apply_host_terminal_appearance: the terminal
\* takes over the appearance and the report of it is queued, under the lock.
ChangeScheme ==
  /\ MainFree /\ Count("schemes")
  /\ order' = "held" /\ scheme' = scheme + 1
  /\ UNCHANGED <<gate, dataQ, ctlQ, controls, actorVars, callVars, histVars,
                 writer, current, repaint>>

ReportScheme ==
  /\ order = "held" /\ order' = "free"
  /\ controls' = [controls EXCEPT
                    !.responses = Append(@, Response("report", scheme))]
  /\ UNCHANGED <<gate, dataQ, ctlQ, actorVars, callVars, histVars, writer,
                 scheme, current, repaint, counts>>

-----------------------------------------------------------------------------
(* The handle: a handoff, called by the server's main thread *)

\* Queue a command whose answer the caller waits for.
Ask(cmd, q) ==
  /\ call' = call + 1 /\ reply' = "none"
  /\ ctlQ' = Append(q, <<cmd, call + 1>>)

\* The gate is shut and the command queued under one lock of the gate; when
\* the actor is gone the gate is opened again.
BeginHandoff ==
  /\ MainFree /\ ~Exited /\ Count("handoffs")
  /\ gate' = FALSE
  /\ Ask("BeginHandoff", ctlQ)
  /\ caller' = "begin"
  /\ UNCHANGED <<dataQ, controls, order, actorVars, dup, deaf, histVars,
                 writer, scheme, current, repaint>>

BeginHandoffClosed ==
  /\ caller = "idle" /\ Exited
  /\ gate' = TRUE
  /\ UNCHANGED <<dataQ, ctlQ, controls, order, actorVars, callVars, histVars,
                 envVars>>

BeginAcknowledged ==
  /\ caller = "begin" /\ reply = "ok"
  /\ caller' = "held"
  /\ UNCHANGED <<handleVars, actorVars, call, reply, dup, deaf, histVars,
                 envVars>>

\* duplicate_for_handoff
Duplicate ==
  /\ caller = "held" /\ ~dup /\ ~Exited
  /\ Ask("DuplicateForHandoff", ctlQ)
  /\ caller' = "dup"
  /\ UNCHANGED <<gate, dataQ, controls, order, actorVars, dup, deaf, histVars,
                 envVars>>

Duplicated ==
  /\ caller = "dup" /\ reply = "ok"
  /\ caller' = "held" /\ dup' = TRUE
  /\ UNCHANGED <<handleVars, actorVars, call, reply, deaf, histVars, envVars>>

\* rollback_handoff: called by begin_handoff when it fails or times out, and
\* by the server when the handoff fails later.  It first closes its duplicate.
RollbackHandoff ==
  /\ \/ caller = "begin" /\ reply # "ok"
     \/ caller = "dup" /\ reply # "ok"
        /\ (reply = "err" \/ SlowActor \/ Exited)
     \/ caller \in {"held", "import"}
  /\ dup' = FALSE
  /\ IF Exited
     THEN caller' = "idle" /\ UNCHANGED <<call, reply, ctlQ>>
     ELSE caller' = "rollback" /\ Ask("RollbackHandoff", ctlQ)
  /\ UNCHANGED <<gate, dataQ, controls, order, actorVars, deaf, histVars,
                 envVars>>

\* Only an answer that comes within a second opens the gate.
RollbackAnswered ==
  /\ caller = "rollback" /\ reply = "ok"
  /\ gate' = TRUE /\ deaf' = FALSE /\ caller' = "idle"
  /\ UNCHANGED <<dataQ, ctlQ, controls, order, actorVars, call, reply, dup,
                 histVars, envVars>>

RollbackTimesOut ==
  /\ caller = "rollback" /\ reply = "none" /\ (SlowActor \/ Exited)
  /\ deaf' = TRUE /\ caller' = "idle"
  /\ UNCHANGED <<handleVars, actorVars, call, reply, dup, histVars, envVars>>

\* release_after_commit, and then the runtime is dropped.
ReleaseAfterCommit ==
  /\ caller = "held" /\ dup
  /\ gate' = FALSE
  /\ IF Exited THEN UNCHANGED <<call, reply, ctlQ>>
     ELSE Ask("ReleaseAfterCommit", ctlQ)
  /\ caller' = "done"
  /\ UNCHANGED <<dataQ, controls, order, actorVars, dup, deaf, histVars,
                 envVars>>

\* A runtime that is closed or dropped.
Shutdown ==
  /\ MainFree \/ caller = "import"
  /\ ~Exited
  /\ gate' = FALSE /\ caller' = "done"
  /\ ctlQ' = Append(ctlQ, <<"Shutdown", 0>>)
  /\ UNCHANGED <<dataQ, controls, order, actorVars, call, reply, dup, deaf,
                 histVars, envVars>>

-----------------------------------------------------------------------------
(* The actor's thread: control and data commands *)

Answer(n, r) == reply' = IF n = call THEN r ELSE reply

\* apply_pending_controls: the resize, then the nudge, then the responses.
ApplyControls(before) ==
  /\ controls' = NoControls
  /\ size' = IF controls.nudge # None THEN controls.nudge
             ELSE IF controls.resize # None THEN controls.resize ELSE size
  /\ LET sizeReport == IF controls.resize # None
                       THEN <<Response("size", controls.resize)>> ELSE <<>>
         responses == sizeReport \o controls.responses
     IN  /\ pending' = before \o responses
         /\ replies' = replies \o responses

\* begin_handoff: the data queue is emptied into the pending writes first.
HandleBeginHandoff ==
  /\ pc = "control" /\ ctlQ # <<>> /\ Head(ctlQ)[1] = "BeginHandoff"
  /\ ApplyControls(pending \o QueuedParts(dataQ))
  /\ dataQ' = <<>> /\ ctlQ' = Tail(ctlQ)
  /\ draining' = Head(ctlQ)[2] /\ pc' = "drain"
  /\ UNCHANGED <<gate, order, state, offset, callVars, accepted, written,
                 envVars>>

DrainedQuietly ==
  /\ pc = "drain"
  /\ state' = "Quiesced" /\ Answer(draining, "ok")
  /\ pc' = "control" /\ draining' = 0
  /\ UNCHANGED <<handleVars, pending, offset, size, caller, call, dup, deaf,
                 histVars, envVars>>

Drained ==
  /\ pc = "drain" /\ pending = <<>>
  /\ state' = "Quiesced" /\ Answer(draining, "ok")
  /\ pc' = "control" /\ draining' = 0
  /\ UNCHANGED <<handleVars, pending, offset, size, caller, call, dup, deaf,
                 histVars, envVars>>

\* HANDOFF_DRAIN_TIMEOUT, the PTY closed, or poll failed.
DrainFails ==
  /\ pc = "drain" /\ pending # <<>>
  /\ Answer(draining, "err")
  /\ pc' = "control" /\ draining' = 0
  /\ UNCHANGED <<handleVars, state, pending, offset, size, caller, call, dup,
                 deaf, histVars, envVars>>

HandleDuplicate ==
  /\ pc = "control" /\ ctlQ # <<>> /\ Head(ctlQ)[1] = "DuplicateForHandoff"
  /\ ctlQ' = Tail(ctlQ)
  /\ Answer(Head(ctlQ)[2], IF state = "Quiesced" THEN "ok" ELSE "err")
  /\ UNCHANGED <<gate, dataQ, controls, order, actorVars, caller, call, dup,
                 deaf, histVars, envVars>>

HandleRollbackForgotten ==
  /\ pc = "control" /\ ctlQ # <<>> /\ Head(ctlQ)[1] = "RollbackHandoff"
  /\ ctlQ' = Tail(ctlQ)
  /\ Answer(Head(ctlQ)[2], "ok")
  /\ UNCHANGED <<gate, dataQ, controls, order, actorVars, caller, call, dup,
                 deaf, histVars, envVars>>

HandleRollback ==
  /\ pc = "control" /\ ctlQ # <<>> /\ Head(ctlQ)[1] = "RollbackHandoff"
  /\ ctlQ' = Tail(ctlQ)
  /\ state' = "Running" /\ Answer(Head(ctlQ)[2], "ok")
  /\ UNCHANGED <<gate, dataQ, controls, order, pc, draining, pending, offset,
                 size, caller, call, dup, deaf, histVars, envVars>>

\* ReleaseAfterCommit and Shutdown end the thread.
HandleExit ==
  /\ pc = "control" /\ ctlQ # <<>>
  /\ \/ /\ Head(ctlQ)[1] = "ReleaseAfterCommit"
        /\ state' = "Released" /\ pending' = <<>>
     \/ Head(ctlQ)[1] = "Shutdown" /\ UNCHANGED <<state, pending>>
  /\ ctlQ' = Tail(ctlQ) /\ pc' = "exited"
  /\ UNCHANGED <<gate, dataQ, controls, order, draining, offset, size,
                 callVars, histVars, envVars>>

\* drain_data_commands, once the control queue is empty.
HandleData ==
  /\ pc \in {"control", "data"} /\ (pc = "control" => ctlQ = <<>>)
  /\ dataQ # <<>>
  /\ pending' = IF state = "Running" THEN pending \o Parts(Head(dataQ))
                ELSE pending
  /\ dataQ' = Tail(dataQ) /\ pc' = "data"
  /\ UNCHANGED <<gate, ctlQ, controls, order, state, draining, offset, size,
                 callVars, histVars, envVars>>

\* The queues are empty: the controls, then the pending writes.
ApplyPendingControls ==
  /\ pc \in {"control", "data"} /\ (pc = "control" => ctlQ = <<>>)
  /\ dataQ = <<>>
  /\ ApplyControls(pending)
  /\ pc' = "flush"
  /\ UNCHANGED <<gate, dataQ, ctlQ, order, state, draining, offset, callVars,
                 accepted, written, envVars>>

-----------------------------------------------------------------------------
(* The actor's thread: the PTY *)

Flushing == pc \in {"flush", "drain", "tail"}
Ready == pending # <<>> /\ Head(pending).due

\* Where flush_pending_writes_once returns to.
Return == [flush |-> "poll", drain |-> "drain", tail |-> "control"][pc]

\* The PTY takes the next byte of the front of the pending writes.
WriteByte ==
  /\ Flushing /\ Ready
  /\ LET front == Head(pending) IN
     /\ written' = IF front.src = "user"
                   THEN Append(written, <<front.id, front.part, offset + 1>>)
                   ELSE written
     /\ offset' = (offset + 1) % 2
     /\ pending' = IF offset = 1 THEN Tail(pending) ELSE pending
  /\ UNCHANGED <<handleVars, state, pc, draining, size, callVars, accepted,
                 replies, envVars>>

\* Nothing is left, the front is not due, or the PTY has no room.
StopFlush ==
  /\ pc \in {"flush", "tail"} /\ pc' = Return
  /\ UNCHANGED <<handleVars, state, draining, pending, offset, size, callVars,
                 histVars, envVars>>

\* The write fails: everything pending is given up.
WriteFailsMidway ==
  /\ Flushing /\ Ready /\ Count("faults")
  /\ pending' = <<>>
  /\ accepted' = written \o Bytes(QueuedParts(dataQ))
  /\ pc' = Return
  /\ UNCHANGED <<handleVars, state, draining, offset, size, callVars, written,
                 replies, writer, scheme, current, repaint>>

WriteFails ==
  /\ Flushing /\ Ready /\ Count("faults")
  /\ pending' = <<>> /\ offset' = 0
  /\ accepted' = written \o Bytes(QueuedParts(dataQ))
  /\ pc' = Return
  /\ UNCHANGED <<handleVars, state, draining, size, callVars, written,
                 replies, writer, scheme, current, repaint>>

\* The delay of a suffix is over.
BecomeDue ==
  /\ pending # <<>> /\ ~Head(pending).due /\ ~Exited
  /\ pending' = [pending EXCEPT ![1].due = TRUE]
  /\ UNCHANGED <<handleVars, state, pc, draining, offset, size, callVars,
                 histVars, envVars>>

PollWithoutTimeout ==
  /\ pc = "poll" /\ (ctlQ # <<>> \/ dataQ # <<>> \/ controls # NoControls)
  /\ pc' = "control"
  /\ UNCHANGED <<handleVars, state, draining, pending, offset, size, callVars,
                 histVars, envVars>>

\* poll_pty_and_wake returns: woken, or timed out or writable.
Poll ==
  /\ pc = "poll" /\ pc' \in {"control", "tail"}
  /\ UNCHANGED <<handleVars, state, draining, pending, offset, size, callVars,
                 histVars, envVars>>

\* read_once: the terminal may answer a query for the appearance.  Answering
\* and queueing the answer are one critical section of response_order.
ReadOnceUnordered(query) ==
  /\ \/ pc = "poll" /\ state = "Running"
     \/ pc = "drain" /\ Ready
  /\ Count("reads")
  /\ LET answer == IF query THEN <<Response("answer", scheme)>> ELSE <<>>
         responses == controls.responses \o answer
     IN  /\ pending' = pending \o responses
         /\ replies' = replies \o responses
  /\ controls' = [controls EXCEPT !.responses = <<>>]
  /\ pc' = IF pc = "poll" THEN "tail" ELSE pc
  /\ UNCHANGED <<gate, dataQ, ctlQ, order, state, draining, offset, size,
                 callVars, accepted, written, writer, scheme, current, repaint>>

ReadOnce(query) ==
  /\ \/ pc = "poll" /\ state = "Running"
     \/ pc = "drain" /\ Ready
  /\ order = "free" /\ Count("reads")
  /\ LET answer == IF query THEN <<Response("answer", scheme)>> ELSE <<>>
         responses == controls.responses \o answer
     IN  /\ pending' = pending \o responses
         /\ replies' = replies \o responses
  /\ controls' = [controls EXCEPT !.responses = <<>>]
  /\ pc' = IF pc = "poll" THEN "tail" ELSE pc
  /\ UNCHANGED <<gate, dataQ, ctlQ, order, state, draining, offset, size,
                 callVars, accepted, written, writer, scheme, current, repaint>>

\* The thread ends by itself: the child closed the PTY or reading it failed,
\* or, whatever the state, poll or draining the wake pipe failed.
ActorFails ==
  /\ pc = "poll"
  /\ pc' = "exited"
  /\ UNCHANGED <<handleVars, state, draining, pending, offset, size, callVars,
                 histVars, envVars>>

-----------------------------------------------------------------------------
Handoff ==
  \/ BeginHandoff \/ BeginHandoffClosed \/ BeginAcknowledged
  \/ Duplicate \/ Duplicated \/ RollbackHandoff \/ RollbackAnswered
  \/ RollbackTimesOut \/ ReleaseAfterCommit \/ Shutdown

ActorStep ==
  \/ HandleBeginHandoff \/ Drained \/ HandleDuplicate \/ HandleRollback
  \/ HandleExit \/ HandleData \/ ApplyPendingControls
  \/ WriteByte \/ StopFlush \/ Poll

Next ==
  \/ \E kind \in {"plain", "delayed"} : TryWrite(kind)
  \/ \E w \in Writers : WriteStart(w) \/ WriteReserve(w) \/ WriteFinish(w)
  \/ \E s \in {1, 2} : Resize(s)
  \/ Nudge \/ ChangeScheme \/ ReportScheme
  \/ Handoff \/ ActorStep \/ DrainFails \/ WriteFails \/ BecomeDue
  \/ \E query \in BOOLEAN : ReadOnce(query)
  \/ ActorFails

Spec == Init /\ [][Next]_vars

\* The actor's thread runs, time passes, and the child reads its input now and
\* then (the PTY is not full for ever).  The server may stay in a handoff.
FairSpec ==
  Spec /\ WF_vars(ActorStep) /\ WF_vars(BecomeDue) /\ SF_vars(WriteByte)

-----------------------------------------------------------------------------
TypeOK ==
  /\ gate \in BOOLEAN /\ repaint \in BOOLEAN
  /\ dup \in BOOLEAN /\ deaf \in BOOLEAN
  /\ dataQ \in Seq([id : 1 .. MaxInputs, kind : {"plain", "delayed"}])
  /\ Len(dataQ) + Permits <= Buffer
  /\ ctlQ \in Seq({"BeginHandoff", "DuplicateForHandoff", "RollbackHandoff",
                   "ReleaseAfterCommit", "Shutdown"} \X (0 .. call))
  /\ controls.resize \in 0 .. 2 /\ controls.nudge \in 0 .. 2
  /\ order \in {"free", "held"}
  /\ state \in {"Running", "Quiesced", "Released"}
  /\ pc \in {"control", "data", "flush", "poll", "tail", "drain", "exited"}
  /\ offset \in 0 .. 1
  /\ size \in 1 .. 2 /\ current \in 1 .. 2
  /\ writer \in [Writers -> {"idle", "reserving", "permit"}]
  /\ caller \in {"idle", "import", "begin", "held", "dup", "rollback",
                "done"}
  /\ reply \in {"none", "ok", "err"} /\ draining \in 0 .. call
  /\ \A k \in DOMAIN Bounds : counts[k] \in 0 .. Bounds[k]

\* Input a caller was told is accepted reaches the PTY whole, once and in the
\* order of acceptance, a delayed suffix right behind its text: what was
\* accepted is at any time what was written, then what is pending, then what
\* is queued.  Only a failed write or the end of the actor gives input up.
InputConserved ==
  ~Exited => accepted = written \o Unwritten \o Bytes(QueuedParts(dataQ))

\* When begin_handoff has returned Ok the actor is quiet and no accepted input
\* is behind: the replacement cannot miss any of it.
QuiescedIsClean ==
  caller \in {"held", "dup", "import"} /\ ~Exited =>
    state = "Quiesced" /\ written = accepted

\* A live actor takes input whenever no handoff is under way, except when its
\* last rollback went unanswered for too long.
GateFollowsHandoff ==
  caller = "idle" /\ ~Exited /\ ~deaf => gate /\ state = "Running"

\* A handoff finds the actor quiet and leaves it as it was: clean while it is
\* held, open again when it is rolled back.
HandoffIsClean == QuiescedIsClean /\ GateFollowsHandoff

\* The child hears of a new appearance before it gets an answer that shows it
\* (the response_order lock).
ReportPrecedesAnswer ==
  \A i \in DOMAIN replies :
    replies[i].what = "answer" /\ replies[i].id > 0 =>
      \E j \in 1 .. i - 1 :
        replies[j].what = "report" /\ replies[j].id = replies[i].id

\* What the child reads is in the order its writers rely on: user input among
\* itself, and an appearance before the answers that show it.
OrderIsKept == InputConserved /\ ReportPrecedesAnswer

\* Accepted input does not stay behind for ever.
InputFlows == []<>(Exited \/ written = accepted)

=============================================================================
