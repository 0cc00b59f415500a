# zynk: a TLA+ model of the native message bus and the pane server

zynk is a terminal workspace manager for coding agents. A *server* process owns
panes (each a PTY with a shell or an agent in it), clients attach to it, and CLI
processes talk to it over a Unix socket. Agents in different panes exchange
messages through zynk's *native bus*: a message is persisted in one global SQLite
store, typed into the target pane, and its fate recorded as *delivery events*.
The store is shared by every named server of a user, so most of the hard
behaviour is between processes that know nothing of each other: senders that die
between two steps, servers that crash and recover, receipts that arrive early,
late or twice, workers that stall past their lease, and a live handoff in which
one server process replaces another.

Below the bus is the server itself: one thread that dispatches requests, a PTY
actor thread per pane, traversals that scroll an agent's screen for seconds
while other requests go on, and the handoff that moves all of it to another
process.

This directory holds TLA+ modules for the core of the bus and of the server, TLC
runs that check them on small instances, and TLAPS proofs of the main safety
properties of both for every instance. Paths below are relative to the repository.

## 1. Inventory

| component | state it keeps | operations | talks to |
|---|---|---|---|
| Message delivery: `zynk/message.rs`, `zynk/persistence.rs`, `cli/native.rs`, `cli/agent.rs`, `cli/pane.rs` | `messages`, `delivery_events`, `messages.delivery_seq`; the sender's own control | `begin_send_attempt`, `send_request`, `append_delivery_event`, the printed `SendOutcome` | store, API socket |
| Orphan recovery: `zynk/db.rs`, `server/headless.rs` | none of its own | `recover_orphan_messages`, `fail_orphan_message` at a cold start | store |
| Receipts: `zynk/receipt.rs`, `app/api/zynk.rs` | the `received` event | `append_received_event`, with identity checks | store, receipt worker |
| Receipt worker: `zynk/receipt_worker.rs`, `zynk/worker_pause.rs` | bounded channel, pause control, one connection | `submit`, `worker_loop`, `pause`, `resume`, `Drop` | API handlers, live handoff, store |
| Embedding queue: `zynk/embedding_worker.rs` | `embedding_jobs`, vec0 tables | recovery, backfill, claim, write, fail | store, embedding provider |
| Conversations and participants: `zynk/persistence.rs` | `conversations`, `conversation_participants`, `conversation_seq` | `ensure_active_conversation`, upserts, parent derivation | send transaction |
| Database open and cutover: `zynk/db.rs`, `zynk/db_cutover.rs` | files, locks, schema version | open, migrate, classify, cut over | file system |
| Live handoff: `server/handoff.rs`, `server/headless.rs`, `handoff_runtime.rs` | `handoff_in_progress`, withdrawn sockets, transferred descriptors | manifest, fd transfer, ready, committed, acknowledgement, rollback | replacement process, both database workers |
| API dispatch: `api/server.rs` | connection threads, request channel | dispatch with timeout, priority stop, streams | app loop |
| PTY actor: `pty/actor/unix.rs`, `pane.rs` | input gate, data and control queues, pending writes, pending size and responses | write, resize, nudge, respond, begin/duplicate/rollback/release of a handoff, shutdown | pane, app loop, live handoff |
| Alternate-screen reads: `server/alt_screen_read.rs`, `terminal/history_read.rs`, `server/headless.rs` | pending reads, their phase and deadlines; queues and barriers of deferred requests | start, poll, abort; defer, release, reject | app loop, PTY actor, live handoff |
| Event hub and waits: `api/event_hub.rs`, `api/wait.rs`, `api/subscriptions.rs` | a ring of 512 numbered events; per request a baseline and a deadline | publish, `agent.wait`, `agent.prompt` with a wait, `events.wait`, streams | app loop, connection threads |
| Agent state: `terminal/state.rs`, `terminal/metadata.rs`, `detect/` | state, authority, sequence numbers, TTLs | hook report, detection, expiry | hooks, app loop |
| Managed agents and resume: `agent_resume.rs`, `app/agent_resume.rs` | names, resume plans | start, rename, resume | app loop |
| Workspaces, tabs, layout: `workspace.rs`, `layout.rs`, `app/` | the workspace tree | split, close, move, resize | app loop |
| Clients and rendering, graphics, plugins, remote attach, update, UI, configuration | frames, images, processes, files | transport and I/O | app loop |

Where it is hard, and what would make each part correct:

* **Delivery.** Three kinds of process append to the delivery log of a message
  in their own transactions. The log must stay one legal lifecycle, must never
  claim more than the terminal got, and must agree with what the sender printed,
  also when an answer is lost, a process dies, or a commit's result is lost.
* **Recovery.** Runs on a store other servers are using. It may only touch what
  is past the grace, and it has to tolerate crashing half way and running twice.
* **Receipt worker.** A caller that timed out leaves its job behind; a retry
  meets it. A live handoff may take over only when no database work is running or
  queued, and the counter that says so is kept by threads that never look at the
  channel itself.
* **Embedding queue.** The lease lets a second worker execute a job the first
  still executes. The `attempts` column is both retry cap and ownership token.
* **Live handoff.** Two processes, each with timeouts and crashes at every step,
  share panes, socket files and database work. Nothing may have two owners, and
  after any failure somebody must be complete.
* **PTY actor.** Input that was accepted must be written, whole and in order, and
  a handoff must find none of it behind; callers that give up leave their command
  with the actor; controls overwrite each other.
* **Alternate-screen reads.** The server guesses from output and silence what an
  application did with wheel events. It must put the application back where it
  was, tell the truth about what it read, and end. Requests put aside meanwhile
  must keep their order, their target and their answer, around handoffs too.
* **Event waits.** A connection's thread follows the agent from outside: it reads
  events and then asks the application, which has moved on meanwhile. It must not
  miss a status, report one of another agent or of an earlier time, or take a
  release for a completion; the ring may drop what it has not read.
* **Agent state.** Its arbitration between hooks, sessions and screen detection is
  not modelled; see sections 7 and 8.

`PROJECT.json` lists every component with its status, and under `hazards` each of
these at its line with the properties that would notice it going wrong.

## 2. Modules

| module | what it is |
|---|---|
| `Delivery` | senders, servers, receipts and recovery on one store |
| `MessageLifecycle` | the abstract promise: the status of a message |
| `DeliveryProofs` | TLAPS proofs about `Delivery`, including the refinement |
| `PauseControl` | the pause/idle mutex state of `worker_pause.rs` |
| `ReceiptWorker` | the receipt worker, its callers and its owner; extends `PauseControl` |
| `EmbeddingJobs` | the embedding queue and its workers |
| `EmbeddingJobsProofs` | TLAPS proofs about `EmbeddingJobs` |
| `ReceiptWorkerProofs` | TLAPS proofs about `ReceiptWorker` |
| `LiveHandoff` | the old server, its replacement, their stream, panes, sockets and workers |
| `LiveHandoffProofs` | TLAPS proofs about `LiveHandoff` |
| `PtyActor` | the PTY actor of one pane, its handle and its callers |
| `PtyActorProofs` | TLAPS proofs about `PtyActor` |
| `DeferredRequests` | the order of requests around traversals and handoffs |
| `DeferredRequestsProofs` | TLAPS proofs about `DeferredRequests` |
| `AltScreenRead` | one traversal and the application it scrolls |
| `AltScreenReadProofs` | TLAPS proofs about `AltScreenRead` |
| `AgentWait` | the event hub, the agent that is waited for and a waiting request |
| `AgentWaitProofs` | TLAPS proofs about `AgentWait` |
| `MC...` | one per specification: the instances TLC checks |

In the modules, a definition whose name extends that of the definition below it
(`ColdStartNoGrace` before `ColdStart`) is a deliberately wrong variant; it is
used only to check that a property notices that mistake, never by `Spec`.

### Delivery

One sender process per message. `command` tells the three flows apart: *send*
(`zynk send`, `zynk reply`, `agent send`, `pane run`, all over `pane.send_input`),
*prompt* (`agent prompt`) and *draft* (`pane send-text`, no Enter). `socket` is
the server the message goes through; the store is common to all servers.

| state | code |
|---|---|
| `pc`, `outcome` | control and printed result of the CLI process |
| `stored` | the row of `messages`, with its FTS row and embedding job |
| `log`, `seq` | `delivery_events` of the message, `messages.delivery_seq` |
| `expired` | `created_at` is older than `ORPHAN_GRACE` (300 s) |
| `rpc` | the request inside the server, from its channel to its answer |
| `pty` | what the pane's input queue accepted |
| `server`, `orphans` | phase of a server; ids its cold start selected and has left |

Every `BEGIN IMMEDIATE` transaction is one step, which is what SQLite gives.
What is not atomic in the code is not atomic here: the persist, the request, the
answer and the append are separate steps, and recovery selects its ids in one
step and fails them one by one in later ones. Each operation that opens its own
connection may commit and still report an error, because `close_connection`
returns a close error in place of the result (`persistence.rs:232`):
`PersistUnconfirmed`, and the "unrecorded" alternative of `RecordConfirmed`.

A stopping server is the end of its process (`StopServer`): requests in its
channel are dropped; their connection threads answer `server_unavailable` or the
connection just ends, so both `ReadResponse` and `LoseResponse` are possible.
`KillSender` is a process that dies, or is suspended for ever.

An event is its type; the only event whose proof source matters is the synthetic
`failed` of the recovery, written `recovered`.

### ReceiptWorker and PauseControl

`PauseControl` has one operator per method of the mutex-protected control.
`ReceiptWorker` composes it with the channel, the loop and its users. The steps
follow the locks: admission (`try_enqueue`) and the hand-off (`try_send`) are
two steps of a caller, `recv` and `begin_work` two steps of the worker, since a
pause can fall between them. A caller is the report of one receipt, submitted up
to `MaxTries` times; `answer` keeps what each submission was told and `received`
which submissions appended the event, so that a late write of a submission that
timed out is visible. `open` is set when the worker's reused connection is left
inside a transaction.

### EmbeddingJobs

One worker per server on the shared table. `attempts` is the column and `token`
the value a worker's claim returned; `Owns` is the fence of every terminal
update. `stale` says that `started_at` is older than `RUNNING_LEASE`; it may
become true while the worker still waits for the provider. `vectors[j]` holds the
tokens of the claims whose vector was committed. `leases` is a history variable
that counts expiries, for the bound on attempts and to cap the model.

### LiveHandoff

`old` is where the old server is in `perform_live_handoff` and `new` where the
replacement is in `run_handoff_import_server`; `toOld` and `toNew` are the unread
lines of their private stream (`token`, `manifest`, `validated`, ... `owned`).
Between two reads or writes of the stream a process is one step, unless the
other process, a fault or another server could notice a state in between: the
two public sockets are withdrawn, bound and restored one by one.

| state | code |
|---|---|
| `pane[s][p]`, `deaf` | the actor of pane `p` in server `s`; panes whose rollback went unanswered |
| `preserve`, `killed` | whether a dropped runtime ends its process; the panes where it did |
| `sock`, `ident` | the identity of the socket file at a path; the one the old server remembers (`remove_socket_file_if_owned`) |
| `db`, `paused` | both database workers of both servers; the pause of `worker_pause.rs` |
| `inProgress` | `handoff_in_progress` |

Faults: either process crashes anywhere, the replacement's wait for `committed`
expires, an actor refuses or answers its rollback late, another server binds a
free path, a path cannot be bound again (`RestoreFails`, for whatever reason).

### PtyActor

A caller passes the gate (`user_writes`), gets a place in the bounded data queue
(`try_send`, or a permit it may wait for) and is told its input is accepted; the
thread takes commands into `pending`, writes what the PTY has room for, waits in
`poll`, reads. `controls` is the mutex-protected set of the latest resize, the
latest nudge and the responses; `ctlQ` the handoff commands, each with the number
of the call that waits for its answer. A piece of input is two bytes so that a
write can be partial; a delayed suffix is due later than its text. The thread may
fail in any state (`ActorFails`: end of file, a read or `poll` error, a failed
drain of its wake pipe). `accepted`, `written` and `replies` are history.

### DeferredRequests

The server is one thread, so an arriving request and a finished traversal are
steps, but a release is several: it looks at one queue after another and may
perform requests that start traversals or put others aside. `queues`, `handoffs`
and `barriers` are the fields of `DeferredAltScreenRequests`. A request names its
target; `bind` says what a name stands for now and `seen` what it stood for on
arrival.

### AltScreenRead

`read` is the `PendingAltScreenRead` and a poll is one step: it ends or turns
back at once (`PollHastens`), waits for output to be over (`PollWaits`), looks at
the screen and acts by phase (`PollLooks`), or is overtaken by output while it
looks (`PollRaced`). Deadlines are flags raised by steps of their own, at any time:
wall-clock time does not wait for the application. The application is external:
it reads wheel events one by one or together, redraws at once or in pieces,
synchronized or not, prints, stops reacting for as long as it likes or leaves the
screen. `Lines` are the numbers of rows a request may ask for. A screen is a
position and a text; `Merges` is what `merge_scrolled_up` may make of two of them,
which includes that an unchanged position does not align because of a clock or a
spinner. `late` is history: a step's deadline (`STEP_TIMEOUT`, 120 ms) passed with
wheel events unread or a redraw unfinished.

### AgentWait

`hub` is the `EventHub`, `pane` the agent of one terminal with its label, state, seen flag,
state-change number and process, whether it has another name (`alias`) and whether it was started
with a command (`argv`); the last two decide, beside the label and the name, whether a pane is an
agent's (`IsAgentTerminal`). `holder` is the terminal that has the name the request uses. Each
action of the application is one turn of its loop: what it changes together with the events it
pushes, in the code's order, or without any where the code publishes none (`MarkSeen`, `Rename`).
`w` is the connection's thread: it reads the event number (`Begin`), looks at the agent (`Resolve`,
`Subscribe`), reads a batch (`ReadEvents`, `PollEvents`), looks again (`Probe`, `TakeSnapshot`) and
has a last look at its deadline (`Deadline`); the application may take turns between any two of
these. A prompt waits first for an effect past its baseline, then for the status (`Matched`). A look
may go unanswered (`Silent`), and the client may leave. `hist` is history: statuses the agent had,
whether it was lost, released or changed past the baseline, and whether the ring dropped an unread
event.

`DeferredRequests` uses of a traversal only that it begins and ends;
`AltScreenRead` shows that it ends (`TraversalEnds`) and in which state. In the
same way `LiveHandoff` uses of a pane's actor that a quiesced one neither reads
nor owes input, and of the workers that an acknowledged pause is quiet; `PtyActor`
(`HandoffIsClean`) and `ReceiptWorker` (`PauseIsQuiescent`) show these.

## 3. Runs

| run | instance | distinct states | result |
|---|---|---|---|
| `delivery` | 2 messages, 1 server, all commands, fair | 238 k | pass |
| `embedding_jobs` | 1 job, 3 workers, cap 2, 2 expiries, fair | 25 k | pass |
| `receipt_worker` | 2 callers, 2 tries each, 1 slot, fair | 58 k | pass |
| `receipt_worker_commit` | 2 callers, 2 tries each, 1 slot | - | violation |
| `live_handoff` | 3 panes, 2 descriptors, 3 handoffs, 2 faults, slow actors, another server, fair | 396 k | pass |
| `pty_actor` | queue of 2, any 3 of: 2 inputs, 2 handoffs, a read, an appearance, a resize, a fault; fair | 685 k | pass |
| `deferred_requests` | 4 requests, 2 terminals, 2 names, 1 rebinding, fair | 891 k | pass |
| `deferred_handoff` | 4 requests, 2 terminals | - | violation |
| `alt_screen_read` | 3 positions, steps of 2, 1 or 3 rows asked for, 1 change of text, fair | 752 k | pass |
| `alt_screen_truncation` | 4 positions, steps of 2, 4 rows asked for | - | violation |
| `agent_wait` | 7 requests, ring of 2, 3 turns (2 for `events.wait`), 1 unanswered look, fair | 932 k | pass |
| `agent_prompt_exit` | 1 prompt, ring of 2, 3 turns | - | violation |

**delivery.** `LogIsSound`: the three writers of a log never produce an illegal
history (`LogIsALifecycle`) or misnumber it (`SeqNumbersTheLog`).
`RecordedMeansTyped`: no status claims an effect the terminal did not have.
`OutcomeMatchesLog`: exit 0 stays true, a failure never turns into a submission
later. It makes an exception for the outcome whose text says that the record
itself is in doubt, and shows that even then the message is never `failed` by
anything but a recovery. `RecoveryOnlyPastGrace`, `PromptResendIsSafe` (when
`agent prompt` says "resend", a resend cannot submit the prompt twice; `zynk
send` makes no such distinction and the property is not stated for it).
`RefinesLifecycle`: the whole implements `MessageLifecycle`. `SenderExits`: a
sender is not left waiting by a server that stops. `StoredMessageSettles`: if
servers keep completing cold starts, a stored message gets an event, also one
whose sender died or whose persist was reported as an error. The premise is
needed: nothing but a cold start runs recovery.

**embedding_jobs.** `ClaimTokensDistinct`, `VectorIffDone`, `AttemptsBounded`,
`LeaseProtectsClaim` (inside its lease a claim ends only by its holder),
`FinalJobsStay`, and `JobSettles` while some worker stays up. The last one also
covers the exit on which `mark_job_failed` swallows its own error and leaves the
job running, against the promise of the comment at
`src/zynk/embedding_worker.rs:405`: the lease heals it.

**receipt_worker.** `PauseIsQuiescent`: the counter `queued`
(`QueuedCountsOutstanding`) and what the live handoff relies on
(`AcknowledgedMeansQuiescent`). `ToldIsTrue`: a caller told busy never writes
(`BusyNeverWrites`), a receipt is recorded once however it is retried
(`ReceiptRecordedOnce`). `WorkIsFinished`: jobs in the channel run
(`AcceptedJobsRun`), and so does the drop that drains them (`DropEnds`). Deadlock
is not checked: with few tries left the process may come to rest after its last
receipt.

**live_handoff.** `OneOwner`: no PTY is read by two servers (`OneReader`), no two
servers have database workers (`OneDbOwner`), and nothing runs on the database
between the pause and the commit (`QuietUntilCommit`). `SurvivorIsWhole`: no
server ends a pane's process and somebody holds its PTY, except when the process
in charge dies or its successor gives up after the commit (`PanesSurvive`); after
a failed handoff the old server has everything back (`ServingIsWhole`), after a
committed one the new one keeps it (`OwnerIsWhole`). `HandoffSettles`.

**pty_actor.** `OrderIsKept`: accepted bytes are, in order, the written, the
pending and the queued ones (`InputConserved`), and the child hears of a new
appearance before an answer that shows it (`ReportPrecedesAnswer`).
`HandoffIsClean`: a handoff that was told "ok" finds
a quiet actor that owes nothing (`QuiescedIsClean`), and when no handoff is under
way the gate is open, but for a rollback that was answered too late
(`GateFollowsHandoff`). `InputFlows`.

**deferred_requests.** `NoneLost`: a request has one answer, or waits in one
place that something will release (`AnsweredOnce`, `NothingStranded`).
`CarriedOutAsMeant`: input keeps its order of arrival, a handoff comes after what
it was put behind, and input reaches the terminal its name stood for.
`NoInputDuringRead`. `AllAnswered`, as long as traversals end.

**alt_screen_read.** `ViewportComesBack`: a traversal that ends as restored, or
before it moved anything, leaves the application where it was once it has read all
its wheel events, also when it was cut short. From the bottom this holds however
late the application redraws; from further up when no redraw is late: a probe's
step down that is unread when its time is over is answered as if nothing had
moved, and scrolls the application afterwards. A start less than a step above the
bottom is not excluded: the property says exactly where such a traversal may end
instead, a whole step above the bottom (section 6). `OnlyLatenessHidesTruncation`:
a result without the mark reaches the oldest rows unless a redraw was late; no torn
screen, change of text, abort or expiry makes the read take another screen for the
top. Untruncated results occur in the run, with three rows asked for and two above
the bottom. `alt_screen_truncation` shows that the lateness is needed.
`TraversalEnds`, whatever the application does.

**agent_wait.** `AnswersAreTrue`: a success names the terminal that was asked for and a status it
had since the request (`SuccessIsTrue`), "not running" is said only of an agent that was released,
replaced, renamed, moved or closed, or whose pane is no longer an agent's (`NotRunningIsTrue`), a
wait gives up only if the agent was not as asked for after the deadline, so that a dropped event
costs time but not the answer (`TimeoutIsTrue`), and a prompt is reported as completed only if the
agent's state changed or it was released (`PromptHadEffect`). `AwaitedIsAnswered`: a request with a
timeout is answered; one without is answered if the agent stays in the awaited status. For
`events.wait` nothing else is needed, since it looks at the pane in every poll. `agent.wait` and
`agent.prompt` look only after an event, so the property asks that none was dropped from the ring
and that the request does not tell `Idle` from `Done`: looking at a tab turns `Done` into `Idle`
without an event (`MarkSeen`), and `--until idle` without a timeout may miss it. Their default is
`Idle`, `Done` and `Blocked`.

Where a property has several named parts, each part has a wrong variant of the
code that breaks it.

### Why the bounds are enough

Messages, jobs and receipts interact only through the shared server, worker or
channel: their rows are separate. Two messages give every pairwise interleaving.
The proofs remove the bounds for the safety properties of every module; what
remains for the runs is liveness, and that each action and each wrong variant
does what it should. So one server (which crashes and cold-starts) and one job
(with one stalled worker, one that takes over and one that takes over again) are
enough. `QueueCap = 1` reaches the full channel with two callers where the code's
64 would need 65. Two tries allow a timeout and a retry that
overlaps the late write. `MaxAttempts = 2` against the code's cap keeps the case
"failed below the cap", the case "at the cap" and, with an expired lease, the
case above the cap.

Three handoffs let a failed one be followed by another failed one and a
successful one, with the identities of socket files left by both; two faults are
a crash of each side, or a crash and an expiry or a failed bind; the third pane is one too many
for `MaxFds`. Three events of the PTY actor are an input between two handoffs, or
a failed write and a retry of a handoff; every pair of kinds meets. Four requests
are a traversal, a handoff behind it, a traversal elsewhere and late input. In
`AltScreenRead` a history of one step has the bottom, a position less than a step
above it, from where the top cuts a step short, and the top, a full step above the
bottom; one row is reached before the top, three never. Truncation needs a history
that a step does not exhaust: one of a step and a half.

In `AgentWait` the ring of two events, where the code has 512, overflows with
three events or one turn that pushes two. Three turns are a change before the
first look, one between an event and the look that follows it, and one after
that; turns before the request or after the answer change nothing the properties
are about. `Blocked`, and `Unknown` for a pane with an agent, are treated by the
waits like any other status and are left out of the instance.

CHECK_DEADLOCK is off where a bound on requests, handoffs or events, or the end
of the traversal, lets the system come to rest.

## 4. Fairness

* A sender process that is not killed keeps running (`WF` of `SenderStep`); the
  operating system schedules it. Killing it is always allowed.
* A serving app loop handles its channel and a starting server works off its
  recovery list (`WF`): both are loops that wait for nothing else.
* Time passes (`WF` of `GraceExpires`, `LeaseExpires`).
* The worker threads run (`WF` of `WorkerStep`); `pause` ends by its condition or
  its deadline; `join` ends when the thread has.
* `SF` of `PollRecover`: the recovery interval elapses infinitely often while the
  loop polls, but the loop is not always at its poll. `SF` of `Claim`: a job that
  is selected again and again is not defeated by a store error in each claim.
* Both processes of a handoff keep running until they crash, and their waits have
  deadlines (`WF` of `OldStep`, `NewStep`). Nothing makes a handoff succeed.
* The actor's thread runs (`WF` of `ActorStep`), a delayed suffix becomes due, and
  a PTY that has room again and again is written to (`SF` of `WriteByte`).
* A release is a loop without waits (`WF` of `Release`); traversals end
  (`WF` of `FinishReads`), which `TraversalEnds` justifies.
* The main loop polls a traversal and its deadlines pass (`WF`). Output does not
  hit every single snapshot for ever (`SF` of `PollLooks`). Nothing is assumed of
  the application, which may stop reacting at any moment.
* A connection's thread runs and its deadline passes (`WF` of `Thread` and
  `Timer`). Of the application only its answers are assumed, and of the agent
  nothing.
* Nothing makes a server start, a server stop, a receiver report or a caller
  retry. `StoredMessageSettles` and `JobSettles` name what they need as premises.

## 5. Proofs

`DeliveryProofs`, for any sets of messages and servers: `TypeCorrect`,
`LogsAreLifecycles`, `NoFalseDelivery`, `OutcomesAreTrue`, `GraceIsRespected`,
`ResendOncePrompted`, `LogsAppendOnly`, `ImplementsLifecycle`. All rest on one
inductive invariant `IInv`. `LogIsALifecycle` alone is not inductive: that a
sender's append extends an empty or recovered log needs `SenderWritesAtExit` (it
writes once, in its last step); that a recorded submission was typed needs
`AnswerMatchesRequest`, `EffectIffHandled` and `SentMeansHandled`, which carry
the fact from the server's handling through the answer to the append; that a
recovery respects the grace needs `OrphansPastGrace` for the ids selected
earlier; and that it recovers a stored message needs `StoredFirst`. The
refinement maps a message to *absent*, *pending* or the type of its latest event
and shows each action to be a lifecycle step of one message or a stutter.

`EmbeddingJobsProofs`, for any jobs, workers and caps: `TypeCorrect`,
`VectorsMatchJobs`, `TokensDistinct`, `AttemptCap`, `LeaseIsExclusive`,
`FinalIsFinal`. The strengthening is `ClaimHeld` (a held token never exceeds the
job's attempts, so a new claim draws a larger one) and `AttemptToSpare` (where
the bound on attempts is strict: a pending job, and a running one whose lease is
over, have an attempt to spare).

`ReceiptWorkerProofs`, for any finite set of callers, any channel and any number
of tries: `TypeCorrect`, `PauseHolds`, `TellsTheTruth`. The counter `queued` is
kept by threads that never look at the channel, so what it counts has to be said
of the threads: `LoopState` and `OwnerState` tie the worker's and the owner's
position to what they hold, `ShutdownIsLast` makes the last message of the channel
the only one that is no job, and `QueuedCounts` then counts admissions, jobs and
the job that is taken. That a receipt is recorded once rests on `InOrder` (the
submissions of a caller are handed over, taken and recorded in order) and on
`JobHeld` and `ChannelHolds` (a job that is under way belongs to a caller that
was told nothing but "unknown"). Cardinalities are reasoned about with the
library's theorems, which is why `Callers` is assumed finite.

`LiveHandoffProofs`, for any panes, handoffs and faults: `TypeCorrect`,
`HandoffHasOneOwner`, `HandoffKeepsTheSession`. `Partners` says how far one
process can be when the other is where it is, and is inductive only with what is
on the stream between them (`StreamToNew`, `StreamToOld`): a line that is read
moves its reader, so a line in flight is a position of its own. `PaneInv`, `DbInv`
and `SockInv` then give the owner of each resource by the two positions.

`PtyActorProofs`, for any finite set of writers, any queue and any number of
events: `TypeCorrect`, `KeepsOrder`, `HandoffClean`. Commands that a caller gave
up on stay in the control queue; `CallInv` numbers them, so that only the last
one can be awaited, and says what the actor is when an answer is on its way.
`QuietInv` (a quiet actor has no input left and gets none) is what makes the
conservation of input survive a handoff, and `ReportInv` keeps track of the
report of an appearance until it is queued.

`AltScreenReadProofs`, for any history, step, height and numbers of rows, and for
an application that redraws when it likes: `TypeCorrect`, `ComesBack`,
`OnlyLateness`. The invariant says, for each phase, which wheel events are still
to be read and where they lead (`Final`), so that "comes back" can be said while
the application is still behind. Lateness appears in it as a case: without it a
step that is over finds the wheel events read and the screen whole (`DueInv`), so
that a step that changes nothing has found the top (`HarvestInv`); with it only the
traversals that began at the bottom keep their promise, since what they owe there
is a screen that no wheel event down can leave.

`AgentWaitProofs`, for any set of requests, size of the ring and number of turns: `TypeCorrect`,
`AnswersTrue`. What the thread holds is always out of date, so the invariant says how: every event
it may still read tells of something that happened since the request (`EventsInv`, over
`TrueEvents`); the agent it took is still the agent and its pane an agent's, or it has been lost
(`AgentInv`); a status it has kept was held (`MatchInv`, `OfferInv`); an unmet deadline and an
effect of the prompt are remembered (`UnmetInv`, `EffectInv`). Events that the ring drops only make
the first of these weaker, which is why the size of the ring does not matter.

`DeferredRequestsProofs`, for any finite set of terminals, any names and any
number of requests and rebindings: `TypeCorrect`, `NoRequestLost`, `CarriedOut`,
`InputWaitsForReads`. A release takes a queue out of the table, works through it
and puts its rest back, so no property of the stored queues is inductive. The
argument goes through one queue per terminal, `Queue(t)`: what a release holds of
it, or else what is stored. Taking a queue and putting it back leave `Queue(t)`
alone; everything else only adds at its end or removes its first item, which is
what the lemmas `QueuesGrow` and `QueuesShift` are about. `Books` is what holds of
these queues, the traversals, the table of handoffs and the log together:

* a request is in the log, behind a traversal, in the table of handoffs or in the
  queue of the terminal it arrived for (`AllAccounted`), and nothing that waits is
  in the log (`QueuesOk`, `ReadsOk`, `HandoffsOk`), so nothing is lost or answered
  twice;
* a queue is in order of arrival, with each barrier in front of what arrived after
  its handoff, and what it holds is later than all input its terminal was given
  (`QueueIsLater`), so input stays in order;
* a handoff that need not wait for a terminal any more comes after all that
  arrived for it earlier (`HandoffOk`), also when it was put aside again, so it is
  carried out after them;
* a barrier count is the number of handoffs that name the terminal (`CountsOk`).

Beside it `SourcesOk` says that a queue that is not empty has a traversal, a
handoff or the release that is under way to empty it, and `ReleaseOk` ties the
position of a release to what it holds; between releases the first is
`NothingStranded`. TLC checked the invariant on all states of the run before it
was proved. `Terminals` is assumed finite, since a release lists the terminals of
a handoff in a sequence; a server has finitely many.

The library's induction theorems take an operator as a parameter, which the
provers cannot instantiate. Where a recursive function or `FlattenSeq` has to be
followed over a whole sequence (`PushAll`, `EventsAfter`, `Replay`, `Bytes`, `ReadsOf`), the
modules prove induction over the natural numbers for a *set* (`InductionOnNat`)
from the least element of a set, and apply it to the set of lengths for which the
fact holds.

Assumptions: that the sets of messages and servers are not empty, that callers,
writers and terminals are finite sets, that sentinels are no members, that caps, sizes and
bounds are natural numbers (not zero where the code's are not), and that requests
and reported states have their types. TLC evaluates them in every run.

Every invariant of a passing run, and every action property, is stated by a
theorem. Only model-checked: the liveness properties `SenderExits`,
`StoredMessageSettles`, `JobSettles`, `WorkIsFinished`, `HandoffSettles`,
`InputFlows`, `AllAnswered`, `TraversalEnds` and `AwaitedIsAnswered` (the proof
system has no support for fairness and `ENABLED` here), and the four violations of
section 6, which are counterexamples. Only proved: `LogAppendOnly`.

## 6. Findings

* `receipt_worker_commit`: a failed `COMMIT` in `append_received_event`
  (`src/zynk/receipt.rs:131`) is returned without a `ROLLBACK` on a connection
  that is used for every later receipt. `src/zynk/embedding_worker.rs:581`
  describes this hazard and handles it for the embedding worker.
* `deferred_handoff`: a handoff whose barriers are reached is dispatched like a
  new request, and put aside again when any terminal is being read by then. Input
  that arrived after it then overtakes it; `docs/zynk/SPEC.md:324` promises the
  order.
* `alt_screen_truncation`: a screen that is unchanged when the step's deadline
  passes is taken for the top of the history
  (`src/server/alt_screen_read.rs:311`). When the application reads its wheel events
  later than `STEP_TIMEOUT`, the result misses rows and is not marked.
  `docs/zynk/SPEC.md:284` promises without a condition that "A bounded result marks
  truncation when omitted history exists", and the tests of the traversal expect
  redraws slower than the step (`src/server/alt_screen_read.rs:694`).
* `agent_prompt_exit`: in the server's wait for an effect of a prompt (the `wait`
  parameter of `agent.prompt`), a release event ends the wait with the status it
  carries, whatever the baseline (`src/api/wait.rs:404`). An idle agent's exit is a
  release without a change of state, so an agent that dies before it does anything
  with its prompt is reported as done with it. The test of this wait is called
  `m840_prompt_wait_requires_a_post_submission_sequence`
  (`src/api/server.rs:1713`). The CLI's `agent prompt --wait` is not affected: it
  sends no `wait` (`src/cli/agent.rs:1289`) and compares the sequence in its own
  loop (`src/cli/agent.rs:1122`), as `docs/zynk/SPEC.md:218` says.

Observed while modelling, and allowed for in the properties:

* The comment on `DbPreflightRecovery` (`src/server/headless.rs:6119`) says of a
  cold start that "nothing else can be mid-send". The store is shared, so a live
  sender of another server that is suspended longer than the grace between its
  persist and its first event has its message failed. Its own event is then
  refused and it says so (`OutcomeMatchesLog`); nothing is lost but the truth of
  the status.
* `apply_pending_controls` applies a pending nudge after a pending resize, and the
  nudge ends by setting the size it was issued with (`src/pty/actor/unix.rs:796`).
  A resize right behind the redraw nudge of the first client after a handoff is
  undone, and not repeated. No line of the repository promises that the latest of
  the two wins: its test is about each slot by itself.
* An arriving request is checked against the traversals first
  (`src/server/headless.rs:4207`), then the internal events are drained (`:4291`),
  then it is dispatched; only a released request has its target checked again
  (`:4330`). A target that is an agent's kind and means one terminal only after the
  drain, since the other one with that kind has just gone, is not checked at all.
  `Arrive` takes those events before the check, so `NoInputDuringRead`,
  `CarriedOutAsMeant` and their theorems do not speak of this case.
* A pane whose actor answered its rollback too late stays deaf while the old server
  serves on: it is read, and its input gate is closed. `ServingIsWhole` is about the
  reading and says nothing of the gate; `GateFollowsHandoff` in `PtyActor` has the
  exception.
* The bottom probe of a traversal undoes itself with as many wheel events as it
  sent. Less than a step above the bottom it moved by fewer, and the application
  is left further up than it was (`src/server/alt_screen_read.rs:260`).
  `ViewportComesBack` says how far.
* `agent.wait` ends with "agent is no longer running in the target pane" when its
  pane is moved, also within a workspace, where nothing about the agent changes.

## 7. Not modelled

Data without control: message bodies, headers and hashes, FTS and vector contents,
terminal emulation, rendering, image encoding, configuration, key handling, and
how rows of two screens are compared and joined. Programs driven from outside:
ssh, package updates, plugins. SQLite itself is taken at its word: transactions
are atomic and `BEGIN IMMEDIATE` serialises writers. Identity checks of a receipt
are only the choice between accepted and refused. Clock steps: the grace and the
lease are modelled as flags that turn true once; a wall clock set forward is the
same as time passing, one set back only delays it.

Conversations, participants and `conversation_seq` change inside the one
`BEGIN IMMEDIATE` transaction of `begin_send_attempt`, which `Delivery` takes as
one step: what they compute is sequential and no interleaving reaches it.

The bulk of the repository's lines is the terminal user interface: rendering,
input handling, layout, the terminal state and its detection rules, and their
tests. It runs on one thread over data that is private to it; the models here
cover the parts where processes, threads, timeouts and failures meet.

Of the event hub, the wait for output and the streaming subscriptions of other
kinds are left out: each polls one value and remembers the last one it sent. In
`AgentWait` the launch of a managed agent is over, and which of several reports
wins is decided before `Observe`.

In `AltScreenRead` two screens are similar when position and text agree.
`similar_text` asks for 70 % of the rows (`SIMILAR_VIEWPORT_RATIO_PERCENT`) and takes
two blank screens for similar, so that in the code a screen a few rows away may
count as the first one; `ViewportComesBack` is about screens where that does not
happen. Changes below the threshold make no new text; they only keep
`merge_scrolled_up`, whose `Unchanged` is exact, from noticing that nothing moved.

In `LiveHandoff` the manifest is one line; its fields and the restored workspace
tree are data. A bind that fails leaves no file; in the code a listener that was
bound and whose permissions could not be set leaves one that nobody listens on.

Left out because nothing but the answer changes: `receipt_worker_unavailable` for a
channel without a receiver (`receipt_worker.rs:136`, `150`), which needs a panic of
the worker's thread, as the handle that sends the shutdown is dropped by then; and
`server_unavailable` for a released request when another thread sets `should_quit`
in the middle of a release (`headless.rs:4203`), where the model answers it by the
target and shuts down after the release.

## 8. State and further work

`Delivery`, `MessageLifecycle`, `EmbeddingJobs`, `PauseControl`, `ReceiptWorker`,
`LiveHandoff`, `PtyActor`, `DeferredRequests`, `AltScreenRead` and `AgentWait` are
modelled, checked and proved about as described above.

Worth modelling next, in this order:

1. `AgentState`: hook authority, sequence numbers and TTLs.
2. `ReceiptIdentity`: who may acknowledge what, over a small set of session
   anchors, against a reference definition.
3. `DbOpen`: init lock, classification and cutover as file-system state.
4. `Layout`: tree operations as functions checked against their promises.
