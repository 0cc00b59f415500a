----------------------------- MODULE LiveHandoff -----------------------------
(***************************************************************************)
(* A live handoff: a running server (old) replaces itself by a new process *)
(* (new) that takes over its panes, its public sockets and its database    *)
(* workers, while the processes in the panes keep running.  The two speak  *)
(* over a private stream socket; either may time out, fail or crash at any *)
(* step.  Every failure before "committed" must leave the old server as it *)
(* was, every step after it must leave the new one in charge.              *)
(* Reading the stream, a line at a time, is one step; so is everything a   *)
(* process does between two points where the other one, or a fault, could  *)
(* be noticed.                                                             *)
(***************************************************************************)
EXTENDS Naturals, Sequences, FiniteSets

CONSTANTS Panes,        \* panes that may be open
          MaxFds,       \* MAX_FDS_PER_HANDOFF (64)
          MaxHandoffs,  \* bound: server.live_handoff requests
          MaxFaults,    \* bound: crashes, expiries, failed binds
          SlowActors,   \* a PTY actor may take too long to answer a rollback
          OtherServers  \* another zynk server may be started meanwhile

ASSUME BoundsAssumption ==
  MaxFds \in Nat /\ MaxHandoffs \in Nat /\ MaxFaults \in Nat
ASSUME SwitchesAssumption == SlowActors \in BOOLEAN /\ OtherServers \in BOOLEAN

Servers == {"old", "new"}
Workers == {"embedding", "receipt"}
Sockets == {"api", "client"}

VARIABLES
  old,       \* where the old server is in perform_live_handoff
  new,       \* where the replacement is in run_handoff_import_server
  toOld,     \* lines the replacement wrote and the old server did not read
  toNew,     \* lines, and descriptors, on their way to the replacement
  open,      \* panes attached to a tab of the session
  pane,      \* pane[s][p]: the state of s's PTY actor for p
  deaf,      \* panes whose input gate stayed shut: a rollback went unanswered
  preserve,  \* new drops its pane runtimes without ending their processes
  killed,    \* panes whose processes a server ended
  sock,      \* sock[k]: identity of the file at public socket path k
  ident,     \* ident[k]: the identity the old server remembers for k
  db,        \* db[s][w]: worker w of server s
  paused,    \* workers of the old server that are paused
  inProgress,\* handoff_in_progress: the old server turns clients away
  attempts,  \* handoffs requested so far
  faults     \* the crashes, expiries and failed binds, and when

vars == <<old, new, toOld, toNew, open, pane, deaf, preserve, killed, sock,
          ident, db, paused, inProgress, attempts, faults>>
streamVars == <<toOld, toNew>>
paneVars == <<open, pane, deaf, preserve, killed>>
sockVars == <<sock, ident>>
dbVars == <<db, paused>>
restVars == <<inProgress, attempts, faults>>

NoFile == <<"none", 0>>
Lines == {"token", "manifest", "validated", "rejected", "fds", "restored",
          "ready", "committed", "owned"}
OldStates ==
  {"serving", "pausingEmbedding", "pausingReceipt", "quiescing",
   "duplicating", "accepting", "validating", "restoring", "withdrawApi",
   "withdrawClient", "awaitingReady", "quiescingDb", "committing",
   "bindingApi", "bindingClient", "draining", "acknowledging", "gone",
   "crashed"}
NewStates ==
  {"none", "connecting", "awaitingManifest", "awaitingFds", "importing",
   "awaitingClose", "bindingApi", "bindingClient", "awaitingCommit",
   "expired", "installing", "assuming", "owner", "dead"}

TypeOK ==
  /\ old \in OldStates /\ new \in NewStates
  /\ toOld \in Seq(Lines) /\ toNew \in Seq(Lines)
  /\ open \subseteq Panes /\ deaf \subseteq Panes /\ killed \subseteq Panes
  /\ pane \in [Servers -> [Panes -> {"none", "Running", "Quiesced",
                                     "Released"}]]
  /\ preserve \in BOOLEAN /\ inProgress \in BOOLEAN
  /\ sock \in [Sockets ->
       {NoFile} \cup {"old", "new", "other"} \X (0 .. MaxHandoffs)]
  /\ ident \in [Sockets -> {"old"} \X (0 .. MaxHandoffs)]
  /\ db \in [Servers -> [Workers -> {"absent", "idle", "busy"}]]
  /\ paused \subseteq Workers
  /\ attempts \in 0 .. MaxHandoffs
  /\ faults \subseteq {"oldBeforeCommit", "oldAfterCommit", "newBeforeCommit",
                       "newAfterCommit", "expired", "bind"}

\* A server that has been running for a while, its workers between units.
Init ==
  /\ old = "serving" /\ new = "none"
  /\ toOld = <<>> /\ toNew = <<>>
  /\ open = {} /\ deaf = {} /\ killed = {}
  /\ pane = [s \in Servers |-> [p \in Panes |-> "none"]]
  /\ preserve = TRUE
  /\ sock = [k \in Sockets |-> <<"old", 0>>]
  /\ ident = sock
  /\ db = [s \in Servers |->
             [w \in Workers |-> IF s = "old" THEN "idle" ELSE "absent"]]
  /\ paused = {}
  /\ inProgress = FALSE /\ attempts = 0 /\ faults = {}

OldAlive == old \notin {"gone", "crashed"}
NewAlive == new \notin {"none", "dead"}

\* The old server has written "committed".
Committed == old \in {"draining", "acknowledging", "gone"}
             \/ "oldAfterCommit" \in faults

\* A connection to the file at k would be accepted.
Listening(k) ==
  \/ sock[k][1] = "old" /\ OldAlive
  \/ sock[k] = <<"new", attempts>> /\ NewAlive
  \/ sock[k][1] = "other"

\* Removing a socket file only when it still is the one that was bound.
Unlinked(f, k, id) == IF f[k] = id THEN [f EXCEPT ![k] = NoFile] ELSE f

-----------------------------------------------------------------------------
(* The old server: perform_live_handoff *)

OpenPane(p) ==
  /\ old = "serving" /\ p \notin open
  /\ open' = open \cup {p}
  /\ pane' = [pane EXCEPT !["old"][p] = "Running"]
  /\ UNCHANGED <<old, new, streamVars, deaf, preserve, killed, sockVars,
                 dbVars, restVars>>

\* The private listener cannot be bound, or there are too many panes.
RefuseHandoff ==
  /\ old = "serving" /\ attempts < MaxHandoffs
  /\ attempts' = attempts + 1
  /\ UNCHANGED <<old, new, streamVars, paneVars, sockVars, dbVars,
                 inProgress, faults>>

BeginHandoffTwice ==
  /\ old = "serving" /\ attempts < MaxHandoffs
  /\ attempts' = attempts + 2
  /\ paused' = {"embedding"}
  /\ old' = "pausingEmbedding"
  /\ UNCHANGED <<new, streamVars, paneVars, sockVars, db, inProgress, faults>>

BeginHandoff ==
  /\ old = "serving" /\ attempts < MaxHandoffs
  /\ Cardinality(open) <= MaxFds
  /\ attempts' = attempts + 1
  /\ paused' = {"embedding"}
  /\ old' = "pausingEmbedding"
  /\ UNCHANGED <<new, streamVars, paneVars, sockVars, db, inProgress, faults>>

EmbeddingPaused ==
  /\ old = "pausingEmbedding" /\ db["old"]["embedding"] # "busy"
  /\ paused' = Workers
  /\ old' = "pausingReceipt"
  /\ UNCHANGED <<new, streamVars, paneVars, sockVars, db, restVars>>

\* Both workers are quiescent: service is withdrawn from here on.
ReceiptPaused ==
  /\ old = "pausingReceipt" /\ db["old"]["receipt"] # "busy"
  /\ inProgress' = TRUE
  /\ old' = "quiescing"
  /\ UNCHANGED <<new, streamVars, paneVars, sockVars, dbVars, attempts,
                 faults>>

\* A worker is busy past the deadline: nothing was withdrawn yet.
PauseDeadline ==
  /\ old \in {"pausingEmbedding", "pausingReceipt"}
  /\ paused' = {}
  /\ old' = "serving"
  /\ UNCHANGED <<new, streamVars, paneVars, sockVars, db, restVars>>

\* The panes the handoff has paused so far (paused_terminal_ids).
QuiescedPanes == {p \in Panes : pane["old"][p] = "Quiesced"}

RollbackKeepsPause(S) ==
  /\ pane' = [pane EXCEPT !["old"] =
                [p \in Panes |-> IF p \in S THEN "Running" ELSE @[p]],
                          !["new"] = [p \in Panes |-> "none"]]
  /\ deaf' = deaf \ S
  /\ inProgress' = FALSE
  /\ old' = "serving"
  /\ UNCHANGED paused

\* rollback_handoff_before_commit, with the panes of S rolled back: an actor
\* that does not answer in time leaves its input gate shut.
RollbackBeforeCommit(S) ==
  /\ pane' = [pane EXCEPT !["old"] =
                [p \in Panes |-> IF p \in S THEN "Running" ELSE @[p]],
                          !["new"] = [p \in Panes |-> "none"]]
  /\ \E D \in IF SlowActors THEN SUBSET S ELSE {{}} : deaf' = (deaf \ S) \cup D
  /\ paused' = {}
  /\ inProgress' = FALSE
  /\ old' = "serving"

\* cleanup_failed_import_child: killed and reaped.  What it had bound stays
\* behind as a stale file, what it was sent is destroyed with its stream.
KillImport ==
  /\ new' = IF new = "none" THEN "none" ELSE "dead"
  /\ toOld' = <<>> /\ toNew' = <<>>
  /\ preserve' = TRUE

QuiescePane(p) ==
  /\ old = "quiescing" /\ p \in open /\ pane["old"][p] = "Running"
  /\ pane' = [pane EXCEPT !["old"][p] = "Quiesced"]
  /\ UNCHANGED <<old, new, streamVars, open, deaf, preserve, killed,
                 sockVars, dbVars, restVars>>

\* The actor of p refuses or times out; its handle rolls it back.
QuiesceFails(p) ==
  /\ old = "quiescing" /\ p \in open /\ pane["old"][p] = "Running"
  /\ RollbackBeforeCommit(QuiescedPanes \cup {p})
  /\ UNCHANGED <<new, streamVars, open, preserve, killed, sockVars, db,
                 attempts, faults>>

SpawnImport ==
  /\ old = "quiescing" /\ open = QuiescedPanes
  /\ new' = "connecting"
  /\ toOld' = <<>> /\ toNew' = <<>>
  /\ old' = "duplicating"
  /\ UNCHANGED <<paneVars, sockVars, dbVars, restVars>>

SpawnFails ==
  /\ old = "quiescing" /\ open = QuiescedPanes
  /\ RollbackBeforeCommit(QuiescedPanes)
  /\ UNCHANGED <<new, streamVars, open, preserve, killed, sockVars, db,
                 attempts, faults>>

DuplicateFds ==
  /\ old = "duplicating"
  /\ old' = "accepting"
  /\ UNCHANGED <<new, streamVars, paneVars, sockVars, dbVars, restVars>>

AcceptImport ==
  /\ old = "accepting" /\ toOld # <<>> /\ Head(toOld) = "token"
  /\ toOld' = Tail(toOld)
  /\ toNew' = IF NewAlive THEN Append(toNew, "manifest") ELSE toNew
  /\ old' = "validating"
  /\ UNCHANGED <<new, paneVars, sockVars, dbVars, restVars>>

\* "validated": the descriptors follow.
SendFds ==
  /\ old = "validating" /\ toOld # <<>> /\ Head(toOld) = "validated"
  /\ NewAlive
  /\ toOld' = Tail(toOld)
  /\ toNew' = Append(toNew, "fds")
  /\ old' = "restoring"
  /\ UNCHANGED <<new, paneVars, sockVars, dbVars, restVars>>

RuntimesRestored ==
  /\ old = "restoring" /\ toOld # <<>> /\ Head(toOld) = "restored"
  /\ toOld' = Tail(toOld)
  /\ old' = "withdrawApi"
  /\ UNCHANGED <<new, toNew, paneVars, sockVars, dbVars, restVars>>

\* "rejected", a closed stream, a wrong line or a timeout, before the sockets
\* were withdrawn.
HandoffFails ==
  /\ old \in {"duplicating", "accepting", "validating", "restoring"}
  /\ KillImport
  /\ RollbackBeforeCommit(QuiescedPanes)
  /\ UNCHANGED <<open, killed, sockVars, db, attempts, faults>>

WithdrawApiSocket ==
  /\ old = "withdrawApi"
  /\ sock' = Unlinked(sock, "api", ident["api"])
  /\ old' = "withdrawClient"
  /\ UNCHANGED <<new, streamVars, paneVars, ident, dbVars, restVars>>

WithdrawClientSocket ==
  /\ old = "withdrawClient"
  /\ sock' = Unlinked(sock, "client", ident["client"])
  /\ old' = "awaitingReady"
  /\ UNCHANGED <<new, streamVars, paneVars, ident, dbVars, restVars>>

ReplacementReady ==
  /\ old = "awaitingReady" /\ toOld # <<>> /\ Head(toOld) = "ready"
  /\ toOld' = Tail(toOld)
  /\ old' = "quiescingDb"
  /\ UNCHANGED <<new, toNew, paneVars, sockVars, dbVars, restVars>>

\* wait_ready failed: the sockets have to be bound again.
ReadyFails ==
  /\ old = "awaitingReady"
  /\ KillImport
  /\ pane' = [pane EXCEPT !["new"] = [p \in Panes |-> "none"]]
  /\ old' = "bindingApi"
  /\ UNCHANGED <<open, deaf, killed, sockVars, dbVars, restVars>>

\* quiesce_db_workers_for_handoff: both handles are dropped, which joins.
QuiesceDbWorkers ==
  /\ old = "quiescingDb" /\ \A w \in Workers : db["old"][w] # "busy"
  /\ db' = [db EXCEPT !["old"] = [w \in Workers |-> "absent"]]
  /\ paused' = {}
  /\ old' = "committing"
  /\ UNCHANGED <<new, streamVars, paneVars, sockVars, restVars>>

ReportCommitted ==
  /\ old = "committing" /\ NewAlive
  /\ toNew' = Append(toNew, "committed")
  /\ old' = "draining"
  /\ UNCHANGED <<new, toOld, paneVars, sockVars, dbVars, restVars>>

\* The write failed: the replacement is gone, or the socket reports an error.
CommitFails ==
  /\ old = "committing"
  /\ KillImport
  /\ pane' = [pane EXCEPT !["new"] = [p \in Panes |-> "none"]]
  /\ db' = [db EXCEPT !["old"] = [w \in Workers |-> "busy"]]
  /\ old' = "bindingApi"
  /\ UNCHANGED <<open, deaf, killed, sockVars, paused, restVars>>

\* Both public paths are free, as the killed replacement's files are.
RestoreApiSocket ==
  /\ old = "bindingApi" /\ \A k \in Sockets : ~Listening(k)
  /\ sock' = [sock EXCEPT !["api"] = <<"old", attempts>>]
  /\ old' = "bindingClient"
  /\ UNCHANGED <<new, streamVars, paneVars, ident, dbVars, restVars>>

\* Only now do the new listeners replace the old ones.  Dropping the old
\* handle removes its file, which is no longer the one at that path.
RestoreClientSocket ==
  /\ old = "bindingClient" /\ ~Listening("client")
  /\ ident' = [k \in Sockets |-> <<"old", attempts>>]
  /\ sock' = Unlinked([sock EXCEPT !["client"] = <<"old", attempts>>],
                      "api", ident["api"])
  /\ RollbackBeforeCommit(QuiescedPanes)
  /\ UNCHANGED <<new, streamVars, open, preserve, killed, db, attempts,
                 faults>>

\* Another server holds a path, or a path cannot be bound: the old one goes
\* on without public sockets.
RestoreFails ==
  /\ old \in {"bindingApi", "bindingClient"}
  /\ \/ \E k \in Sockets : Listening(k) /\ sock[k][1] # "old"
        /\ UNCHANGED faults
     \/ Cardinality(faults) < MaxFaults /\ faults' = faults \cup {"bind"}
  /\ sock' = IF old = "bindingClient"
             THEN Unlinked(sock, "api", <<"old", attempts>>) ELSE sock
  /\ RollbackBeforeCommit(QuiescedPanes)
  /\ UNCHANGED <<new, streamVars, open, preserve, killed, ident, db, attempts>>

DrainUnpauses ==
  /\ old = "draining"
  /\ pane' = [pane EXCEPT !["old"] =
                [p \in Panes |-> IF p \in open THEN "Running" ELSE @[p]]]
  /\ old' = "acknowledging"
  /\ UNCHANGED <<new, streamVars, open, deaf, preserve, killed, sockVars,
                 dbVars, restVars>>

\* preserve_for_handoff: the actors are released, the processes live on.
DrainRuntimes ==
  /\ old = "draining"
  /\ pane' = [pane EXCEPT !["old"] =
                [p \in Panes |-> IF p \in open THEN "Released" ELSE @[p]]]
  /\ old' = "acknowledging"
  /\ UNCHANGED <<new, streamVars, open, deaf, preserve, killed, sockVars,
                 dbVars, restVars>>

FinishUnlinksAll ==
  /\ old = "acknowledging"
  /\ sock' = [k \in Sockets |-> NoFile]
  /\ toOld' = <<>>
  /\ old' = "gone"
  /\ UNCHANGED <<new, toNew, paneVars, ident, dbVars, restVars>>

\* wait_owned_ack returns whatever it read; the server then exits, and its
\* handles remove the socket files that are still theirs.
FinishHandoff ==
  /\ old = "acknowledging"
  /\ sock' = Unlinked(Unlinked(sock, "api", ident["api"]),
                      "client", ident["client"])
  /\ toOld' = <<>>
  /\ old' = "gone"
  /\ UNCHANGED <<new, toNew, paneVars, ident, dbVars, restVars>>

-----------------------------------------------------------------------------
(* The replacement: run_handoff_import_server *)

Connect ==
  /\ new = "connecting" /\ OldAlive
  /\ toOld' = Append(toOld, "token")
  /\ new' = "awaitingManifest"
  /\ UNCHANGED <<old, toNew, paneVars, sockVars, dbVars, restVars>>

AcceptManifest ==
  /\ new = "awaitingManifest" /\ toNew # <<>>
  /\ toNew' = Tail(toNew)
  /\ toOld' = Append(toOld, "validated")
  /\ new' = "awaitingFds"
  /\ UNCHANGED <<old, paneVars, sockVars, dbVars, restVars>>

\* Another handoff version, protocol or build than this one.
RejectManifest ==
  /\ new = "awaitingManifest" /\ toNew # <<>>
  /\ toNew' = Tail(toNew)
  /\ toOld' = Append(toOld, "rejected")
  /\ new' = "dead"
  /\ UNCHANGED <<old, paneVars, sockVars, dbVars, restVars>>

ReceiveFds ==
  /\ new = "awaitingFds" /\ toNew # <<>>
  /\ toNew' = Tail(toNew)
  /\ new' = "importing"
  /\ pane' = [pane EXCEPT !["new"] =
                [p \in Panes |-> IF p \in open THEN "Quiesced" ELSE "none"]]
  /\ UNCHANGED <<old, toOld, open, deaf, preserve, killed, sockVars, dbVars,
                 restVars>>

ReportRestoredOwning ==
  /\ new = "importing" /\ OldAlive
  /\ toOld' = Append(toOld, "restored")
  /\ preserve' = FALSE
  /\ new' = "awaitingClose"
  /\ UNCHANGED <<old, toNew, open, pane, deaf, killed, sockVars, dbVars,
                 restVars>>

\* The database pre-flight and the restore of the snapshot succeeded; the
\* imported runtimes do not own their processes yet.
ReportRestored ==
  /\ new = "importing" /\ OldAlive
  /\ toOld' = Append(toOld, "restored")
  /\ preserve' = TRUE
  /\ new' = "awaitingClose"
  /\ UNCHANGED <<old, toNew, open, pane, deaf, killed, sockVars, dbVars,
                 restVars>>

OldSocketsClosed ==
  /\ new = "awaitingClose" /\ \A k \in Sockets : ~Listening(k)
  /\ new' = "bindingApi"
  /\ UNCHANGED <<old, streamVars, paneVars, sockVars, dbVars, restVars>>

BindApiSocket ==
  /\ new = "bindingApi" /\ ~Listening("api")
  /\ sock' = [sock EXCEPT !["api"] = <<"new", attempts>>]
  /\ new' = "bindingClient"
  /\ UNCHANGED <<old, streamVars, paneVars, ident, dbVars, restVars>>

BindClientSocket ==
  /\ new = "bindingClient" /\ ~Listening("client") /\ OldAlive
  /\ sock' = [sock EXCEPT !["client"] = <<"new", attempts>>]
  /\ toOld' = Append(toOld, "ready")
  /\ new' = "awaitingCommit"
  /\ UNCHANGED <<old, toNew, paneVars, ident, dbVars, restVars>>

\* 30 s without "committed".  The stream closes when the process ends.
CommitExpires ==
  /\ new = "awaitingCommit" /\ Cardinality(faults) < MaxFaults
  /\ new' = "expired"
  /\ faults' = faults \cup {"expired"}
  /\ UNCHANGED <<old, streamVars, paneVars, sockVars, dbVars, inProgress,
                 attempts>>

ReadCommittedUnasked ==
  /\ new = "awaitingCommit"
  /\ new' = "installing"
  /\ UNCHANGED <<old, streamVars, paneVars, sockVars, dbVars, restVars>>

ReadCommitted ==
  /\ new = "awaitingCommit" /\ toNew # <<>>
  /\ toNew' = Tail(toNew)
  /\ new' = "installing"
  /\ UNCHANGED <<old, toOld, paneVars, sockVars, dbVars, restVars>>

\* A worker's startup counts as work.
InstallDbWorkers ==
  /\ new = "installing"
  /\ db' = [db EXCEPT !["new"] = [w \in Workers |-> "busy"]]
  /\ new' = "assuming"
  /\ UNCHANGED <<old, streamVars, paneVars, sockVars, paused, restVars>>

\* assume_handoff_ownership, unpause_handoff_readers, report_owned.
AssumeOwnership ==
  /\ new = "assuming"
  /\ preserve' = FALSE
  /\ pane' = [pane EXCEPT !["new"] =
                [p \in Panes |-> IF p \in open THEN "Running" ELSE "none"]]
  /\ \E D \in IF SlowActors THEN SUBSET open ELSE {{}} : deaf' = D
  /\ toOld' = IF OldAlive THEN Append(toOld, "owned") ELSE toOld
  /\ new' = "owner"
  /\ UNCHANGED <<old, toNew, open, killed, sockVars, dbVars, restVars>>

\* An error return before ownership: the handles remove the socket files that
\* are still theirs, and the pane runtimes are dropped.
ExitNew ==
  /\ new' = "dead"
  /\ toNew' = <<>>
  /\ sock' = [k \in Sockets |->
                IF sock[k] = <<"new", attempts>> THEN NoFile ELSE sock[k]]
  /\ killed' = IF preserve THEN killed
               ELSE killed \cup {p \in Panes : pane["new"][p] # "none"}
  /\ pane' = [pane EXCEPT !["new"] = [p \in Panes |-> "none"]]
  /\ UNCHANGED <<old, toOld, open, deaf, preserve, ident, dbVars, restVars>>

ImportFailsNoEof ==
  /\ new \in {"importing", "awaitingClose", "expired"}
  /\ ExitNew

ImportFails ==
  /\ \/ new = "connecting" /\ ~OldAlive
     \/ new \in {"awaitingManifest", "awaitingFds", "awaitingCommit"}
        /\ toNew = <<>> /\ ~OldAlive
     \/ new \in {"importing", "awaitingClose", "expired"}
     \/ new = "bindingApi" /\ Listening("api")
     \/ new = "bindingClient" /\ (Listening("client") \/ ~OldAlive)
  /\ ExitNew

-----------------------------------------------------------------------------
(* The database workers, faults and other servers *)

StartUnitThoughPaused(s, w) ==
  /\ db[s][w] = "idle"
  /\ s = "old" => OldAlive
  /\ s = "new" => NewAlive
  /\ db' = [db EXCEPT ![s][w] = "busy"]
  /\ UNCHANGED <<old, new, streamVars, paneVars, sockVars, paused, restVars>>

\* An embedding batch, or a receipt that was accepted and is outstanding.
StartUnit(s, w) ==
  /\ db[s][w] = "idle"
  /\ s = "old" => OldAlive /\ w \notin paused
  /\ s = "new" => NewAlive
  /\ db' = [db EXCEPT ![s][w] = "busy"]
  /\ UNCHANGED <<old, new, streamVars, paneVars, sockVars, paused, restVars>>

FinishUnit(s, w) ==
  /\ db[s][w] = "busy"
  /\ s = "old" => OldAlive
  /\ s = "new" => NewAlive
  /\ db' = [db EXCEPT ![s][w] = "idle"]
  /\ UNCHANGED <<old, new, streamVars, paneVars, sockVars, paused, restVars>>

CrashOld ==
  /\ OldAlive /\ Cardinality(faults) < MaxFaults
  /\ faults' = faults \cup
       {IF Committed THEN "oldAfterCommit" ELSE "oldBeforeCommit"}
  /\ old' = "crashed"
  /\ UNCHANGED <<new, streamVars, paneVars, sockVars, dbVars, inProgress,
                 attempts>>

CrashNew ==
  /\ NewAlive /\ Cardinality(faults) < MaxFaults
  /\ faults' = faults \cup
       {IF Committed THEN "newAfterCommit" ELSE "newBeforeCommit"}
  /\ new' = "dead"
  /\ toNew' = <<>>
  /\ pane' = [pane EXCEPT !["new"] = [p \in Panes |-> "none"]]
  /\ UNCHANGED <<old, toOld, open, deaf, preserve, killed, sockVars, dbVars,
                 inProgress, attempts>>

\* A client that found no server started one, and it bound a free path.
OtherServerBinds(k) ==
  /\ OtherServers /\ ~Listening(k)
  /\ sock' = [sock EXCEPT ![k] = <<"other", 0>>]
  /\ UNCHANGED <<old, new, streamVars, paneVars, ident, dbVars, restVars>>

OldStep ==
  \/ EmbeddingPaused \/ ReceiptPaused \/ PauseDeadline
  \/ \E p \in Panes : QuiescePane(p) \/ QuiesceFails(p)
  \/ SpawnImport \/ SpawnFails \/ DuplicateFds \/ AcceptImport \/ SendFds
  \/ RuntimesRestored \/ HandoffFails
  \/ WithdrawApiSocket \/ WithdrawClientSocket
  \/ ReplacementReady \/ ReadyFails
  \/ QuiesceDbWorkers \/ ReportCommitted \/ CommitFails
  \/ RestoreApiSocket \/ RestoreClientSocket \/ RestoreFails
  \/ DrainRuntimes \/ FinishHandoff

NewStep ==
  \/ Connect \/ AcceptManifest \/ RejectManifest \/ ReceiveFds
  \/ ReportRestored \/ OldSocketsClosed \/ BindApiSocket \/ BindClientSocket
  \/ ReadCommitted \/ InstallDbWorkers \/ AssumeOwnership \/ ImportFails

Next ==
  \/ \E p \in Panes : OpenPane(p)
  \/ RefuseHandoff \/ BeginHandoff
  \/ OldStep \/ NewStep
  \/ \E s \in Servers, w \in Workers : StartUnit(s, w) \/ FinishUnit(s, w)
  \/ CommitExpires \/ CrashOld \/ CrashNew
  \/ \E k \in Sockets : OtherServerBinds(k)

Spec == Init /\ [][Next]_vars

\* Each process keeps taking the steps it can.  No unit of database work is
\* assumed to end.
Fairness == WF_vars(OldStep) /\ WF_vars(NewStep)

FairSpec == Spec /\ Fairness

-----------------------------------------------------------------------------
(* What a handoff guarantees *)

\* A server has p's PTY master open.
Held(p) ==
  \/ OldAlive /\ pane["old"][p] \in {"Running", "Quiesced"}
  \/ NewAlive /\ pane["new"][p] # "none"

\* A pane's PTY is never read by two servers: its output would be split
\* between them.
OneReader ==
  \A p \in Panes : ~ /\ OldAlive /\ pane["old"][p] = "Running"
                     /\ NewAlive /\ pane["new"][p] = "Running"

\* The two servers never both have database workers: the replacement's
\* startup recovery would take over a job the old worker still runs.
OneDbOwner ==
  OldAlive /\ NewAlive =>
    \A w \in Workers : db["old"][w] = "absent" \/ db["new"][w] = "absent"

\* From the acknowledged pause to the commit the old server's workers do
\* nothing, so that joining them at the commit cannot take long.
QuietUntilCommit ==
  old \in {"quiescing", "duplicating", "accepting", "validating",
           "restoring", "withdrawApi", "withdrawClient", "awaitingReady",
           "quiescingDb", "committing"} =>
    \A w \in Workers : db["old"][w] # "busy"

\* At every moment panes and database work have at most one active owner.
OneOwner == OneReader /\ OneDbOwner /\ QuietUntilCommit

\* Whatever fails, no server ends the processes of a pane, and the pane keeps
\* a server that holds its PTY.  What cannot be survived is the loss of the
\* process in charge: the old server before it wrote "committed", the new one
\* after that.
PanesSurvive ==
  \A p \in open :
    /\ p \notin killed
    /\ \/ Held(p)
       \/ "oldBeforeCommit" \in faults
       \/ Committed /\ faults \cap {"newAfterCommit", "expired"} # {}

\* After a refused or failed handoff the old server serves as before: workers
\* accept work, panes are read, clients are admitted, no replacement is left
\* and the public sockets are its own, unless another server took them or
\* they could not be bound again.
ServingIsWhole ==
  old = "serving" =>
    /\ ~inProgress /\ paused = {} /\ ~NewAlive
    /\ \A w \in Workers : db["old"][w] # "absent"
    /\ \A p \in open : pane["old"][p] = "Running"
    /\ (\A k \in Sockets : sock[k] = ident[k])
       \/ \E k \in Sockets : sock[k][1] = "other"
       \/ "bind" \in faults

\* A replacement that owns the session has its workers, its panes and its
\* public sockets, and the old server's exit does not take them away.
OwnerIsWhole ==
  new = "owner" =>
    /\ \A w \in Workers : db["new"][w] # "absent"
    /\ \A p \in open : pane["new"][p] = "Running"
    /\ \A k \in Sockets : sock[k] = <<"new", attempts>>

\* Whichever server the handoff ends with is a complete one, and on the way
\* no pane is lost.
SurvivorIsWhole == PanesSurvive /\ ServingIsWhole /\ OwnerIsWhole

\* Every handoff comes to an end, whoever crashes: the old server serves
\* again or is gone, the replacement is in charge or is gone.
HandoffSettles ==
  (old # "serving" \/ NewAlive) ~>
    /\ old \in {"serving", "gone", "crashed"}
    /\ new \in {"none", "owner", "dead"}

=============================================================================
