-------------------------- MODULE LiveHandoffProofs -------------------------
(***************************************************************************)
(* Proofs about LiveHandoff, for any panes, any bounds and whatever the    *)
(* actors and other servers do.                                            *)
(***************************************************************************)
EXTENDS LiveHandoff, TLAPS

-----------------------------------------------------------------------------
(* The inductive invariant.                                                *)

Before == {"serving", "pausingEmbedding", "pausingReceipt", "quiescing"}
Rebinding == {"bindingApi", "bindingClient"}
Withdrawing == {"withdrawApi", "withdrawClient", "awaitingReady"}
Closing == {"quiescingDb", "committing"}

\* The old server's public sockets are still in place.
Published == Before \cup {"duplicating", "accepting", "validating", "restoring",
                          "withdrawApi"}

\* The replacement has restored the session and was not given it.
Restored == {"awaitingClose", "bindingApi", "bindingClient"}
Ready == {"awaitingCommit", "expired"}
InCharge == {"installing", "assuming", "owner"}

\* How far the replacement can be when the old server is where it is.
Partners ==
  /\ old \in Before \cup Rebinding => new \in {"none", "dead"}
  /\ old \in {"duplicating", "accepting"} =>
       new \in {"connecting", "awaitingManifest", "dead"}
  /\ old = "validating" => new \in {"awaitingManifest", "awaitingFds", "dead"}
  /\ old = "restoring" =>
       new \in {"awaitingFds", "importing", "dead"} \cup Restored \cup Ready
  /\ old \in Withdrawing => new \in {"dead"} \cup Restored \cup Ready
  /\ old \in Closing => new \in {"dead"} \cup Ready
  /\ Committed => new \in {"dead"} \cup Ready \cup InCharge
  /\ new \in InCharge => Committed

\* What is on its way to the replacement.
StreamToNew ==
  /\ new \notin {"awaitingManifest", "awaitingFds", "awaitingCommit", "expired"}
       => Len(toNew) = 0
  /\ new = "awaitingManifest" =>
       /\ Len(toNew) <= 1
       /\ old = "validating" => Len(toNew) = 1
       /\ old \in {"duplicating", "accepting"} => Len(toNew) = 0
  /\ new = "awaitingFds" =>
       /\ Len(toNew) <= 1
       /\ old = "validating" => Len(toNew) = 0
  /\ new = "awaitingCommit" => Len(toNew) = IF Committed THEN 1 ELSE 0

\* What is on its way to the old server, as far as its next line goes.
StreamToOld ==
  OldAlive =>
    /\ new = "connecting" => Len(toOld) = 0
    /\ new = "awaitingManifest" =>
         Len(toOld) = IF old = "validating" THEN 0 ELSE 1
    /\ new = "awaitingFds" =>
         Len(toOld) = IF old = "validating" THEN 1 ELSE 0
    /\ new = "importing" => Len(toOld) = 0
    /\ new \in Restored => Len(toOld) = IF old = "restoring" THEN 1 ELSE 0

\* The record of faults is right.
FaultsTold ==
  /\ old = "crashed" <=>
       "oldBeforeCommit" \in faults \/ "oldAfterCommit" \in faults
  /\ ~("oldBeforeCommit" \in faults /\ "oldAfterCommit" \in faults)
  /\ new = "expired" => "expired" \in faults
  /\ Committed /\ new = "dead" => faults \cap {"newAfterCommit", "expired"} # {}

ProtocolInv == Partners /\ StreamToNew /\ StreamToOld /\ FaultsTold

\* Where each server's actors are, and that nobody ended a process.
OldPanes ==
  \A p \in Panes :
    /\ p \notin open => pane["old"][p] = "none"
    /\ p \in open =>
         /\ old \in {"serving", "pausingEmbedding", "pausingReceipt"} =>
              pane["old"][p] = "Running"
         /\ old = "quiescing" => pane["old"][p] \in {"Running", "Quiesced"}
         /\ old \in {"duplicating", "accepting", "validating", "restoring",
                     "draining"} \cup Withdrawing \cup Closing \cup Rebinding =>
              pane["old"][p] = "Quiesced"
         /\ old = "acknowledging" => pane["old"][p] = "Released"

NewPanes ==
  \A p \in Panes :
    pane["new"][p] =
      IF p \notin open
         \/ new \in {"none", "dead", "connecting", "awaitingManifest",
                     "awaitingFds"} THEN "none"
      ELSE IF new = "owner" THEN "Running" ELSE "Quiesced"

NoneEnded ==
  /\ killed = {}
  /\ ~preserve => Committed /\ new \in {"owner", "dead"}

PaneInv == OldPanes /\ NewPanes /\ NoneEnded

\* The workers of each server.
DbInv ==
  /\ old \in {"committing", "draining", "acknowledging", "gone"} =>
       \A w \in Workers : db["old"][w] = "absent"
  /\ old \in {"duplicating", "accepting", "validating", "restoring",
              "quiescingDb"} \cup Before \cup Withdrawing \cup Rebinding =>
       \A w \in Workers : db["old"][w] # "absent"
  /\ old = "serving" => paused = {}
  /\ old = "pausingReceipt" =>
       paused = Workers /\ db["old"]["embedding"] # "busy"
  /\ old \in {"quiescing", "duplicating", "accepting", "validating",
              "restoring", "quiescingDb"} \cup Withdrawing =>
       paused = Workers /\ \A w \in Workers : db["old"][w] # "busy"
  /\ old \in {"serving", "pausingEmbedding", "pausingReceipt"} => ~inProgress
  /\ ~Committed => \A w \in Workers : db["new"][w] = "absent"
  /\ new \in {"assuming", "owner"} =>
       \A w \in Workers : db["new"][w] # "absent"

\* The public sockets: the old server's until it withdraws them, unless
\* another server took one or binding failed; the replacement's from where
\* it bound them.
SockInv ==
  /\ \A k \in Sockets :
       /\ ident[k][2] <= attempts
       /\ old \notin {"serving", "crashed"} => ident[k][2] < attempts
  /\ (\E k \in Sockets : sock[k][1] = "other") \/ "bind" \in faults
     \/ (old \in Published => \A k \in Sockets : sock[k] = ident[k])
  /\ old = "bindingClient" => sock["api"] = <<"old", attempts>>
  /\ new = "bindingClient" => sock["api"] = <<"new", attempts>>
  /\ new \in Ready \cup InCharge =>
       \A k \in Sockets : sock[k] = <<"new", attempts>>

IInv == TypeOK /\ ProtocolInv /\ PaneInv /\ DbInv /\ SockInv

-----------------------------------------------------------------------------
(* Operators.                                                              *)

\* What writing and reading a line does to a stream.
LEMMA Streams ==
  /\ \A s \in Seq(Lines) : Len(s) \in Nat /\ (s = <<>> <=> Len(s) = 0)
  /\ \A s \in Seq(Lines), l \in Lines :
       Append(s, l) \in Seq(Lines) /\ Len(Append(s, l)) = Len(s) + 1
  /\ \A s \in Seq(Lines) :
       s # <<>> => Tail(s) \in Seq(Lines) /\ Len(Tail(s)) = Len(s) - 1
  /\ <<>> \in Seq(Lines) /\ Len(<<>>) = 0
OBVIOUS

\* Reading the only line of a stream.
LEMMA ReadLast ==
  ASSUME NEW s \in Seq(Lines), s # <<>>, Len(s) <= 1
  PROVE  Len(Tail(s)) = 0
<1>1. Len(s) \in Nat /\ Len(s) # 0
  OBVIOUS
<1>2. Len(Tail(s)) = Len(s) - 1
  OBVIOUS
<1>3. \A n \in Nat : n # 0 /\ n <= 1 => n - 1 = 0
  OBVIOUS
<1> QED
  BY <1>1, <1>2, <1>3

\* What a rollback leaves behind.
LEMMA Rollback ==
  ASSUME NEW S, RollbackBeforeCommit(S), TypeOK, S \subseteq Panes
  PROVE  /\ pane' \in [Servers -> [Panes -> {"none", "Running", "Quiesced",
                                             "Released"}]]
         /\ \A q \in Panes :
              /\ pane'["old"][q] = IF q \in S THEN "Running" ELSE pane["old"][q]
              /\ pane'["new"][q] = "none"
         /\ deaf' \subseteq Panes
         /\ paused' = {} /\ inProgress' = FALSE /\ old' = "serving"
BY DEF RollbackBeforeCommit, TypeOK, Servers

\* Removing a socket file that is its own.
LEMMA Unlinking ==
  ASSUME NEW f \in [Sockets -> {NoFile} \cup
                     {"old", "new", "other"} \X (0 .. MaxHandoffs)],
         NEW k \in Sockets, NEW id
  PROVE  /\ Unlinked(f, k, id) \in [Sockets -> {NoFile} \cup
                     {"old", "new", "other"} \X (0 .. MaxHandoffs)]
         /\ \A j \in Sockets :
              Unlinked(f, k, id)[j] =
                IF j = k /\ f[k] = id THEN NoFile ELSE f[j]
BY DEF Unlinked

-----------------------------------------------------------------------------
(* Type correctness.                                                       *)

\* Every step of the old server preserves the types.
LEMMA OldTypes ==
  ASSUME TypeOK, OldStep
  PROVE  TypeOK'
<1> USE BoundsAssumption, Streams
    DEF streamVars, paneVars, sockVars, dbVars, restVars
<1>1. CASE EmbeddingPaused \/ ReceiptPaused \/ PauseDeadline
  BY <1>1 DEF EmbeddingPaused, ReceiptPaused, PauseDeadline, TypeOK, OldStates,
       Workers
<1>2. ASSUME NEW p \in Panes, QuiescePane(p)
      PROVE  TypeOK'
  BY <1>2 DEF QuiescePane, TypeOK, Servers
<1>3. ASSUME NEW p \in Panes, QuiesceFails(p)
      PROVE  TypeOK'
  BY <1>3, Rollback DEF QuiesceFails, QuiescedPanes, TypeOK, OldStates
<1>4. CASE SpawnImport \/ DuplicateFds \/ AcceptImport \/ SendFds
           \/ RuntimesRestored \/ ReplacementReady
  <2> USE DEF TypeOK, OldStates, NewStates, Lines
  <2>1. CASE SpawnImport
    BY <2>1 DEF SpawnImport
  <2>2. CASE DuplicateFds
    BY <2>2 DEF DuplicateFds
  <2>3. CASE AcceptImport
    BY <2>3 DEF AcceptImport
  <2>4. CASE SendFds
    BY <2>4 DEF SendFds
  <2>5. CASE RuntimesRestored
    BY <2>5 DEF RuntimesRestored
  <2>6. CASE ReplacementReady
    BY <2>6 DEF ReplacementReady
  <2> QED
    BY <1>4, <2>1, <2>2, <2>3, <2>4, <2>5, <2>6
<1>5. CASE SpawnFails
  BY <1>5, Rollback DEF SpawnFails, QuiescedPanes, TypeOK, OldStates
<1>6. CASE HandoffFails
  BY <1>6, Rollback DEF HandoffFails, KillImport, QuiescedPanes, TypeOK,
       OldStates, NewStates
<1>7. CASE WithdrawApiSocket \/ WithdrawClientSocket \/ FinishHandoff
  <2> USE DEF TypeOK, OldStates, Sockets
  <2>1. CASE WithdrawApiSocket
    BY <2>1, Unlinking DEF WithdrawApiSocket
  <2>2. CASE WithdrawClientSocket
    BY <2>2, Unlinking DEF WithdrawClientSocket
  <2>3. CASE FinishHandoff
    BY <2>3, Unlinking DEF FinishHandoff
  <2> QED
    BY <1>7, <2>1, <2>2, <2>3
<1>8. CASE ReadyFails \/ CommitFails
  <2> USE DEF TypeOK, OldStates, NewStates, Servers, KillImport
  <2>1. CASE ReadyFails
    BY <2>1 DEF ReadyFails
  <2>2. CASE CommitFails
    BY <2>2 DEF CommitFails
  <2> QED
    BY <1>8, <2>1, <2>2
<1>9. CASE QuiesceDbWorkers \/ ReportCommitted \/ DrainRuntimes
  <2> USE DEF TypeOK, OldStates, Servers, Lines
  <2>1. CASE QuiesceDbWorkers
    BY <2>1 DEF QuiesceDbWorkers
  <2>2. CASE ReportCommitted
    BY <2>2 DEF ReportCommitted
  <2>3. CASE DrainRuntimes
    BY <2>3 DEF DrainRuntimes
  <2> QED
    BY <1>9, <2>1, <2>2, <2>3
<1>10. CASE RestoreApiSocket
  BY <1>10 DEF RestoreApiSocket, TypeOK, OldStates, Sockets
<1>11. CASE RestoreClientSocket
  BY <1>11, Rollback, Unlinking DEF RestoreClientSocket, QuiescedPanes, TypeOK,
       OldStates, Sockets
<1>12. CASE RestoreFails
  BY <1>12, Rollback, Unlinking DEF RestoreFails, QuiescedPanes, TypeOK,
       OldStates, Sockets
<1> QED
  BY <1>1, <1>2, <1>3, <1>4, <1>5, <1>6, <1>7, <1>8, <1>9, <1>10, <1>11, <1>12
     DEF OldStep

\* So does every other step.
LEMMA OtherTypes ==
  ASSUME TypeOK, Next, ~OldStep
  PROVE  TypeOK'
<1> USE BoundsAssumption, Streams
    DEF streamVars, paneVars, sockVars, dbVars, restVars
<1>1. ASSUME NEW p \in Panes, OpenPane(p)
      PROVE  TypeOK'
  BY <1>1 DEF OpenPane, TypeOK, Servers
<1>2. CASE RefuseHandoff \/ BeginHandoff
  <2> USE DEF TypeOK, OldStates, Workers
  <2>1. CASE RefuseHandoff
    BY <2>1 DEF RefuseHandoff
  <2>2. CASE BeginHandoff
    BY <2>2 DEF BeginHandoff
  <2> QED
    BY <1>2, <2>1, <2>2
<1>3. CASE Connect \/ AcceptManifest \/ RejectManifest \/ ReportRestored
           \/ OldSocketsClosed \/ ReadCommitted
  <2> USE DEF TypeOK, NewStates, Lines
  <2>1. CASE Connect
    BY <2>1 DEF Connect
  <2>2. CASE AcceptManifest
    BY <2>2 DEF AcceptManifest
  <2>3. CASE RejectManifest
    BY <2>3 DEF RejectManifest
  <2>4. CASE ReportRestored
    BY <2>4 DEF ReportRestored
  <2>5. CASE OldSocketsClosed
    BY <2>5 DEF OldSocketsClosed
  <2>6. CASE ReadCommitted
    BY <2>6 DEF ReadCommitted
  <2> QED
    BY <1>3, <2>1, <2>2, <2>3, <2>4, <2>5, <2>6
<1>4. CASE ReceiveFds
  BY <1>4 DEF ReceiveFds, TypeOK, NewStates, Servers
<1>5. CASE BindApiSocket \/ BindClientSocket
  <2> USE DEF TypeOK, NewStates, Lines, Sockets
  <2>1. CASE BindApiSocket
    BY <2>1 DEF BindApiSocket
  <2>2. CASE BindClientSocket
    BY <2>2 DEF BindClientSocket
  <2> QED
    BY <1>5, <2>1, <2>2
<1>6. CASE InstallDbWorkers
  BY <1>6 DEF InstallDbWorkers, TypeOK, NewStates, Servers
<1>7. CASE AssumeOwnership
  <2>1. toOld' \in Seq(Lines)
    BY <1>7 DEF AssumeOwnership, TypeOK, Lines
  <2>2. pane' \in [Servers -> [Panes -> {"none", "Running", "Quiesced",
                                         "Released"}]]
    BY <1>7 DEF AssumeOwnership, TypeOK, Servers
  <2>3. deaf' \subseteq Panes
    BY <1>7 DEF AssumeOwnership, TypeOK
  <2> QED
    BY <1>7, <2>1, <2>2, <2>3 DEF AssumeOwnership, TypeOK, NewStates
<1>8. CASE ImportFails
  BY <1>8 DEF ImportFails, ExitNew, TypeOK, NewStates, Servers
<1>9. ASSUME NEW s \in Servers, NEW w \in Workers,
             StartUnit(s, w) \/ FinishUnit(s, w)
      PROVE  TypeOK'
  <2>1. db' \in [Servers -> [Workers -> {"absent", "idle", "busy"}]]
    <3>1. /\ db \in [Servers -> [Workers -> {"absent", "idle", "busy"}]]
          /\ db[s] \in [Workers -> {"absent", "idle", "busy"}]
      BY DEF TypeOK
    <3>2. \E v \in {"idle", "busy"} : db' = [db EXCEPT ![s][w] = v]
      BY <1>9 DEF StartUnit, FinishUnit
    <3> QED
      BY <3>1, <3>2
  <2> QED
    BY <1>9, <2>1 DEF StartUnit, FinishUnit, TypeOK
<1>10. CASE CommitExpires \/ CrashOld
  BY <1>10 DEF CommitExpires, CrashOld, TypeOK, OldStates, NewStates
<1>11. CASE CrashNew
  BY <1>11 DEF CrashNew, TypeOK, NewStates, Servers
<1>12. ASSUME NEW k \in Sockets, OtherServerBinds(k)
       PROVE  TypeOK'
  BY <1>12 DEF OtherServerBinds, TypeOK
<1> QED
  BY <1>1, <1>2, <1>3, <1>4, <1>5, <1>6, <1>7, <1>8, <1>9, <1>10, <1>11, <1>12
     DEF Next, NewStep

\* The initial states satisfy the inductive invariant.
LEMMA InitIInv == Init => IInv
<1> SUFFICES ASSUME Init PROVE IInv
  OBVIOUS
<1> USE BoundsAssumption, Streams DEF Init
<1>1. TypeOK
  <2>1. /\ sock \in [Sockets ->
             {NoFile} \cup {"old", "new", "other"} \X (0 .. MaxHandoffs)]
        /\ ident \in [Sockets -> {"old"} \X (0 .. MaxHandoffs)]
    OBVIOUS
  <2>2. /\ db \in [Servers -> [Workers -> {"absent", "idle", "busy"}]]
        /\ pane \in [Servers -> [Panes -> {"none", "Running", "Quiesced",
                                           "Released"}]]
    OBVIOUS
  <2>3. toOld \in Seq(Lines) /\ toNew \in Seq(Lines)
    OBVIOUS
  <2>4. preserve \in BOOLEAN /\ inProgress \in BOOLEAN
    OBVIOUS
  <2>5. attempts \in 0 .. MaxHandoffs
    OBVIOUS
  <2> HIDE Streams, BoundsAssumption
  <2> QED
    BY <2>1, <2>2, <2>3, <2>4, <2>5 DEF TypeOK, OldStates, NewStates
<1>2. ProtocolInv
  BY DEF ProtocolInv, Partners, StreamToNew, StreamToOld, FaultsTold, Committed,
         Before, Rebinding, Withdrawing, Closing, Restored, Ready, InCharge
<1>3. PaneInv
  BY DEF PaneInv, OldPanes, NewPanes, NoneEnded, Servers, Withdrawing, Closing,
         Rebinding
<1>4. DbInv
  BY DEF DbInv, Servers, Committed, Before, Withdrawing, Rebinding
<1>5. SockInv
  BY DEF SockInv, Sockets, Published, Before, Ready, InCharge
<1> QED
  BY <1>1, <1>2, <1>3, <1>4, <1>5 DEF IInv

-----------------------------------------------------------------------------
(* The protocol.                                                           *)

\* Every step of the old server keeps the two ends in step.
LEMMA OldProtocol ==
  ASSUME TypeOK, ProtocolInv, OldStep
  PROVE  ProtocolInv'
<1> USE Streams
    DEF ProtocolInv, Partners, StreamToNew, StreamToOld, FaultsTold, Committed,
        OldAlive, NewAlive, Before, Rebinding, Withdrawing, Closing, Restored,
        Ready, InCharge, streamVars, restVars
<1>0. toOld \in Seq(Lines) /\ toNew \in Seq(Lines)
  BY DEF TypeOK
<1>1. CASE EmbeddingPaused \/ ReceiptPaused \/ PauseDeadline
  BY <1>1 DEF EmbeddingPaused, ReceiptPaused, PauseDeadline
<1>2. ASSUME NEW p \in Panes, QuiescePane(p)
      PROVE  ProtocolInv'
  BY <1>2 DEF QuiescePane
<1>3. ASSUME NEW p \in Panes, QuiesceFails(p)
      PROVE  ProtocolInv'
  BY <1>3 DEF QuiesceFails, RollbackBeforeCommit
<1>4. CASE SpawnImport
  BY <1>4 DEF SpawnImport
<1>5. CASE SpawnFails
  BY <1>5 DEF SpawnFails, RollbackBeforeCommit
<1>6. CASE DuplicateFds
  BY <1>6 DEF DuplicateFds
<1>7. CASE AcceptImport
  BY <1>0, <1>7 DEF AcceptImport, Lines
<1>8. CASE SendFds
  BY <1>0, <1>8 DEF SendFds, Lines
<1>9. CASE RuntimesRestored
  BY <1>0, <1>9 DEF RuntimesRestored
<1>10. CASE HandoffFails
  BY <1>10 DEF HandoffFails, KillImport, RollbackBeforeCommit
<1>11. CASE WithdrawApiSocket \/ WithdrawClientSocket
  BY <1>11 DEF WithdrawApiSocket, WithdrawClientSocket
<1>12. CASE ReplacementReady
  BY <1>0, <1>12 DEF ReplacementReady
<1>13. CASE ReadyFails \/ CommitFails
  BY <1>13 DEF ReadyFails, CommitFails, KillImport
<1>14. CASE QuiesceDbWorkers
  BY <1>14 DEF QuiesceDbWorkers
<1>15. CASE ReportCommitted
  BY <1>0, <1>15 DEF ReportCommitted, Lines
<1>16. CASE RestoreApiSocket
  BY <1>16 DEF RestoreApiSocket
<1>17. CASE RestoreClientSocket \/ RestoreFails
  BY <1>17 DEF RestoreClientSocket, RestoreFails, RollbackBeforeCommit
<1>18. CASE DrainRuntimes \/ FinishHandoff
  BY <1>18 DEF DrainRuntimes, FinishHandoff
<1> QED
  BY <1>1, <1>2, <1>3, <1>4, <1>5, <1>6, <1>7, <1>8, <1>9, <1>10, <1>11,
     <1>12, <1>13, <1>14, <1>15, <1>16, <1>17, <1>18
     DEF OldStep

\* So does every other step.
LEMMA OtherProtocol ==
  ASSUME TypeOK, ProtocolInv, Next, ~OldStep
  PROVE  ProtocolInv'
<1> USE Streams
    DEF ProtocolInv, Partners, StreamToNew, StreamToOld, FaultsTold, Committed,
        OldAlive, NewAlive, Before, Rebinding, Withdrawing, Closing, Restored,
        Ready, InCharge, streamVars, restVars
<1>0. toOld \in Seq(Lines) /\ toNew \in Seq(Lines)
  BY DEF TypeOK
<1>1. ASSUME NEW p \in Panes, OpenPane(p)
      PROVE  ProtocolInv'
  BY <1>1 DEF OpenPane
<1>2. CASE RefuseHandoff \/ BeginHandoff
  BY <1>2 DEF RefuseHandoff, BeginHandoff
<1>3. CASE Connect
  BY <1>0, <1>3 DEF Connect, Lines, TypeOK, OldStates
<1>4. CASE AcceptManifest
  BY <1>0, <1>4 DEF AcceptManifest, Lines, TypeOK, OldStates
<1>5. CASE RejectManifest
  <2>1. ~Committed /\ Len(toNew) <= 1
    BY <1>5 DEF RejectManifest
  <2>2. Len(toNew') = 0
    BY <1>0, <1>5, <2>1, ReadLast DEF RejectManifest
  <2> QED
    BY <1>5, <2>1, <2>2 DEF RejectManifest
<1>6. CASE ReceiveFds
  <2>1. ~Committed /\ Len(toNew) <= 1
    BY <1>6 DEF ReceiveFds
  <2>2. Len(toNew') = 0
    BY <1>0, <1>6, <2>1, ReadLast DEF ReceiveFds
  <2> QED
    BY <1>6, <2>1, <2>2 DEF ReceiveFds
<1>7. CASE ReportRestored
  BY <1>0, <1>7 DEF ReportRestored, Lines, TypeOK, OldStates
<1>8. CASE OldSocketsClosed \/ BindApiSocket
  BY <1>8 DEF OldSocketsClosed, BindApiSocket
<1>9. CASE BindClientSocket
  BY <1>0, <1>9 DEF BindClientSocket, Lines
<1>10. CASE ReadCommitted
  BY <1>0, <1>10 DEF ReadCommitted
<1>11. CASE InstallDbWorkers \/ AssumeOwnership
  BY <1>11 DEF InstallDbWorkers, AssumeOwnership
<1>12. CASE ImportFails
  <2>1. new # "expired" => ~Committed
    <3>1. CASE new = "awaitingCommit"
      <4>1. Len(toNew) = 0
        BY <1>0, <1>12, <3>1 DEF ImportFails
      <4> QED
        BY <3>1, <4>1
    <3>2. CASE new # "awaitingCommit"
      BY <1>12, <3>2 DEF ImportFails
    <3> QED
      BY <3>1, <3>2
  <2>2. new \notin InCharge /\ NewAlive
    BY <1>12 DEF ImportFails
  <2>3. /\ new' = "dead" /\ Len(toNew') = 0
        /\ UNCHANGED <<old, toOld, faults>>
    BY <1>12 DEF ImportFails, ExitNew
  <2> QED
    BY <2>1, <2>2, <2>3
<1>13. ASSUME NEW s \in Servers, NEW w \in Workers,
              StartUnit(s, w) \/ FinishUnit(s, w)
       PROVE  ProtocolInv'
  BY <1>13 DEF StartUnit, FinishUnit
<1>14. CASE CommitExpires
  BY <1>14 DEF CommitExpires
<1>15. CASE CrashOld
  BY <1>15 DEF CrashOld
<1>16. CASE CrashNew
  BY <1>16 DEF CrashNew
<1>17. ASSUME NEW k \in Sockets, OtherServerBinds(k)
       PROVE  ProtocolInv'
  BY <1>17 DEF OtherServerBinds
<1> QED
  BY <1>1, <1>2, <1>3, <1>4, <1>5, <1>6, <1>7, <1>8, <1>9, <1>10, <1>11,
     <1>12, <1>13, <1>14, <1>15, <1>16, <1>17
     DEF Next, NewStep

-----------------------------------------------------------------------------
(* The panes.                                                              *)

\* A rollback of what was quiesced has every open pane read again.
LEMMA RolledBack ==
  ASSUME TypeOK, OldPanes, NEW S, QuiescedPanes \subseteq S, S \subseteq open,
         \A p \in open : pane["old"][p] \in {"Running", "Quiesced"},
         RollbackBeforeCommit(S), open' = open
  PROVE  \A p \in Panes :
           /\ pane'["old"][p] = IF p \in open THEN "Running" ELSE "none"
           /\ pane'["new"][p] = "none"
<1>1. S \subseteq Panes
  BY DEF TypeOK
<1>2. \A q \in Panes :
        /\ pane'["old"][q] = IF q \in S THEN "Running" ELSE pane["old"][q]
        /\ pane'["new"][q] = "none"
  BY <1>1, Rollback
<1> QED
  BY <1>1, <1>2 DEF QuiescedPanes, OldPanes

\* Every step of the old server keeps the actors where the protocol has them.
LEMMA OldPaneStep ==
  ASSUME TypeOK, ProtocolInv, PaneInv, OldStep
  PROVE  PaneInv'
<1> USE DEF ProtocolInv, Partners, PaneInv, OldPanes, NewPanes, NoneEnded,
        Committed, NewAlive, Before, Rebinding, Withdrawing, Closing, Restored,
        Ready, InCharge, paneVars, restVars, Servers
<1>0. /\ pane \in [Servers -> [Panes -> {"none", "Running", "Quiesced",
                                         "Released"}]]
      /\ open \subseteq Panes
  BY DEF TypeOK
<1>1. CASE EmbeddingPaused \/ ReceiptPaused \/ PauseDeadline
  BY <1>1 DEF EmbeddingPaused, ReceiptPaused, PauseDeadline
<1>2. ASSUME NEW p \in Panes, QuiescePane(p)
      PROVE  PaneInv'
  BY <1>0, <1>2 DEF QuiescePane
<1>3. ASSUME NEW p \in Panes, QuiesceFails(p)
      PROVE  PaneInv'
  <2>1. QuiescedPanes \cup {p} \subseteq open
    BY <1>0, <1>3 DEF QuiescedPanes, QuiesceFails
  <2>2. \A q \in open : pane["old"][q] \in {"Running", "Quiesced"}
    BY <1>0, <1>3 DEF QuiesceFails
  <2>3. \A q \in Panes :
          /\ pane'["old"][q] = IF q \in open THEN "Running" ELSE "none"
          /\ pane'["new"][q] = "none"
    BY <1>3, <2>1, <2>2, RolledBack DEF QuiesceFails
  <2> QED
    BY <1>3, <2>3 DEF QuiesceFails, RollbackBeforeCommit
<1>4. CASE SpawnImport
  <2>1. \A p \in open : pane["old"][p] = "Quiesced"
    BY <1>4 DEF SpawnImport, QuiescedPanes
  <2> QED
    BY <1>0, <1>4, <2>1 DEF SpawnImport, FaultsTold
<1>5. CASE SpawnFails
  BY <1>0, <1>5, Rollback DEF SpawnFails, QuiescedPanes
<1>6. CASE DuplicateFds \/ AcceptImport \/ SendFds \/ RuntimesRestored
           \/ WithdrawApiSocket \/ WithdrawClientSocket \/ ReplacementReady
           \/ QuiesceDbWorkers \/ ReportCommitted \/ RestoreApiSocket
           \/ FinishHandoff
  BY <1>6 DEF DuplicateFds, AcceptImport, SendFds, RuntimesRestored,
       WithdrawApiSocket, WithdrawClientSocket, ReplacementReady,
       QuiesceDbWorkers, ReportCommitted, RestoreApiSocket, FinishHandoff
<1>7. CASE HandoffFails
  <2>1. QuiescedPanes \subseteq open
    BY <1>0 DEF QuiescedPanes
  <2>2. \A q \in open : pane["old"][q] \in {"Running", "Quiesced"}
    BY <1>0, <1>7 DEF HandoffFails
  <2>3. \A q \in Panes :
          /\ pane'["old"][q] = IF q \in open THEN "Running" ELSE "none"
          /\ pane'["new"][q] = "none"
    BY <1>7, <2>1, <2>2, RolledBack DEF HandoffFails
  <2> QED
    BY <1>7, <2>3 DEF HandoffFails, RollbackBeforeCommit, KillImport
<1>8. CASE ReadyFails \/ CommitFails
  BY <1>0, <1>8 DEF ReadyFails, CommitFails, KillImport
<1>9. CASE RestoreClientSocket \/ RestoreFails
  <2>1. QuiescedPanes \subseteq open
    BY <1>0 DEF QuiescedPanes
  <2>2. \A q \in open : pane["old"][q] \in {"Running", "Quiesced"}
    BY <1>0, <1>9 DEF RestoreClientSocket, RestoreFails
  <2>3. \A q \in Panes :
          /\ pane'["old"][q] = IF q \in open THEN "Running" ELSE "none"
          /\ pane'["new"][q] = "none"
    BY <1>9, <2>1, <2>2, RolledBack DEF RestoreClientSocket, RestoreFails
  <2> QED
    BY <1>9, <2>3 DEF RestoreClientSocket, RestoreFails, RollbackBeforeCommit
<1>10. CASE DrainRuntimes
  BY <1>0, <1>10 DEF DrainRuntimes
<1> QED
  BY <1>1, <1>2, <1>3, <1>4, <1>5, <1>6, <1>7, <1>8, <1>9, <1>10
     DEF OldStep

\* So does every other step.
LEMMA OtherPaneStep ==
  ASSUME TypeOK, ProtocolInv, PaneInv, Next, ~OldStep
  PROVE  PaneInv'
<1> USE DEF ProtocolInv, Partners, PaneInv, OldPanes, NewPanes, NoneEnded,
        Committed, OldAlive, NewAlive, Before, Rebinding, Withdrawing, Closing,
        Restored, Ready, InCharge, paneVars, restVars, Servers
<1>0. /\ pane \in [Servers -> [Panes -> {"none", "Running", "Quiesced",
                                         "Released"}]]
      /\ open \subseteq Panes
  BY DEF TypeOK
<1>1. ASSUME NEW p \in Panes, OpenPane(p)
      PROVE  PaneInv'
  BY <1>0, <1>1 DEF OpenPane
<1>2. CASE RefuseHandoff \/ BeginHandoff
  BY <1>2 DEF RefuseHandoff, BeginHandoff
<1>3. CASE Connect \/ AcceptManifest \/ RejectManifest \/ OldSocketsClosed
           \/ BindApiSocket \/ BindClientSocket \/ ReadCommitted
           \/ InstallDbWorkers \/ CommitExpires
  BY <1>3 DEF Connect, AcceptManifest, RejectManifest, OldSocketsClosed,
       BindApiSocket, BindClientSocket, ReadCommitted, InstallDbWorkers,
       CommitExpires
<1>4. CASE ReceiveFds
  BY <1>0, <1>4 DEF ReceiveFds
<1>5. CASE ReportRestored
  BY <1>5 DEF ReportRestored
<1>6. CASE AssumeOwnership
  BY <1>0, <1>6 DEF AssumeOwnership
<1>7. CASE ImportFails
  BY <1>0, <1>7 DEF ImportFails, ExitNew
<1>8. ASSUME NEW s \in Servers, NEW w \in Workers,
             StartUnit(s, w) \/ FinishUnit(s, w)
      PROVE  PaneInv'
  BY <1>8 DEF StartUnit, FinishUnit
<1>9. CASE CrashOld
  BY <1>9 DEF CrashOld
<1>10. CASE CrashNew
  BY <1>0, <1>10 DEF CrashNew
<1>11. ASSUME NEW k \in Sockets, OtherServerBinds(k)
       PROVE  PaneInv'
  BY <1>11 DEF OtherServerBinds
<1> QED
  BY <1>1, <1>2, <1>3, <1>4, <1>5, <1>6, <1>7, <1>8, <1>9, <1>10, <1>11
     DEF Next, NewStep

-----------------------------------------------------------------------------
(* The database workers.                                                   *)

\* Every step of the old server keeps the workers apart.
LEMMA OldDbStep ==
  ASSUME TypeOK, ProtocolInv, DbInv, OldStep
  PROVE  DbInv'
<1> USE DEF DbInv, ProtocolInv, Partners, FaultsTold, Committed, Before,
        Rebinding, Withdrawing, Closing, Restored, Ready, InCharge, dbVars,
        restVars
<1>0. db \in [Servers -> [Workers -> {"absent", "idle", "busy"}]]
      /\ "old" \in Servers /\ "new" \in Servers
      /\ "embedding" \in Workers /\ "receipt" \in Workers
      /\ \A w \in Workers : w = "embedding" \/ w = "receipt"
  BY DEF TypeOK, Servers, Workers
<1>1. CASE EmbeddingPaused \/ ReceiptPaused \/ PauseDeadline
  BY <1>0, <1>1 DEF EmbeddingPaused, ReceiptPaused, PauseDeadline
<1>2. ASSUME NEW p \in Panes, QuiescePane(p)
      PROVE  DbInv'
  BY <1>2 DEF QuiescePane
<1>3. ASSUME NEW p \in Panes, QuiesceFails(p)
      PROVE  DbInv'
  BY <1>3 DEF QuiesceFails, RollbackBeforeCommit
<1>4. CASE SpawnImport \/ DuplicateFds \/ AcceptImport \/ SendFds
           \/ RuntimesRestored \/ WithdrawApiSocket \/ WithdrawClientSocket
           \/ ReplacementReady
  BY <1>4 DEF SpawnImport, DuplicateFds, AcceptImport, SendFds,
       RuntimesRestored, WithdrawApiSocket, WithdrawClientSocket,
       ReplacementReady
<1>5. CASE SpawnFails \/ HandoffFails
  BY <1>5 DEF SpawnFails, HandoffFails, KillImport, RollbackBeforeCommit
<1>6. CASE ReadyFails
  BY <1>6 DEF ReadyFails, KillImport
<1>7. CASE QuiesceDbWorkers
  BY <1>0, <1>7 DEF QuiesceDbWorkers
<1>8. CASE ReportCommitted
  BY <1>8 DEF ReportCommitted
<1>9. CASE CommitFails
  BY <1>0, <1>9 DEF CommitFails, KillImport
<1>10. CASE RestoreApiSocket
  BY <1>10 DEF RestoreApiSocket
<1>11. CASE RestoreClientSocket \/ RestoreFails
  BY <1>11 DEF RestoreClientSocket, RestoreFails, RollbackBeforeCommit
<1>12. CASE DrainRuntimes \/ FinishHandoff
  BY <1>12 DEF DrainRuntimes, FinishHandoff
<1> QED
  BY <1>1, <1>2, <1>3, <1>4, <1>5, <1>6, <1>7, <1>8, <1>9, <1>10, <1>11, <1>12
     DEF OldStep

\* So does every other step.
LEMMA OtherDbStep ==
  ASSUME TypeOK, ProtocolInv, DbInv, Next, ~OldStep
  PROVE  DbInv'
<1> USE DEF DbInv, ProtocolInv, Partners, FaultsTold, Committed, OldAlive,
        Before, Rebinding, Withdrawing, Closing, Restored, Ready, InCharge,
        dbVars, restVars
<1>0. db \in [Servers -> [Workers -> {"absent", "idle", "busy"}]]
      /\ "old" \in Servers /\ "new" \in Servers
      /\ "embedding" \in Workers /\ "receipt" \in Workers
  BY DEF TypeOK, Servers, Workers
<1>1. ASSUME NEW p \in Panes, OpenPane(p)
      PROVE  DbInv'
  BY <1>1 DEF OpenPane
<1>2. CASE RefuseHandoff \/ BeginHandoff
  BY <1>2 DEF RefuseHandoff, BeginHandoff
<1>3. CASE Connect \/ AcceptManifest \/ RejectManifest \/ ReceiveFds
           \/ ReportRestored \/ OldSocketsClosed \/ BindApiSocket
           \/ BindClientSocket \/ ReadCommitted \/ CommitExpires
  BY <1>3 DEF Connect, AcceptManifest, RejectManifest, ReceiveFds,
       ReportRestored, OldSocketsClosed, BindApiSocket, BindClientSocket,
       ReadCommitted, CommitExpires
<1>4. CASE InstallDbWorkers
  BY <1>0, <1>4 DEF InstallDbWorkers
<1>5. CASE AssumeOwnership
  BY <1>5 DEF AssumeOwnership
<1>6. CASE ImportFails
  BY <1>6 DEF ImportFails, ExitNew
<1>7. ASSUME NEW s \in Servers, NEW w \in Workers, StartUnit(s, w)
      PROVE  DbInv'
  BY <1>0, <1>7 DEF StartUnit
<1>8. ASSUME NEW s \in Servers, NEW w \in Workers, FinishUnit(s, w)
      PROVE  DbInv'
  BY <1>0, <1>8 DEF FinishUnit
<1>9. CASE CrashOld
  BY <1>9 DEF CrashOld
<1>10. CASE CrashNew
  BY <1>10 DEF CrashNew
<1>11. ASSUME NEW k \in Sockets, OtherServerBinds(k)
       PROVE  DbInv'
  BY <1>11 DEF OtherServerBinds
<1> QED
  BY <1>1, <1>2, <1>3, <1>4, <1>5, <1>6, <1>7, <1>8, <1>9, <1>10, <1>11
     DEF Next, NewStep

-----------------------------------------------------------------------------
(* The public sockets.                                                     *)

\* A step that leaves the sockets alone, brings the old server to no state
\* that claims more of them and the replacement to none that bound more.
LEMMA SockFrame ==
  ASSUME SockInv, UNCHANGED <<sockVars, attempts>>,
         faults \subseteq faults',
         old \in {"serving", "crashed"} => old' \in {"serving", "crashed"},
         old' \in Published => old \in Published,
         old' = "bindingClient" => old = "bindingClient",
         new' = "bindingClient" => new = "bindingClient",
         new' \in Ready \cup InCharge => new \in Ready \cup InCharge
  PROVE  SockInv'
BY DEF SockInv, sockVars

\* Every step of the old server keeps the socket files with their owners.
LEMMA OldSockStep ==
  ASSUME TypeOK, ProtocolInv, SockInv, OldStep
  PROVE  SockInv'
<1> USE DEF Published, Before, Ready, InCharge, Committed, streamVars, restVars
<1>0. /\ sock \in [Sockets ->
           {NoFile} \cup {"old", "new", "other"} \X (0 .. MaxHandoffs)]
      /\ ident \in [Sockets -> {"old"} \X (0 .. MaxHandoffs)]
      /\ \A k \in Sockets : k = "api" \/ k = "client"
      /\ "api" \in Sockets /\ "client" \in Sockets
      /\ attempts \in 0 .. MaxHandoffs
  BY DEF TypeOK, Sockets
<1>1. CASE EmbeddingPaused \/ ReceiptPaused \/ PauseDeadline
  BY <1>1, SockFrame DEF EmbeddingPaused, ReceiptPaused, PauseDeadline
<1>2. ASSUME NEW p \in Panes, QuiescePane(p) \/ QuiesceFails(p)
      PROVE  SockInv'
  BY <1>2, SockFrame DEF QuiescePane, QuiesceFails, RollbackBeforeCommit
<1>3. CASE SpawnImport \/ SpawnFails \/ DuplicateFds \/ AcceptImport \/ SendFds
  BY <1>3, SockFrame DEF SpawnImport, SpawnFails, DuplicateFds, AcceptImport,
       SendFds, RollbackBeforeCommit
<1>4. CASE RuntimesRestored \/ HandoffFails \/ ReplacementReady \/ ReadyFails
  BY <1>4, SockFrame DEF RuntimesRestored, HandoffFails, ReplacementReady,
       ReadyFails, KillImport, RollbackBeforeCommit
<1>5. CASE QuiesceDbWorkers \/ ReportCommitted \/ CommitFails \/ DrainRuntimes
  BY <1>5, SockFrame DEF QuiesceDbWorkers, ReportCommitted, CommitFails,
       DrainRuntimes, KillImport
<1>6. CASE WithdrawApiSocket \/ WithdrawClientSocket \/ FinishHandoff
  <2>1. \A k \in Sockets : sock'[k] = sock[k] \/ sock[k] = ident[k]
    <3>1. CASE WithdrawApiSocket
      BY <1>0, <3>1, Unlinking DEF WithdrawApiSocket
    <3>2. CASE WithdrawClientSocket
      BY <1>0, <3>2, Unlinking DEF WithdrawClientSocket
    <3>3. CASE FinishHandoff
      <4> DEFINE f == Unlinked(sock, "api", ident["api"])
      <4>1. /\ f \in [Sockets -> {NoFile} \cup
                       {"old", "new", "other"} \X (0 .. MaxHandoffs)]
            /\ \A k \in Sockets : f[k] = sock[k] \/ sock[k] = ident[k]
        BY <1>0, Unlinking
      <4>2. sock' = Unlinked(f, "client", ident["client"])
        BY <3>3 DEF FinishHandoff
      <4> HIDE DEF f
      <4>3. \A k \in Sockets :
              sock'[k] = f[k] \/ (k = "client" /\ f[k] = ident[k])
        BY <1>0, <4>1, <4>2, Unlinking
      <4> QED BY <4>1, <4>3
    <3> QED BY <1>6, <3>1, <3>2, <3>3
  <2>2. \A k \in Sockets : ident[k][1] = "old"
    BY <1>0
  <2> QED
    BY <1>0, <1>6, <2>1, <2>2
       DEF SockInv, WithdrawApiSocket, WithdrawClientSocket, FinishHandoff
<1>7. CASE RestoreApiSocket
  BY <1>0, <1>7 DEF RestoreApiSocket, SockInv, ProtocolInv, Partners, Rebinding
<1>8. CASE RestoreClientSocket
  <2> USE <1>8 DEF RestoreClientSocket
  <2>1. sock["api"] = <<"old", attempts>> /\ ident["api"][2] < attempts
    BY <1>0 DEF SockInv
  <2>2. sock["api"] # ident["api"]
    BY <1>0, <2>1
  <2>3. \A k \in Sockets : sock'[k] = <<"old", attempts>>
    BY <1>0, <2>1, <2>2 DEF Unlinked
  <2>4. /\ \A k \in Sockets : ident'[k] = <<"old", attempts>>
        /\ UNCHANGED <<attempts, new>> /\ old' = "serving"
    BY DEF RollbackBeforeCommit
  <2>5. new \in {"none", "dead"}
    BY DEF ProtocolInv, Partners, Rebinding
  <2> HIDE <1>8
  <2> QED
    BY <1>0, <2>3, <2>4, <2>5 DEF SockInv
<1>9. CASE RestoreFails
  BY <1>0, <1>9, Unlinking DEF RestoreFails, RollbackBeforeCommit, Listening,
       NewAlive, SockInv, ProtocolInv, Partners, Rebinding
<1> QED
  BY <1>1, <1>2, <1>3, <1>4, <1>5, <1>6, <1>7, <1>8, <1>9 DEF OldStep

\* So does every other step.
LEMMA OtherSockStep ==
  ASSUME TypeOK, ProtocolInv, SockInv, Next, ~OldStep
  PROVE  SockInv'
<1> USE DEF Published, Before, Ready, InCharge, Committed, streamVars, restVars
<1>0. /\ sock \in [Sockets ->
           {NoFile} \cup {"old", "new", "other"} \X (0 .. MaxHandoffs)]
      /\ ident \in [Sockets -> {"old"} \X (0 .. MaxHandoffs)]
      /\ \A k \in Sockets : k = "api" \/ k = "client"
      /\ "api" \in Sockets /\ "client" \in Sockets
      /\ attempts \in 0 .. MaxHandoffs
      /\ \A k \in Sockets : ident[k][1] = "old" /\ ident[k][2] \in Nat
  BY DEF TypeOK, Sockets
<1>1. ASSUME NEW p \in Panes, OpenPane(p)
      PROVE  SockInv'
  BY <1>1, SockFrame DEF OpenPane
<1>2. CASE RefuseHandoff \/ BeginHandoff
  BY <1>0, <1>2 DEF RefuseHandoff, BeginHandoff, SockInv, sockVars,
       ProtocolInv, Partners
<1>3. CASE Connect \/ AcceptManifest \/ RejectManifest \/ ReceiveFds
           \/ ReportRestored \/ OldSocketsClosed \/ ReadCommitted
           \/ InstallDbWorkers \/ AssumeOwnership \/ CommitExpires
  BY <1>3, SockFrame DEF Connect, AcceptManifest, RejectManifest, ReceiveFds,
       ReportRestored, OldSocketsClosed, ReadCommitted, InstallDbWorkers,
       AssumeOwnership, CommitExpires
<1>4. CASE BindApiSocket
  BY <1>0, <1>4 DEF BindApiSocket, Listening, OldAlive, SockInv
<1>5. CASE BindClientSocket
  BY <1>0, <1>5 DEF BindClientSocket, Listening, OldAlive, SockInv
<1>6. CASE ImportFails
  BY <1>0, <1>6 DEF ImportFails, ExitNew, SockInv, sockVars
<1>7. ASSUME NEW s \in Servers, NEW w \in Workers,
             StartUnit(s, w) \/ FinishUnit(s, w)
      PROVE  SockInv'
  BY <1>7, SockFrame DEF StartUnit, FinishUnit
<1>8. CASE CrashOld \/ CrashNew
  BY <1>8, SockFrame DEF CrashOld, CrashNew
<1>9. ASSUME NEW k \in Sockets, OtherServerBinds(k)
      PROVE  SockInv'
  BY <1>0, <1>9 DEF OtherServerBinds, Listening, OldAlive, NewAlive, SockInv
<1> QED
  BY <1>1, <1>2, <1>3, <1>4, <1>5, <1>6, <1>7, <1>8, <1>9 DEF Next, NewStep

-----------------------------------------------------------------------------
(* The theorems.                                                           *)

\* Every step preserves the inductive invariant.
LEMMA NextIInv == IInv /\ [Next]_vars => IInv'
<1> SUFFICES ASSUME IInv, [Next]_vars PROVE IInv'
  OBVIOUS
<1> USE DEF IInv
<1>1. CASE UNCHANGED vars
  <2>1. TypeOK'
    BY <1>1 DEF vars, TypeOK
  <2>2. ProtocolInv'
    BY <1>1 DEF vars, ProtocolInv, Partners, StreamToNew, StreamToOld,
         FaultsTold, Committed, OldAlive
  <2>3. PaneInv'
    BY <1>1 DEF vars, PaneInv, OldPanes, NewPanes, NoneEnded, Committed
  <2>4. DbInv' /\ SockInv'
    BY <1>1 DEF vars, DbInv, SockInv, Committed
  <2> QED
    BY <2>1, <2>2, <2>3, <2>4
<1>2. CASE OldStep
  BY <1>2, OldTypes, OldProtocol, OldPaneStep, OldDbStep, OldSockStep
<1>3. CASE Next /\ ~OldStep
  BY <1>3, OtherTypes, OtherProtocol, OtherPaneStep, OtherDbStep, OtherSockStep
<1> QED
  BY <1>1, <1>2, <1>3

\* The inductive invariant holds in every reachable state.
THEOREM Invariance == Spec => []IInv
BY InitIInv, NextIInv, PTL DEF Spec

\* Panes and database work have one active owner.
LEMMA IInvOneOwner == IInv => OneOwner
<1> SUFFICES ASSUME IInv PROVE OneOwner
  OBVIOUS
<1> USE DEF IInv, ProtocolInv, Partners, FaultsTold, Committed, OldAlive,
        NewAlive, Before, Rebinding, Withdrawing, Closing, Restored, Ready,
        InCharge
<1>1. OneReader
  <2> SUFFICES ASSUME NEW p \in Panes, NewAlive, pane["new"][p] = "Running",
                      OldAlive
               PROVE  pane["old"][p] # "Running"
    BY DEF OneReader
  <2>1. new = "owner" /\ p \in open
    BY DEF PaneInv, NewPanes
  <2>2. old \in {"draining", "acknowledging"}
    BY <2>1
  <2> QED
    BY <2>1, <2>2 DEF PaneInv, OldPanes
<1>2. OneDbOwner
  BY DEF OneDbOwner, DbInv, TypeOK, OldStates
<1>3. QuietUntilCommit
  BY DEF QuietUntilCommit, DbInv
<1> QED
  BY <1>1, <1>2, <1>3 DEF OneOwner

\* No pane is lost, and whoever is left is complete.
LEMMA IInvSurvivor == IInv => SurvivorIsWhole
<1> SUFFICES ASSUME IInv PROVE SurvivorIsWhole
  OBVIOUS
<1> USE DEF IInv, ProtocolInv, Partners, FaultsTold, Committed, OldAlive,
        NewAlive, Before, Rebinding, Withdrawing, Closing, Restored, Ready,
        InCharge, Published
<1>1. PanesSurvive
  <2> SUFFICES ASSUME NEW p \in open
               PROVE  /\ p \notin killed
                      /\ \/ Held(p)
                         \/ "oldBeforeCommit" \in faults
                         \/ /\ Committed
                            /\ faults \cap {"newAfterCommit", "expired"} # {}
    BY DEF PanesSurvive
  <2>0. p \in Panes /\ killed = {}
    BY DEF TypeOK, PaneInv, NoneEnded
  <2>1. CASE old \in {"acknowledging", "gone"} \/ "oldAfterCommit" \in faults
    <3>1. CASE new = "dead"
      BY <2>0, <2>1, <3>1
    <3>2. CASE new # "dead"
      <4>1. NewAlive /\ pane["new"][p] # "none"
        BY <2>0, <2>1, <3>2 DEF PaneInv, NewPanes
      <4> QED
        BY <2>0, <4>1 DEF Held
    <3> QED
      BY <3>1, <3>2
  <2>2. CASE OldAlive /\ old # "acknowledging"
    <3>1. pane["old"][p] \in {"Running", "Quiesced"}
      BY <2>0, <2>2 DEF PaneInv, OldPanes, TypeOK, OldStates
    <3> QED
      BY <2>0, <2>2, <3>1 DEF Held
  <2>3. CASE "oldBeforeCommit" \in faults
    BY <2>0, <2>3
  <2> QED
    BY <2>1, <2>2, <2>3
<1>2. ServingIsWhole
  <2> SUFFICES ASSUME old = "serving"
               PROVE  /\ ~inProgress /\ paused = {} /\ ~NewAlive
                      /\ \A w \in Workers : db["old"][w] # "absent"
                      /\ \A p \in open : pane["old"][p] = "Running"
                      /\ (\A k \in Sockets : sock[k] = ident[k])
                         \/ \E k \in Sockets : sock[k][1] = "other"
                         \/ "bind" \in faults
    BY DEF ServingIsWhole
  <2>1. ~inProgress /\ paused = {} /\ ~NewAlive
    BY DEF DbInv
  <2>2. \A w \in Workers : db["old"][w] # "absent"
    BY DEF DbInv
  <2>3. \A p \in open : pane["old"][p] = "Running"
    BY DEF PaneInv, OldPanes, TypeOK
  <2>4. (\A k \in Sockets : sock[k] = ident[k])
        \/ (\E k \in Sockets : sock[k][1] = "other") \/ "bind" \in faults
    BY DEF SockInv
  <2> QED
    BY <2>1, <2>2, <2>3, <2>4
<1>3. OwnerIsWhole
  <2> SUFFICES ASSUME new = "owner"
               PROVE  /\ \A w \in Workers : db["new"][w] # "absent"
                      /\ \A p \in open : pane["new"][p] = "Running"
                      /\ \A k \in Sockets : sock[k] = <<"new", attempts>>
    BY DEF OwnerIsWhole
  <2>1. \A p \in open : pane["new"][p] = "Running"
    BY DEF PaneInv, NewPanes, TypeOK
  <2> QED
    BY <2>1 DEF DbInv, SockInv
<1> QED
  BY <1>1, <1>2, <1>3 DEF SurvivorIsWhole

\* The handoff is well typed, for any panes and bounds.
THEOREM TypeCorrect == Spec => []TypeOK
<1>1. IInv => TypeOK
  BY DEF IInv
<1> QED
  BY <1>1, Invariance, PTL

\* At every step of a handoff, whatever crashes or expires, a pane is read by
\* at most one server, database workers exist in at most one, and between the
\* acknowledged pause and the commit the old server's workers do nothing.
THEOREM HandoffHasOneOwner == Spec => []OneOwner
BY Invariance, IInvOneOwner, PTL

\* Whatever fails, no pane loses its processes or its last holder unless the
\* server in charge was lost; a server that serves again, and a replacement
\* that took over, is complete: workers, panes, public sockets.
THEOREM HandoffKeepsTheSession == Spec => []SurvivorIsWhole
BY Invariance, IInvSurvivor, PTL

=============================================================================
