--------------------------- MODULE DeliveryProofs ---------------------------
(***************************************************************************)
(* Proofs about Delivery, for any number of messages and servers.          *)
(***************************************************************************)
EXTENDS Delivery, SequenceTheorems, TLAPS

-----------------------------------------------------------------------------
(* The inductive invariant.                                                *)

\* The sender writes its one event in the step in which it exits.
SenderWritesAtExit ==
  \A m \in Messages :
    /\ pc[m] # "exited" => log[m] \in {<<>>, <<"recovered">>}
    /\ pc[m] # "exited" <=> outcome[m] = "none"

\* Only what was stored is ever sent, recovered or given an event.
StoredFirst ==
  \A m \in Messages :
    /\ pc[m] = "start" => ~stored[m]
    /\ pc[m] \notin {"start", "exited"} => stored[m]
    /\ log[m] # <<>> \/ expired[m] => stored[m]

\* What the sender knows agrees with what became of its request.
AnswerMatchesRequest ==
  \A m \in Messages :
    /\ pc[m] \in {"start", "persisted"} => rpc[m] = "none"
    /\ pc[m] = "recording" => rpc[m] = "done"
    /\ pc[m] = "refused" => rpc[m] \in {"error", "dropped"}
    /\ command[m] = "prompt" /\ outcome[m] = "resend" =>
         rpc[m] \in {"none", "error", "dropped"}

\* The pane got the text exactly when the request was handled.
EffectIffHandled ==
  \A m \in Messages :
    pty[m] = IF rpc[m] = "done" THEN TerminalEffect(command[m]) ELSE "none"

\* A message recorded as sent carries the event of its command, and its
\* request was handled.
SentMeansHandled ==
  \A m \in Messages :
    log[m] \in {<<"drafted">>, <<"submitted">>, <<"submitted", "received">>} =>
      /\ rpc[m] = "done"
      /\ log[m][1] = ConfirmedEvent(command[m])

\* A recovering server has selected stored messages past the grace only.
OrphansPastGrace ==
  \A s \in Servers : \A m \in orphans[s] : expired[m]

IInv ==
  /\ TypeOK
  /\ LogIsALifecycle
  /\ SeqNumbersTheLog
  /\ SenderWritesAtExit
  /\ StoredFirst
  /\ AnswerMatchesRequest
  /\ EffectIffHandled
  /\ SentMeansHandled
  /\ OrphansPastGrace
  /\ OutcomeMatchesLog
  /\ RecoveryOnlyPastGrace

-----------------------------------------------------------------------------
(* The store.                                                              *)

FirstEvents == {"drafted", "submitted", "failed", "recovered"}

\* Appending to an empty delivery log.
LEMMA AppendFirst ==
  ASSUME NEW e
  PROVE  Append(<<>>, e) = <<e>> /\ Len(<<e>>) = 1 /\ <<e>>[1] = e
OBVIOUS

\* Appending to a delivery log of one event.
LEMMA AppendSecond ==
  ASSUME NEW x, NEW y
  PROVE  Append(<<x>>, y) = <<x, y>>
<1> DEFINE a == Append(<<x>>, y)
           b == <<x, y>>
           E == {x, y}
<1>0. x \in E /\ y \in E
  OBVIOUS
<1> HIDE DEF E
<1>1. <<x>> \in Seq(E) /\ Len(<<x>>) = 1 /\ <<x>>[1] = x
  BY <1>0
<1>2. a \in Seq(E) /\ Len(a) = 2 /\ a[1] = x /\ a[2] = y
  BY <1>0, <1>1, AppendProperties
<1>3. b \in Seq(E) /\ Len(b) = 2 /\ b[1] = x /\ b[2] = y
  BY <1>0
<1> HIDE DEF a, b
<1>4. \A i \in 1 .. Len(a) : a[i] = b[i]
  BY <1>2, <1>3
<1>5. a = b
  BY <1>2, <1>3, <1>4, SeqEqual
<1> QED
  BY <1>5 DEF a, b

\* The lifecycles that say a message was sent are none of the others.
LEMMA SentIsNotFailed ==
  ASSUME NEW l \in {<<>>, <<"failed">>, <<"recovered">>}
  PROVE  /\ l \notin {<<"drafted">>, <<"submitted">>,
                     <<"submitted", "received">>}
         /\ <<"submitted", "received">>[1] = "submitted"
OBVIOUS

\* What a delivery log is a sequence of.
LEMMA LifecyclesAreLogs == Lifecycles \subseteq Seq(Events)
BY DEF Lifecycles, Events

\* The sender's event is accepted exactly when nothing was recorded before it.
LEMMA SenderTransition ==
  ASSUME NEW l \in {<<>>, <<"recovered">>}, NEW e \in FirstEvents
  PROVE  ValidTransition(l, e) <=> l = <<>>
BY DEF ValidTransition, Latest, EventType, FirstEvents

\* The only log that a receipt extends.
LEMMA ReceiptTransition ==
  ASSUME NEW l \in Lifecycles, l # <<>>, Latest(l) = "submitted"
  PROVE  l = <<"submitted">>
BY DEF Lifecycles, Latest, EventType

\* The lifecycles are closed under a first event of an empty log.
LEMMA RecordFirst ==
  ASSUME IInv, NEW m \in Messages, NEW e \in FirstEvents,
         log[m] = <<>>, Record(m, e)
  PROVE  /\ log' = [log EXCEPT ![m] = <<e>>]
         /\ seq' = [seq EXCEPT ![m] = 1]
         /\ log' \in [Messages -> Seq(Events)]
         /\ seq' \in [Messages -> Nat]
         /\ LogIsALifecycle'
         /\ SeqNumbersTheLog'
<1>1. log' = [log EXCEPT ![m] = <<e>>]
  BY AppendFirst DEF Record
<1>2. seq' = [seq EXCEPT ![m] = 1]
  <2>1. seq[m] = 0
    BY DEF IInv, SeqNumbersTheLog
  <2> QED
    BY <2>1 DEF Record
<1>3. <<e>> \in Lifecycles
  BY DEF Lifecycles, FirstEvents
<1>4. LogIsALifecycle' /\ SeqNumbersTheLog'
  <2> SUFFICES ASSUME NEW n \in Messages
               PROVE  log'[n] \in Lifecycles /\ seq'[n] = Len(log'[n])
    BY DEF LogIsALifecycle, SeqNumbersTheLog
  <2>1. CASE n = m
    BY <1>1, <1>2, <1>3, <2>1, AppendFirst DEF IInv, TypeOK
  <2>2. CASE n # m
    BY <1>1, <1>2, <2>2
       DEF IInv, TypeOK, LogIsALifecycle, SeqNumbersTheLog
  <2> QED
    BY <2>1, <2>2
<1>5. log' \in [Messages -> Seq(Events)] /\ seq' \in [Messages -> Nat]
  BY <1>1, <1>2, <1>3, LifecyclesAreLogs DEF IInv, TypeOK
<1> QED
  BY <1>1, <1>2, <1>4, <1>5

-----------------------------------------------------------------------------
(* Initial states and steps.                                               *)

\* The initial states satisfy the inductive invariant.
LEMMA InitIInv == Init => IInv
<1> SUFFICES ASSUME Init PROVE IInv
  OBVIOUS
<1> USE DEF Init
<1>1. TypeOK
  BY DEF TypeOK, SenderStates, Outcomes
<1>2. LogIsALifecycle /\ SeqNumbersTheLog
  BY DEF LogIsALifecycle, SeqNumbersTheLog, Lifecycles
<1>3. SenderWritesAtExit /\ StoredFirst /\ AnswerMatchesRequest
  BY DEF SenderWritesAtExit, StoredFirst, AnswerMatchesRequest
<1>4. EffectIffHandled /\ SentMeansHandled /\ OrphansPastGrace
  BY DEF EffectIffHandled, SentMeansHandled, OrphansPastGrace
<1>5. OutcomeMatchesLog /\ RecoveryOnlyPastGrace
  BY DEF OutcomeMatchesLog, RecoveryOnlyPastGrace
<1> QED
  BY <1>1, <1>2, <1>3, <1>4, <1>5 DEF IInv

\* The send attempt commits or is abandoned.
LEMMA BeginIInv ==
  ASSUME IInv, NEW m \in Messages,
         BeginSendAttempt(m) \/ AbandonSend(m) \/ PersistUnconfirmed(m)
  PROVE  IInv'
<1> USE DEF IInv
<1>1. /\ pc[m] = "start" /\ outcome[m] = "none" /\ rpc[m] = "none"
      /\ ~stored[m] /\ log[m] = <<>>
  BY DEF BeginSendAttempt, AbandonSend, PersistUnconfirmed,
         SenderWritesAtExit, StoredFirst, AnswerMatchesRequest
<1>2. /\ UNCHANGED <<command, socket, expired, log, seq, rpc, pty, server,
                     orphans>>
      /\ LogIsALifecycle' /\ SeqNumbersTheLog' /\ OrphansPastGrace'
      /\ EffectIffHandled' /\ SentMeansHandled'
  BY DEF BeginSendAttempt, AbandonSend, PersistUnconfirmed, LogIsALifecycle,
         SeqNumbersTheLog, OrphansPastGrace, EffectIffHandled,
         SentMeansHandled
<1>3. CASE BeginSendAttempt(m)
  <2>1. TypeOK'
    BY <1>3 DEF BeginSendAttempt, TypeOK, SenderStates
  <2>2. SenderWritesAtExit' /\ AnswerMatchesRequest'
    BY <1>1, <1>3 DEF BeginSendAttempt, TypeOK, SenderWritesAtExit,
       AnswerMatchesRequest
  <2>3. StoredFirst'
    BY <1>1, <1>3 DEF BeginSendAttempt, TypeOK, StoredFirst
  <2>4. OutcomeMatchesLog' /\ RecoveryOnlyPastGrace'
    BY <1>3 DEF BeginSendAttempt, OutcomeMatchesLog, RecoveryOnlyPastGrace
  <2> QED
    BY <1>2, <2>1, <2>2, <2>3, <2>4
<1>4. CASE AbandonSend(m) \/ PersistUnconfirmed(m)
  <2>1. /\ pc' = [pc EXCEPT ![m] = "exited"]
        /\ outcome' = [outcome EXCEPT ![m] = "resend"]
        /\ stored' = stored \/ stored' = [stored EXCEPT ![m] = TRUE]
    BY <1>4 DEF AbandonSend, PersistUnconfirmed
  <2>2. /\ pc' \in [Messages -> SenderStates]
        /\ outcome' \in [Messages -> Outcomes]
    BY <2>1 DEF TypeOK, SenderStates, Outcomes
  <2>3. /\ stored' \in [Messages -> BOOLEAN]
        /\ \A n \in Messages : stored[n] => stored'[n]
        /\ \A n \in Messages : n # m => stored'[n] = stored[n]
    BY <2>1 DEF TypeOK
  <2>4. TypeOK'
    BY <1>2, <2>2, <2>3 DEF TypeOK
  <2>5. SenderWritesAtExit' /\ AnswerMatchesRequest'
    BY <1>1, <1>2, <2>1 DEF TypeOK, SenderWritesAtExit, AnswerMatchesRequest
  <2>6. StoredFirst'
    BY <1>1, <1>2, <2>1, <2>3 DEF TypeOK, StoredFirst
  <2>7. OutcomeMatchesLog' /\ RecoveryOnlyPastGrace'
    BY <1>1, <1>2, <2>1 DEF TypeOK, OutcomeMatchesLog, RecoveryOnlyPastGrace
  <2> QED
    BY <1>2, <2>4, <2>5, <2>6, <2>7
<1> QED
  BY <1>3, <1>4

\* The sender's request and what it learns of it.
LEMMA RequestIInv ==
  ASSUME IInv, NEW m \in Messages,
         \/ SendRequest(m) \/ ConnectFails(m)
         \/ ReadResponse(m) \/ LoseResponse(m) \/ KillSender(m)
  PROVE  IInv'
<1> USE DEF IInv, SendRequest, ConnectFails, ReadResponse, LoseResponse,
            KillSender
<1>1. UNCHANGED <<command, socket, stored, expired, log, seq, pty, outcome,
                  server, orphans>>
  OBVIOUS
<1>2. /\ pc' \in [Messages -> SenderStates]
      /\ rpc' \in [Messages -> {"none", "queued", "done", "error", "dropped"}]
      /\ \A n \in Messages : n # m => pc'[n] = pc[n] /\ rpc'[n] = rpc[n]
      /\ pc'[m] \notin {"start", "exited"} /\ pc[m] \notin {"start", "exited"}
      /\ rpc'[m] = rpc[m] \/ (rpc[m] = "none" /\ rpc'[m] = "queued")
  <2> USE DEF TypeOK, SenderStates, AnswerMatchesRequest
  <2>1. CASE SendRequest(m)
    BY <2>1
  <2>2. CASE ConnectFails(m)
    BY <2>2
  <2>3. CASE ReadResponse(m)
    BY <2>3
  <2>4. CASE LoseResponse(m)
    BY <2>4
  <2>5. CASE KillSender(m)
    BY <2>5
  <2> QED
    BY <2>1, <2>2, <2>3, <2>4, <2>5
<1>3. TypeOK'
  BY <1>1, <1>2 DEF TypeOK
<1>4. /\ LogIsALifecycle' /\ SeqNumbersTheLog' /\ OrphansPastGrace'
      /\ OutcomeMatchesLog' /\ RecoveryOnlyPastGrace'
  BY <1>1 DEF LogIsALifecycle, SeqNumbersTheLog, OrphansPastGrace,
     OutcomeMatchesLog, RecoveryOnlyPastGrace
<1>5. SenderWritesAtExit'
  BY <1>1, <1>2 DEF SenderWritesAtExit
<1>6. StoredFirst'
  BY <1>1, <1>2 DEF StoredFirst
<1>7. AnswerMatchesRequest'
  BY <1>1, <1>2 DEF TypeOK, AnswerMatchesRequest, SenderWritesAtExit
<1>8. EffectIffHandled' /\ SentMeansHandled'
  BY <1>1, <1>2 DEF EffectIffHandled, SentMeansHandled
<1> QED
  BY <1>3, <1>4, <1>5, <1>6, <1>7, <1>8

\* The sender records a confirmed effect, or finds it cannot.
LEMMA RecordConfirmedIInv ==
  ASSUME IInv, NEW m \in Messages, RecordConfirmed(m)
  PROVE  IInv'
<1> DEFINE e == ConfirmedEvent(command[m])
<1> USE DEF IInv
<1>1. /\ e \in FirstEvents /\ e \notin {"failed", "recovered"}
      /\ pc[m] = "recording" /\ rpc[m] = "done" /\ stored[m]
      /\ log[m] \in {<<>>, <<"recovered">>}
  BY DEF RecordConfirmed, ConfirmedEvent, FirstEvents, AnswerMatchesRequest,
         SenderWritesAtExit, StoredFirst
<1>2. ValidTransition(log[m], e) <=> log[m] = <<>>
  BY <1>1, SenderTransition
<1>3. CASE /\ log[m] = <<>> /\ Record(m, e)
           /\ \/ outcome' = [outcome EXCEPT ![m] = "ok"]
              \/ outcome' = [outcome EXCEPT ![m] = "unrecorded"]
  <2>1. /\ log' = [log EXCEPT ![m] = <<e>>]
        /\ log' \in [Messages -> Seq(Events)] /\ seq' \in [Messages -> Nat]
        /\ LogIsALifecycle' /\ SeqNumbersTheLog'
    BY <1>1, <1>3, RecordFirst
  <2>2. TypeOK'
    BY <2>1, <1>3 DEF RecordConfirmed, TypeOK, SenderStates, Outcomes
  <2>3. SenderWritesAtExit' /\ StoredFirst' /\ AnswerMatchesRequest'
    BY <2>1, <1>1, <1>3 DEF RecordConfirmed, TypeOK, SenderWritesAtExit,
       StoredFirst, AnswerMatchesRequest
  <2>4. EffectIffHandled' /\ OrphansPastGrace'
    BY DEF RecordConfirmed, EffectIffHandled, OrphansPastGrace
  <2>5. SentMeansHandled'
    BY <2>1, <1>1, <1>3, AppendFirst DEF RecordConfirmed, TypeOK,
       SentMeansHandled
  <2>6. OutcomeMatchesLog'
    <3>1. /\ log'[m] = <<e>> /\ outcome'[m] \in {"ok", "unrecorded"}
          /\ \A n \in Messages : n # m => outcome'[n] = outcome[n]
          /\ \A n \in Messages : n # m => log'[n] = log[n]
          /\ command' = command
      BY <2>1, <1>3 DEF RecordConfirmed, TypeOK
    <3>2. <<e>> # <<>> /\ <<e>>[1] = e /\ <<e>> # <<"failed">>
      BY <1>1, AppendFirst
    <3> SUFFICES ASSUME NEW n \in Messages
                 PROVE  /\ outcome'[n] = "ok" =>
                             /\ log'[n] # <<>>
                             /\ log'[n][1] = ConfirmedEvent(command[n])
                        /\ outcome'[n] \notin {"none", "ok", "unrecorded"} =>
                             log'[n] \in {<<>>, <<"failed">>, <<"recovered">>}
                        /\ outcome'[n] = "unrecorded" =>
                             log'[n] # <<"failed">>
      BY <3>1 DEF OutcomeMatchesLog
    <3>3. CASE n = m
      BY <3>1, <3>2, <3>3
    <3>4. CASE n # m
      <4>1. outcome'[n] = outcome[n] /\ log'[n] = log[n]
        BY <3>1, <3>4
      <4> QED
        BY <4>1, Zenon DEF OutcomeMatchesLog
    <3> QED
      BY <3>3, <3>4
  <2>7. RecoveryOnlyPastGrace'
    BY <2>1, <1>1, <1>3, AppendFirst DEF RecordConfirmed, TypeOK,
       RecoveryOnlyPastGrace
  <2> QED
    BY <2>1, <2>2, <2>3, <2>4, <2>5, <2>6, <2>7
<1>4. CASE /\ UNCHANGED <<log, seq>>
           /\ \/ /\ outcome' = [outcome EXCEPT ![m] = "superseded"]
                 /\ log[m] # <<>>
              \/ outcome' = [outcome EXCEPT ![m] = "unrecorded"]
  <2>2. TypeOK'
    BY <1>4 DEF RecordConfirmed, TypeOK, SenderStates, Outcomes
  <2>3. SenderWritesAtExit' /\ StoredFirst' /\ AnswerMatchesRequest'
    BY <1>1, <1>4 DEF RecordConfirmed, TypeOK, SenderWritesAtExit,
       StoredFirst, AnswerMatchesRequest
  <2>4. /\ EffectIffHandled' /\ OrphansPastGrace' /\ SentMeansHandled'
        /\ LogIsALifecycle' /\ SeqNumbersTheLog'
    BY <1>4 DEF RecordConfirmed, EffectIffHandled, OrphansPastGrace,
       SentMeansHandled, LogIsALifecycle, SeqNumbersTheLog
  <2>5. /\ outcome'[m] \in {"superseded", "unrecorded"}
        /\ outcome'[m] = "superseded" => log[m] = <<"recovered">>
        /\ \A n \in Messages : n # m => outcome'[n] = outcome[n]
        /\ UNCHANGED <<command, expired, log>>
    BY <1>1, <1>4 DEF RecordConfirmed, TypeOK
  <2>6. OutcomeMatchesLog'
    BY <1>1, <2>5 DEF OutcomeMatchesLog
  <2>7. RecoveryOnlyPastGrace'
    BY <2>5 DEF RecoveryOnlyPastGrace
  <2> QED
    BY <2>2, <2>3, <2>4, <2>6, <2>7
<1> QED
  BY <1>2, <1>3, <1>4 DEF RecordConfirmed

\* The sender records a failure, or exits without a record of it.
LEMMA RecordFailedIInv ==
  ASSUME IInv, NEW m \in Messages, RecordFailed(m)
  PROVE  IInv'
<1> DEFINE o == FailureOutcome(command[m], pc[m] = "refused")
<1> USE DEF IInv
<1>1. /\ o \in {"resend", "unverified"}
      /\ pc[m] \in {"refused", "unanswered"} /\ stored[m]
      /\ command[m] = "prompt" /\ o = "resend" =>
           rpc[m] \in {"error", "dropped"}
      /\ log[m] \in {<<>>, <<"recovered">>}
  BY DEF RecordFailed, FailureOutcome, AnswerMatchesRequest,
         SenderWritesAtExit, StoredFirst
<1>2. /\ ValidTransition(log[m], "failed") <=> log[m] = <<>>
      /\ "failed" \in FirstEvents
  BY <1>1, SenderTransition DEF FirstEvents
<1>3. /\ pc' = [pc EXCEPT ![m] = "exited"]
      /\ outcome' = [outcome EXCEPT ![m] = o]
      /\ UNCHANGED <<command, socket, stored, expired, rpc, pty, server,
                     orphans>>
  BY DEF RecordFailed
<1>4. \/ log[m] = <<>> /\ Record(m, "failed")
      \/ UNCHANGED <<log, seq>>
  BY <1>2 DEF RecordFailed
<1>5. /\ LogIsALifecycle' /\ SeqNumbersTheLog'
      /\ log' \in [Messages -> Seq(Events)] /\ seq' \in [Messages -> Nat]
      /\ \A n \in Messages : n # m => log'[n] = log[n]
      /\ log'[m] \in {<<>>, <<"recovered">>, <<"failed">>}
      /\ log'[m] = <<"recovered">> => log[m] = <<"recovered">>
  <2>1. CASE log[m] = <<>> /\ Record(m, "failed")
    <3>1. /\ log' = [log EXCEPT ![m] = <<"failed">>]
          /\ LogIsALifecycle' /\ SeqNumbersTheLog'
          /\ log' \in [Messages -> Seq(Events)] /\ seq' \in [Messages -> Nat]
      BY <1>2, <2>1, RecordFirst
    <3>2. <<"failed">> # <<"recovered">>
      OBVIOUS
    <3> QED
      BY <3>1, <3>2 DEF TypeOK
  <2>2. CASE UNCHANGED <<log, seq>>
    BY <1>1, <2>2 DEF TypeOK, LogIsALifecycle, SeqNumbersTheLog
  <2> QED
    BY <1>4, <2>1, <2>2
<1>6. TypeOK'
  BY <1>1, <1>3, <1>5 DEF TypeOK, SenderStates, Outcomes
<1>7. SenderWritesAtExit' /\ AnswerMatchesRequest'
  BY <1>1, <1>3, <1>5 DEF TypeOK, SenderWritesAtExit, AnswerMatchesRequest
<1>8. StoredFirst'
  BY <1>1, <1>3, <1>5 DEF TypeOK, StoredFirst
<1>9. EffectIffHandled' /\ OrphansPastGrace'
  BY <1>3 DEF EffectIffHandled, OrphansPastGrace
<1>10. SentMeansHandled'
  BY <1>3, <1>5, SentIsNotFailed DEF SentMeansHandled
<1>11. outcome'[m] = o /\ \A n \in Messages : n # m => outcome'[n] = outcome[n]
  BY <1>3 DEF TypeOK
<1>12. OutcomeMatchesLog'
  BY <1>1, <1>3, <1>5, <1>11 DEF OutcomeMatchesLog
<1>13. RecoveryOnlyPastGrace'
  BY <1>1, <1>3, <1>5, <1>11 DEF RecoveryOnlyPastGrace
<1> QED
  BY <1>5, <1>6, <1>7, <1>8, <1>9, <1>10, <1>12, <1>13

\* The server handles or refuses a queued request.
LEMMA HandleIInv ==
  ASSUME IInv, NEW m \in Messages, HandleRequest(m) \/ RejectRequest(m)
  PROVE  IInv'
<1> USE DEF IInv
<1>1. /\ rpc[m] = "queued"
      /\ UNCHANGED <<pc, command, socket, stored, expired, log, seq, outcome,
                     server, orphans>>
  BY DEF HandleRequest, RejectRequest
<1>2. \/ /\ rpc' = [rpc EXCEPT ![m] = "done"]
         /\ pty' = [pty EXCEPT ![m] = TerminalEffect(command[m])]
      \/ /\ rpc' = [rpc EXCEPT ![m] = "error"]
         /\ pty' = pty
  BY DEF HandleRequest, RejectRequest
<1>3. TypeOK'
  BY <1>1, <1>2 DEF TypeOK, TerminalEffect
<1>4. EffectIffHandled'
  BY <1>1, <1>2 DEF TypeOK, EffectIffHandled
<1>5. \A n \in Messages : rpc[n] = "done" => rpc'[n] = "done"
  BY <1>1, <1>2 DEF TypeOK
<1>6. SentMeansHandled'
  BY <1>1, <1>5 DEF SentMeansHandled
<1>7. AnswerMatchesRequest'
  BY <1>1, <1>2 DEF TypeOK, AnswerMatchesRequest
<1>8. /\ LogIsALifecycle' /\ SeqNumbersTheLog' /\ OrphansPastGrace'
      /\ OutcomeMatchesLog' /\ RecoveryOnlyPastGrace'
      /\ SenderWritesAtExit' /\ StoredFirst'
  BY <1>1 DEF LogIsALifecycle, SeqNumbersTheLog, OrphansPastGrace,
     OutcomeMatchesLog, RecoveryOnlyPastGrace, SenderWritesAtExit, StoredFirst
<1> QED
  BY <1>3, <1>4, <1>6, <1>7, <1>8

\* A receipt extends a log that holds a submission and nothing else.
LEMMA ReceiptRecords ==
  ASSUME IInv, NEW s \in Servers, NEW m \in Messages, MessageReceived(s, m)
  PROVE  /\ log[m] = <<"submitted">>
         /\ log' = [log EXCEPT ![m] = <<"submitted", "received">>]
         /\ seq' = [seq EXCEPT ![m] = 2]
<1>1. log[m] = <<"submitted">>
  BY ReceiptTransition DEF IInv, LogIsALifecycle, MessageReceived, EventLess
<1>2. Append(<<"submitted">>, "received") = <<"submitted", "received">>
  BY AppendSecond, Zenon
<1>3. seq[m] = 1
  BY <1>1 DEF IInv, SeqNumbersTheLog
<1>4. log' = [log EXCEPT ![m] = Append(log[m], "received")]
  BY DEF MessageReceived, Record
<1>5. log' = [log EXCEPT ![m] = <<"submitted", "received">>]
  BY <1>1, <1>2, <1>4, Zenon
<1>6. seq' = [seq EXCEPT ![m] = 2]
  BY <1>3 DEF MessageReceived, Record
<1> QED
  BY <1>1, <1>5, <1>6

\* A receipt is recorded.
LEMMA MessageReceivedIInv ==
  ASSUME IInv, NEW s \in Servers, NEW m \in Messages, MessageReceived(s, m)
  PROVE  IInv'
<1> USE DEF IInv
<1>1. /\ log[m] = <<"submitted">>
      /\ log' = [log EXCEPT ![m] = <<"submitted", "received">>]
      /\ seq' = [seq EXCEPT ![m] = 2]
      /\ stored[m]
      /\ UNCHANGED <<pc, command, socket, stored, expired, rpc, pty, outcome,
                     server, orphans>>
  BY ReceiptRecords DEF MessageReceived
<1>2. /\ <<"submitted", "received">> \in Lifecycles
      /\ Len(<<"submitted", "received">>) = 2
  BY DEF Lifecycles
<1>3. TypeOK'
  BY <1>1, <1>2, LifecyclesAreLogs DEF TypeOK
<1>4. LogIsALifecycle' /\ SeqNumbersTheLog'
  BY <1>1, <1>2 DEF TypeOK, LogIsALifecycle, SeqNumbersTheLog
<1>5. pc[m] = "exited" /\ outcome[m] \in {"none", "ok", "unrecorded"}
  BY <1>1, SentIsNotFailed DEF SenderWritesAtExit, OutcomeMatchesLog
<1>6. SenderWritesAtExit'
  BY <1>1, <1>5 DEF TypeOK, SenderWritesAtExit
<1>7. SentMeansHandled'
  <2>0. rpc[m] = "done" /\ log[m][1] = ConfirmedEvent(command[m])
    BY <1>1 DEF SentMeansHandled
  <2>1. rpc[m] = "done" /\ "submitted" = ConfirmedEvent(command[m])
    BY <1>1, <2>0, AppendFirst
  <2>2. <<"submitted", "received">>[1] = "submitted"
    OBVIOUS
  <2>3. /\ log'[m] = <<"submitted", "received">>
        /\ \A n \in Messages : n # m => log'[n] = log[n]
    BY <1>1 DEF TypeOK
  <2> QED
    BY <1>1, <2>1, <2>2, <2>3 DEF SentMeansHandled
<1>8. StoredFirst'
  BY <1>1 DEF TypeOK, StoredFirst
<1>9. AnswerMatchesRequest' /\ EffectIffHandled' /\ OrphansPastGrace'
  BY <1>1 DEF AnswerMatchesRequest, EffectIffHandled, OrphansPastGrace
<1>10. OutcomeMatchesLog'
  <2>1. /\ log'[m] = <<"submitted", "received">>
        /\ \A n \in Messages : n # m => log'[n] = log[n]
        /\ UNCHANGED <<outcome, command>>
    BY <1>1 DEF TypeOK
  <2>2. /\ <<"submitted", "received">> \notin {<<>>, <<"failed">>}
        /\ <<"submitted", "received">>[1] = "submitted"
        /\ <<"submitted">>[1] = "submitted"
    OBVIOUS
  <2>3. outcome[m] = "ok" => ConfirmedEvent(command[m]) = "submitted"
    BY <1>1, <2>2 DEF OutcomeMatchesLog
  <2> QED
    BY <1>5, <2>1, <2>2, <2>3 DEF OutcomeMatchesLog
<1>11. RecoveryOnlyPastGrace'
  BY <1>1, SentIsNotFailed DEF TypeOK, RecoveryOnlyPastGrace
<1> QED
  BY <1>3, <1>4, <1>6, <1>7, <1>8, <1>9, <1>10, <1>11

\* One selected orphan is failed, or found to have an event after all.
LEMMA FailOrphanIInv ==
  ASSUME IInv, NEW s \in Servers, NEW m \in Messages, FailOrphan(s, m)
  PROVE  IInv'
<1> USE DEF IInv
<1>1. /\ expired[m] /\ stored[m]
      /\ orphans' = [orphans EXCEPT ![s] = @ \ {m}]
      /\ UNCHANGED <<pc, command, socket, stored, expired, rpc, pty, outcome,
                     server>>
  BY DEF FailOrphan, OrphansPastGrace, StoredFirst
<1>2. OrphansPastGrace'
  BY <1>1 DEF TypeOK, OrphansPastGrace
<1>3. AnswerMatchesRequest' /\ EffectIffHandled'
  BY <1>1 DEF AnswerMatchesRequest, EffectIffHandled
<1>4. CASE log[m] = <<>> /\ Record(m, "recovered")
  <2>1. /\ log' = [log EXCEPT ![m] = <<"recovered">>]
        /\ log' \in [Messages -> Seq(Events)] /\ seq' \in [Messages -> Nat]
        /\ LogIsALifecycle' /\ SeqNumbersTheLog'
    BY <1>4, RecordFirst DEF FirstEvents
  <2>2. TypeOK'
    BY <1>1, <2>1 DEF TypeOK
  <2>3. SenderWritesAtExit' /\ SentMeansHandled'
    BY <1>1, <2>1 DEF TypeOK, SenderWritesAtExit, SentMeansHandled
  <2>4. StoredFirst'
    BY <1>1, <2>1 DEF TypeOK, StoredFirst
  <2>5. OutcomeMatchesLog' /\ RecoveryOnlyPastGrace'
    BY <1>1, <1>4, <2>1 DEF TypeOK, OutcomeMatchesLog, RecoveryOnlyPastGrace
  <2> QED
    BY <1>2, <1>3, <2>1, <2>2, <2>3, <2>4, <2>5
<1>5. CASE UNCHANGED <<log, seq>>
  <2>1. TypeOK'
    BY <1>1, <1>5 DEF TypeOK
  <2>2. /\ LogIsALifecycle' /\ SeqNumbersTheLog' /\ SenderWritesAtExit'
        /\ StoredFirst' /\ SentMeansHandled'
        /\ OutcomeMatchesLog' /\ RecoveryOnlyPastGrace'
    BY <1>1, <1>5 DEF LogIsALifecycle, SeqNumbersTheLog, SenderWritesAtExit,
       StoredFirst, SentMeansHandled, OutcomeMatchesLog, RecoveryOnlyPastGrace
  <2> QED
    BY <1>2, <1>3, <2>1, <2>2
<1> QED
  BY <1>4, <1>5 DEF FailOrphan, EventLess

\* A server starts, serves or stops, or the grace of a message runs out.
LEMMA ServerIInv ==
  ASSUME IInv, \/ \E s \in Servers : ColdStart(s) \/ Serve(s) \/ StopServer(s)
               \/ \E m \in Messages : GraceExpires(m)
  PROVE  IInv'
<1> USE DEF IInv
<1>1. ASSUME NEW s \in Servers, ColdStart(s)
      PROVE  IInv'
  <2>1. UNCHANGED <<pc, command, socket, outcome, stored, expired, log, seq,
                    rpc, pty>>
    BY <1>1 DEF ColdStart, senderVars, storeVars
  <2>2. TypeOK'
    BY <1>1, <2>1 DEF ColdStart, TypeOK
  <2>3. OrphansPastGrace'
    BY <1>1, <2>1 DEF ColdStart, TypeOK, OrphansPastGrace
  <2> QED
    BY <2>1, <2>2, <2>3 DEF LogIsALifecycle, SeqNumbersTheLog,
       SenderWritesAtExit, StoredFirst, AnswerMatchesRequest,
       EffectIffHandled, SentMeansHandled, OutcomeMatchesLog,
       RecoveryOnlyPastGrace
<1>2. ASSUME NEW s \in Servers, Serve(s)
      PROVE  IInv'
  <2>1. UNCHANGED <<pc, command, socket, outcome, stored, expired, log, seq,
                    rpc, pty, orphans>>
    BY <1>2 DEF Serve, senderVars, storeVars
  <2>2. TypeOK'
    BY <1>2, <2>1 DEF Serve, TypeOK
  <2> QED
    BY <2>1, <2>2 DEF LogIsALifecycle, SeqNumbersTheLog,
       SenderWritesAtExit, StoredFirst, AnswerMatchesRequest,
       EffectIffHandled, SentMeansHandled, OrphansPastGrace,
       OutcomeMatchesLog, RecoveryOnlyPastGrace
<1>3. ASSUME NEW s \in Servers, StopServer(s)
      PROVE  IInv'
  <2>1. UNCHANGED <<pc, command, socket, outcome, stored, expired, log, seq,
                    pty>>
    BY <1>3 DEF StopServer, senderVars, storeVars
  <2>2. TypeOK'
    BY <1>3, <2>1 DEF StopServer, TypeOK
  <2>3. OrphansPastGrace'
    BY <1>3, <2>1 DEF StopServer, TypeOK, OrphansPastGrace
  <2>4. \A m \in Messages : \/ rpc'[m] = rpc[m]
                            \/ rpc[m] = "queued" /\ rpc'[m] = "dropped"
    BY <1>3 DEF StopServer
  <2>5. AnswerMatchesRequest'
    BY <2>1, <2>4 DEF AnswerMatchesRequest
  <2>6. EffectIffHandled' /\ SentMeansHandled'
    BY <2>1, <2>4 DEF EffectIffHandled, SentMeansHandled
  <2> QED
    BY <2>1, <2>2, <2>3, <2>5, <2>6 DEF LogIsALifecycle, SeqNumbersTheLog,
       SenderWritesAtExit, StoredFirst, OutcomeMatchesLog,
       RecoveryOnlyPastGrace
<1>4. ASSUME NEW m \in Messages, GraceExpires(m)
      PROVE  IInv'
  <2>1. /\ UNCHANGED <<pc, command, socket, outcome, stored, log, seq, rpc,
                       pty, server, orphans>>
        /\ stored[m] /\ expired' = [expired EXCEPT ![m] = TRUE]
    BY <1>4 DEF GraceExpires, senderVars
  <2>2. TypeOK'
    BY <2>1 DEF TypeOK
  <2>3. /\ expired'[m]
        /\ \A n \in Messages : n # m => expired'[n] = expired[n]
    BY <2>1 DEF TypeOK
  <2>4. OrphansPastGrace'
    BY <2>1, <2>3 DEF TypeOK, OrphansPastGrace
  <2>5. StoredFirst' /\ RecoveryOnlyPastGrace'
    BY <2>1, <2>3 DEF StoredFirst, RecoveryOnlyPastGrace
  <2> QED
    BY <2>1, <2>2, <2>4, <2>5 DEF LogIsALifecycle, SeqNumbersTheLog,
       SenderWritesAtExit, AnswerMatchesRequest, EffectIffHandled,
       SentMeansHandled, OutcomeMatchesLog
<1> QED
  BY <1>1, <1>2, <1>3, <1>4

\* Every step preserves the inductive invariant.
LEMMA NextIInv == IInv /\ [Next]_vars => IInv'
<1> SUFFICES ASSUME IInv, [Next]_vars
             PROVE  IInv'
  OBVIOUS
<1>1. ASSUME NEW m \in Messages, SenderStep(m) \/ KillSender(m)
      PROVE  IInv'
  BY <1>1, BeginIInv, RequestIInv, RecordConfirmedIInv, RecordFailedIInv
     DEF SenderStep
<1>2. ASSUME NEW m \in Messages, HandleRequest(m) \/ RejectRequest(m)
      PROVE  IInv'
  BY <1>2, HandleIInv
<1>3. ASSUME NEW s \in Servers, NEW m \in Messages,
             FailOrphan(s, m) \/ MessageReceived(s, m)
      PROVE  IInv'
  BY <1>3, FailOrphanIInv, MessageReceivedIInv
<1>4. ASSUME \/ \E s \in Servers : ColdStart(s) \/ Serve(s) \/ StopServer(s)
             \/ \E m \in Messages : GraceExpires(m)
      PROVE  IInv'
  BY <1>4, ServerIInv
<1>5. CASE UNCHANGED vars
  BY <1>5 DEF vars, IInv, TypeOK, LogIsALifecycle, SeqNumbersTheLog,
     SenderWritesAtExit, StoredFirst, AnswerMatchesRequest, EffectIffHandled,
     SentMeansHandled, OrphansPastGrace, OutcomeMatchesLog,
     RecoveryOnlyPastGrace
<1> QED
  BY <1>1, <1>2, <1>3, <1>4, <1>5 DEF Next, ServerStep

-----------------------------------------------------------------------------
(* The theorems.                                                           *)

\* The inductive invariant holds in every reachable state.
LEMMA SpecIInv == Spec => []IInv
BY InitIInv, NextIInv, PTL DEF Spec

\* Type correctness.
THEOREM TypeCorrect == Spec => []TypeOK
<1>1. IInv => TypeOK
  BY DEF IInv
<1> QED
  BY <1>1, SpecIInv, PTL

\* However a sender, receipts and any number of recovering servers interleave,
\* the events of a message form a lifecycle, numbered without gap by
\* delivery_seq.
THEOREM LogsAreLifecycles == Spec => []LogIsSound
<1>1. IInv => LogIsSound
  BY DEF IInv, LogIsSound
<1> QED
  BY <1>1, SpecIInv, PTL

\* The store never claims an effect the terminal did not have.
THEOREM NoFalseDelivery == Spec => []RecordedMeansTyped
<1>1. IInv => RecordedMeansTyped
  <2> SUFFICES ASSUME IInv, NEW m \in Messages, log[m] # <<>>
               PROVE  /\ log[m][1] = "submitted" => pty[m] = "entered"
                      /\ log[m][1] = "drafted" => pty[m] = "typed"
    BY DEF RecordedMeansTyped
  <2>1. log[m] \in Lifecycles /\ command[m] \in Commands
    BY DEF IInv, LogIsALifecycle, TypeOK
  <2>2. CASE log[m] \in {<<"failed">>, <<"recovered">>}
    BY <2>2, AppendFirst
  <2>3. CASE log[m] \in {<<"drafted">>, <<"submitted">>,
                         <<"submitted", "received">>}
    BY <2>1, <2>3 DEF IInv, SentMeansHandled, EffectIffHandled, Commands,
       TerminalEffect, ConfirmedEvent
  <2> QED
    BY <2>1, <2>2, <2>3 DEF Lifecycles
<1> QED
  BY <1>1, SpecIInv, PTL

\* The outcome a sender printed and the store never contradict each other.
THEOREM OutcomesAreTrue == Spec => []OutcomeMatchesLog
<1>1. IInv => OutcomeMatchesLog
  BY DEF IInv
<1> QED
  BY <1>1, SpecIInv, PTL

\* Recovery fails only messages past the grace, and only those supersede a
\* sender's confirmed effect.
THEOREM GraceIsRespected == Spec => []RecoveryOnlyPastGrace
<1>1. IInv => RecoveryOnlyPastGrace
  BY DEF IInv
<1> QED
  BY <1>1, SpecIInv, PTL

\* agent prompt invites a resend only when the terminal got nothing.
THEOREM ResendOncePrompted == Spec => []PromptResendIsSafe
<1>1. IInv => PromptResendIsSafe
  BY DEF IInv, PromptResendIsSafe, AnswerMatchesRequest, EffectIffHandled
<1> QED
  BY <1>1, SpecIInv, PTL

\* The delivery events of a message are append-only.
THEOREM LogsAppendOnly == Spec => LogAppendOnly
<1>1. ASSUME IInv, [Next]_vars
      PROVE  AppendsAtMostOne
  <2>1. ASSUME NEW m \in Messages, NEW e \in Events, Record(m, e)
        PROVE  AppendsAtMostOne
    BY <1>1, <2>1 DEF AppendsAtMostOne, Record, IInv, TypeOK
  <2>2. ASSUME log' = log
        PROVE  AppendsAtMostOne
    BY <2>2 DEF AppendsAtMostOne
  <2>3. ASSUME NEW m \in Messages, SenderStep(m)
        PROVE  AppendsAtMostOne
    BY <2>1, <2>2, <2>3 DEF SenderStep, BeginSendAttempt, AbandonSend,
       PersistUnconfirmed, SendRequest, ConnectFails, ReadResponse,
       LoseResponse, RecordConfirmed, RecordFailed, ConfirmedEvent, Events
  <2>4. ASSUME NEW m \in Messages,
               \/ KillSender(m) \/ HandleRequest(m) \/ RejectRequest(m)
               \/ GraceExpires(m)
        PROVE  AppendsAtMostOne
    BY <2>2, <2>4 DEF KillSender, HandleRequest, RejectRequest, GraceExpires
  <2>5. ASSUME NEW s \in Servers, ServerStep(s)
        PROVE  AppendsAtMostOne
    BY <2>1, <2>2, <2>5 DEF ServerStep, ColdStart, Serve, StopServer,
       FailOrphan, MessageReceived, storeVars, Events
  <2>6. CASE UNCHANGED vars
    BY <2>2, <2>6 DEF vars
  <2> QED
    BY <1>1, <2>3, <2>4, <2>5, <2>6 DEF Next
<1> QED
  BY <1>1, SpecIInv, PTL DEF Spec, LogAppendOnly

-----------------------------------------------------------------------------
(* Delivery implements MessageLifecycle.                                   *)

\* A first event of a stored message moves its status from pending to the type
\* of that event, and no other status.
LEMMA FirstEventMoves ==
  ASSUME IInv, NEW m \in Messages, NEW e \in FirstEvents, stored[m],
         log[m] = <<>>, Record(m, e), UNCHANGED stored
  PROVE  /\ Status[m] = "pending"
         /\ Status' = [Status EXCEPT ![m] = EventType(e)]
<1>1. log' = [log EXCEPT ![m] = <<e>>]
  BY RecordFirst
<1>2. Latest(<<e>>) = EventType(e) /\ <<e>> # <<>>
  BY AppendFirst DEF Latest
<1>3. /\ log'[m] = <<e>>
      /\ \A n \in Messages : n # m => log'[n] = log[n]
  BY <1>1 DEF IInv, TypeOK
<1>4. /\ StatusOf(m) = "pending"
      /\ StatusOf(m)' = EventType(e)
      /\ \A n \in Messages : n # m => StatusOf(n)' = StatusOf(n)
  BY <1>2, <1>3 DEF StatusOf, EventLess
<1> QED
  BY <1>4 DEF Status

\* Every step is a step of the lifecycle or leaves every status alone.
LEMMA StepRefines == IInv /\ [Next]_vars => [Lifecycle!Next]_Status
<1> SUFFICES ASSUME IInv, [Next]_vars
             PROVE  [Lifecycle!Next]_Status
  OBVIOUS
<1>1. ASSUME UNCHANGED <<stored, log>>
      PROVE  Status' = Status
  BY <1>1 DEF Status, StatusOf, EventLess
<1>2. ASSUME NEW m \in Messages,
             BeginSendAttempt(m) \/ PersistUnconfirmed(m)
      PROVE  Lifecycle!Store(m)
  <2>1. ~stored[m] /\ log[m] = <<>>
    BY <1>2 DEF BeginSendAttempt, PersistUnconfirmed, IInv, StoredFirst
  <2>2. /\ log' = log
        /\ stored'[m] /\ \A n \in Messages : n # m => stored'[n] = stored[n]
    BY <1>2 DEF BeginSendAttempt, PersistUnconfirmed, IInv, TypeOK
  <2>3. /\ StatusOf(m) = "absent"
        /\ StatusOf(m)' = "pending"
        /\ \A n \in Messages : n # m => StatusOf(n)' = StatusOf(n)
    BY <2>1, <2>2 DEF StatusOf, EventLess
  <2> QED
    BY <2>3 DEF Status, Lifecycle!Store, Lifecycle!Move
<1>3. ASSUME NEW m \in Messages, RecordConfirmed(m)
      PROVE  Status' = Status \/ Lifecycle!Draft(m) \/ Lifecycle!Submit(m)
  <2> DEFINE e == ConfirmedEvent(command[m])
  <2>1. /\ e \in FirstEvents /\ e \in {"drafted", "submitted"}
        /\ stored[m] /\ log[m] \in {<<>>, <<"recovered">>} /\ stored' = stored
    BY <1>3 DEF RecordConfirmed, ConfirmedEvent, FirstEvents, IInv,
       SenderWritesAtExit, StoredFirst
  <2>2. \/ log[m] = <<>> /\ Record(m, e)
        \/ UNCHANGED <<log, seq>>
    BY <1>3, <2>1, SenderTransition DEF RecordConfirmed
  <2>3. CASE log[m] = <<>> /\ Record(m, e)
    <3>1. /\ Status[m] = "pending"
          /\ Status' = [Status EXCEPT ![m] = EventType(e)]
      BY <2>1, <2>3, FirstEventMoves
    <3> QED
      BY <2>1, <3>1 DEF EventType, Lifecycle!Draft, Lifecycle!Submit,
         Lifecycle!Move
  <2> QED
    BY <1>1, <2>1, <2>2, <2>3
<1>4. ASSUME NEW m \in Messages, RecordFailed(m)
      PROVE  Status' = Status \/ Lifecycle!Fail(m)
  <2>1. stored[m] /\ log[m] \in {<<>>, <<"recovered">>} /\ stored' = stored
    BY <1>4 DEF RecordFailed, IInv, SenderWritesAtExit, StoredFirst
  <2>2. \/ log[m] = <<>> /\ Record(m, "failed")
        \/ UNCHANGED <<log, seq>>
    BY <1>4, <2>1, SenderTransition DEF RecordFailed, FirstEvents
  <2>3. CASE log[m] = <<>> /\ Record(m, "failed")
    BY <2>1, <2>3, FirstEventMoves
       DEF FirstEvents, EventType, Lifecycle!Fail, Lifecycle!Move
  <2> QED
    BY <1>1, <2>1, <2>2, <2>3
<1>5. ASSUME NEW s \in Servers, NEW m \in Messages, FailOrphan(s, m)
      PROVE  Status' = Status \/ Lifecycle!Fail(m)
  <2>1. stored[m] /\ stored' = stored
    BY <1>5 DEF FailOrphan, IInv, OrphansPastGrace, StoredFirst
  <2>2. CASE log[m] = <<>> /\ Record(m, "recovered")
    BY <2>1, <2>2, FirstEventMoves
       DEF FirstEvents, EventType, Lifecycle!Fail, Lifecycle!Move
  <2> QED
    BY <1>1, <1>5, <2>1, <2>2 DEF FailOrphan, EventLess
<1>6. ASSUME NEW s \in Servers, NEW m \in Messages, MessageReceived(s, m)
      PROVE  Lifecycle!Receive(m)
  <2>1. /\ log[m] = <<"submitted">>
        /\ log' = [log EXCEPT ![m] = <<"submitted", "received">>]
        /\ stored[m] /\ stored' = stored
    BY <1>6, ReceiptRecords DEF MessageReceived
  <2>2. /\ log'[m] = <<"submitted", "received">>
        /\ \A n \in Messages : n # m => log'[n] = log[n]
    BY <2>1 DEF IInv, TypeOK
  <2>3. /\ Latest(<<"submitted">>) = "submitted"
        /\ Latest(<<"submitted", "received">>) = "received"
    BY DEF Latest, EventType
  <2>4. /\ StatusOf(m) = "submitted"
        /\ StatusOf(m)' = "received"
        /\ \A n \in Messages : n # m => StatusOf(n)' = StatusOf(n)
    BY <2>1, <2>2, <2>3 DEF StatusOf, EventLess
  <2> QED
    BY <2>4 DEF Status, Lifecycle!Receive, Lifecycle!Move
<1>7. ASSUME NEW m \in Messages,
             \/ AbandonSend(m) \/ SendRequest(m) \/ ConnectFails(m)
             \/ ReadResponse(m) \/ LoseResponse(m) \/ KillSender(m)
             \/ HandleRequest(m) \/ RejectRequest(m) \/ GraceExpires(m)
      PROVE  Status' = Status
  BY <1>1, <1>7 DEF AbandonSend, SendRequest, ConnectFails, ReadResponse,
     LoseResponse, KillSender, HandleRequest, RejectRequest, GraceExpires
<1>8. ASSUME NEW s \in Servers, ColdStart(s) \/ Serve(s) \/ StopServer(s)
      PROVE  Status' = Status
  BY <1>1, <1>8 DEF ColdStart, Serve, StopServer, storeVars
<1>9. CASE UNCHANGED vars
  BY <1>1, <1>9 DEF vars
<1> QED
  BY <1>2, <1>3, <1>4, <1>5, <1>6, <1>7, <1>8, <1>9
     DEF Next, SenderStep, ServerStep, Lifecycle!Next

\* The senders, servers and receivers together implement the lifecycle of a
\* message that zynk inbox and zynk thread present.
THEOREM ImplementsLifecycle == Spec => RefinesLifecycle
<1>1. Init => Lifecycle!Init
  BY DEF Init, Lifecycle!Init, Status, StatusOf
<1> QED
  BY <1>1, StepRefines, SpecIInv, PTL DEF Spec, RefinesLifecycle, Lifecycle!Spec

=============================================================================
