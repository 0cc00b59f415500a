-------------------------- MODULE MessageLifecycle --------------------------
(***************************************************************************)
(* What the delivery record of a message promises, without the processes   *)
(* that keep it: a stored message is pending until its first event, a      *)
(* draft or a submission may be recorded once, a receipt only follows a    *)
(* submission, and a failure is final.  This is the status that zynk inbox *)
(* and zynk thread show, and the vocabulary of ADR 0002.                   *)
(***************************************************************************)
CONSTANT Messages

VARIABLE status

Statuses == {"absent", "pending", "drafted", "submitted", "received", "failed"}

Move(m, from, to) ==
  /\ status[m] = from
  /\ status' = [status EXCEPT ![m] = to]

Init == status = [m \in Messages |-> "absent"]

Store(m) == Move(m, "absent", "pending")
Draft(m) == Move(m, "pending", "drafted")
Submit(m) == Move(m, "pending", "submitted")
Receive(m) == Move(m, "submitted", "received")
Fail(m) == Move(m, "pending", "failed")

Next == \E m \in Messages :
          Store(m) \/ Draft(m) \/ Submit(m) \/ Receive(m) \/ Fail(m)

Spec == Init /\ [][Next]_status

=============================================================================
