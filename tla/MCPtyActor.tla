----------------------------- MODULE MCPtyActor -----------------------------
(* Instances of PtyActor: a task that waits for room in the queue (w1) beside *)
(* callers that never wait.                                                   *)
EXTENDS PtyActor

CONSTANT w1

=============================================================================
