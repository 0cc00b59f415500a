---------------------------- MODULE PauseControl ----------------------------
(***************************************************************************)
(* The pause/idle coordination shared by the two database workers of a     *)
(* server.  Every operation holds the mutex for its whole body except      *)
(* pause, which waits on the condition variable: SetPaused is its first    *)
(* half and Quiescent the condition it waits for.                          *)
(***************************************************************************)
EXTENDS Naturals

VARIABLES
  paused,    \* nothing new is accepted
  idle,      \* the loop is between units of work
  stopping,  \* the owner is shutting the loop down
  queued     \* units accepted into a queue but not yet started

pauseVars == <<paused, idle, stopping, queued>>

PauseTypeOK ==
  /\ paused \in BOOLEAN /\ idle \in BOOLEAN /\ stopping \in BOOLEAN
  /\ queued \in Nat

\* A new control is busy until the loop reports idle.
PauseInit ==
  /\ paused = FALSE /\ idle = FALSE /\ stopping = FALSE /\ queued = 0

\* spawn gives a worker a control of its own.
NewControl ==
  /\ paused' = FALSE /\ idle' = FALSE /\ stopping' = FALSE /\ queued' = 0

Accepting == ~paused /\ ~stopping

Quiescent == idle /\ queued = 0

\* try_enqueue returned true.
TryEnqueue ==
  Accepting /\ queued' = queued + 1 /\ UNCHANGED <<paused, idle, stopping>>

\* saturating_sub(1)
Decremented == IF queued = 0 THEN 0 ELSE queued - 1

Unenqueue == queued' = Decremented /\ UNCHANGED <<paused, idle, stopping>>

BeginWorkKeepIdle ==
  queued' = Decremented /\ UNCHANGED <<paused, idle, stopping>>

BeginWorkTwice ==
  queued' = queued - 2 /\ idle' = FALSE /\ UNCHANGED <<paused, stopping>>

\* The worker takes a queued unit into flight; it never waits for a pause.
BeginWork ==
  queued' = Decremented /\ idle' = FALSE /\ UNCHANGED <<paused, stopping>>

\* set_idle and end_work
SetIdle == idle' = TRUE /\ UNCHANGED <<paused, stopping, queued>>

SetPaused == paused' = TRUE /\ UNCHANGED <<idle, stopping, queued>>

Resume == paused' = FALSE /\ UNCHANGED <<idle, stopping, queued>>

Stop == stopping' = TRUE /\ paused' = FALSE /\ UNCHANGED <<idle, queued>>

=============================================================================
