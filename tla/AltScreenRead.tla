---------------------------- MODULE AltScreenRead ----------------------------
(***************************************************************************)
(* One traversal of an idle agent's alternate screen                       *)
(* (PendingAltScreenRead).  The server has no history of an alternate      *)
(* screen: it sends the application mouse-wheel events, reads the screen   *)
(* after each redraw, puts the rows together and scrolls back down.  The   *)
(* server polls; the application reacts when it likes, redraws in pieces,  *)
(* or prints something of its own.                                         *)
(*                                                                         *)
(* Positions count wheel events above the bottom.  A screen is a position  *)
(* and a text, which changes when the application changes more rows than   *)
(* similar_text tolerates: screens are similar when both agree, and a      *)
(* screen in the middle of a redraw is like no other.  The smaller changes *)
(* (a clock, a spinner) matter to merge_scrolled_up only.                  *)
(* Deadlines are flags that time raises whatever the application does;     *)
(* late remembers that a step was over before its redraw.                  *)
(***************************************************************************)
EXTENDS Integers, Sequences, SequencesExt

CONSTANTS Top,        \* the position of the oldest rows
          WheelStep,  \* WHEEL_STEP_EVENTS
          Height,     \* events that scroll a whole screen
          Lines,      \* how many rows may be asked for, in events
          MaxTexts    \* bound: times the application prints

ASSUME BoundsAssumption ==
  /\ Top \in Nat \ {0} /\ WheelStep \in Nat \ {0} /\ Height \in Nat \ {0}
  /\ Lines \subseteq Nat \ {0} /\ MaxTexts \in Nat

VARIABLES
  read,       \* the PendingAltScreenRead
  old,        \* MAX_DURATION has passed since it started
  late,       \* a step was over with wheel events unread or a redraw
              \* unfinished (history of the application, for the properties)
  answer,     \* what it answered
  fresh,      \* there is output the read has not observed
  view,       \* the position the application has scrolled to
  shown,      \* the position the terminal shows, or Torn in a redraw
  sync,       \* the redraw is a synchronized one (DEC mode 2026)
  text,       \* what the application shows
  wheels,     \* wheel events the application has not read
  start,      \* where the application was scrolled to at the start
  busy        \* the agent is not idle, or a client is attached

appVars == <<view, shown, sync, text>>
timeVars == <<old, late>>
envVars == <<start, busy>>
vars == <<read, timeVars, answer, fresh, appVars, wheels, envVars>>

Torn == Top + 1
Screen == [at |-> shown, text |-> text]
Phases == {"SettleInitial", "ProbeBottom", "RestoreProbe", "Harvest",
           "Restore", "done"}
NoAnswer == [kind |-> "none", truncated |-> FALSE, why |-> "none"]

Init ==
  /\ view \in 0 .. Top /\ shown = view /\ start = view
  /\ text = 0 /\ sync = FALSE /\ wheels = <<>> /\ fresh = FALSE
  /\ \E lines \in Lines :
       read = [phase |-> "SettleInitial", valid |-> TRUE, lines |-> lines,
               initial |-> Screen, previous |-> Screen, reached |-> view,
               reachedTop |-> FALSE, ups |-> 0, stepDue |-> FALSE,
               quiet |-> FALSE, seen |-> FALSE, syncPending |-> FALSE,
               restoring |-> "no"]
  /\ old = FALSE /\ late = FALSE /\ answer = NoAnswer
  /\ busy = FALSE

Running == read.phase # "done"

-----------------------------------------------------------------------------
(* What a poll may end with; r is the read as the poll has changed it *)

Least(m, n) == IF m < n THEN m ELSE n

\* Events of one direction that follow each other; more than Top of them
\* scroll to the end like Top.
Push(dir, n) ==
  IF wheels # <<>> /\ Last(wheels).dir = dir
  THEN [wheels EXCEPT ![Len(wheels)].n = Least(@ + n, Top)]
  ELSE Append(wheels, [dir |-> dir, n |-> Least(n, Top)])

ArmStep(r) ==
  [r EXCEPT !.stepDue = FALSE, !.quiet = FALSE, !.seen = FALSE,
            !.syncPending = FALSE]

\* Still pending.
Keep(r) == read' = r /\ fresh' = FALSE /\ UNCHANGED <<wheels, answer>>

Finish(r, kind, truncated, why) ==
  /\ read' = [ArmStep(r) EXCEPT !.phase = "done"]
  /\ answer' = [kind |-> kind, truncated |-> truncated, why |-> why]
  /\ fresh' = FALSE /\ UNCHANGED wheels
Fallback(r, why) == Finish(r, "fallback", FALSE, why)
Success(r) ==
  Finish(r, "success",
         ~r.reachedTop \/ r.reached - r.initial.at > r.lines, "restored")

\* send_wheel: the application may have turned off mouse reports, or the input
\* queue is full.
SendWheel(r, dir, n, next) ==
  \/ Fallback(r, "failed")
  \/ /\ wheels' = Push(dir, n) /\ read' = ArmStep(next)
     /\ fresh' = FALSE /\ UNCHANGED answer

StartHarvestUnsaturated(r) ==
  SendWheel(r, "up", WheelStep,
            [r EXCEPT !.phase = "Harvest", !.ups = @ + WheelStep])

StartHarvest(r) ==
  SendWheel(r, "up", WheelStep,
            [r EXCEPT !.phase = "Harvest",
                      !.ups = Least(@ + WheelStep, Top)])

StartRestore(r) ==
  IF r.ups = 0 THEN Fallback(r, "intact")
  ELSE SendWheel(r, "down", r.ups,
                 [r EXCEPT !.phase = "Restore", !.restoring = "yes"])

-----------------------------------------------------------------------------
(* The screen, phase by phase.  due: the step has expired; hurry: the whole  *)
(* traversal has.                                                            *)

\* What merge_scrolled_up may make of the next screen.  Unchanged is exact, so
\* a clock is enough to miss it; the rows may fail to align.
Merges(previous, next) ==
  IF next = previous THEN {"Unchanged", "Unaligned"}
  ELSE IF /\ next.at # Torn /\ previous.at < next.at
          /\ next.at - previous.at < Height
  THEN {"Advanced", "Unaligned"} ELSE {"Unaligned"}

Settle(r) ==
  IF r.seen \/ Screen # r.initial
  THEN Keep([r EXCEPT !.initial = Screen, !.previous = Screen,
                      !.reached = shown, !.seen = FALSE, !.stepDue = FALSE])
  ELSE SendWheel(r, "down", WheelStep, [r EXCEPT !.phase = "ProbeBottom"])

ProbeHasty(r, hurry) ==
  IF Screen = r.initial
  THEN IF r.valid THEN StartHarvest(r) ELSE Fallback(r, "intact")
  ELSE SendWheel(r, "up", WheelStep,
                 [r EXCEPT !.phase = "RestoreProbe", !.restoring = "yes"])

Probe(r, hurry) ==
  IF Screen = r.initial
  THEN IF r.seen /\ ~r.stepDue /\ ~hurry THEN Keep([r EXCEPT !.seen = FALSE])
       ELSE IF r.valid THEN StartHarvest(r)
       ELSE Fallback(r, IF hurry THEN "expired" ELSE "intact")
  ELSE SendWheel(r, "up", WheelStep,
                 [r EXCEPT !.phase = "RestoreProbe", !.restoring = "yes"])

RestoreProbe(r) ==
  IF Screen = r.initial THEN Fallback(r, "restored")
  ELSE Keep([r EXCEPT !.seen = FALSE, !.stepDue = FALSE])

Advance(r) ==
  LET next == [r EXCEPT !.previous = Screen, !.reached = shown]
  IN  IF shown - r.initial.at >= r.lines THEN StartRestore(next)
      ELSE StartHarvest(next)

HarvestUnsettled(r) ==
  \E merge \in Merges(r.previous, Screen) :
    CASE merge = "Advanced" -> Advance(r)
      [] merge = "Unchanged" -> StartRestore([r EXCEPT !.reachedTop = TRUE])
      [] OTHER -> StartRestore([r EXCEPT !.valid = FALSE])

Harvest(r) ==
  \E merge \in Merges(r.previous, Screen) :
    CASE merge = "Advanced" -> Advance(r)
      [] merge = "Unchanged" /\ r.stepDue ->
           StartRestore([r EXCEPT !.reachedTop = TRUE])
      [] merge = "Unaligned" /\ r.stepDue ->
           StartRestore([r EXCEPT !.valid = FALSE])
      [] OTHER -> Keep([r EXCEPT !.seen = FALSE])

\* restore_batch_size: half a screen.
Restore(r) ==
  IF Screen = r.initial
  THEN IF r.valid THEN Success(r) ELSE Fallback(r, "restored")
  ELSE IF r.stepDue \/ Screen # r.previous
  THEN SendWheel(r, "down", IF Height > 1 THEN Height \div 2 ELSE 1,
                 [r EXCEPT !.previous = Screen])
  ELSE Keep([r EXCEPT !.seen = FALSE])

ByPhase(r, hurry) ==
  CASE read.phase = "SettleInitial" -> Settle(r)
    [] read.phase = "ProbeBottom" -> Probe(r, hurry)
    [] read.phase = "RestoreProbe" -> RestoreProbe(r)
    [] read.phase = "Harvest" -> Harvest(r)
    [] read.phase = "Restore" -> Restore(r)

-----------------------------------------------------------------------------
(* One poll *)

\* poll, or abort when the agent is no longer left alone.
Polled == IF busy THEN [read EXCEPT !.valid = FALSE] ELSE read

HastensUnlessRestoring ==
  (busy \/ old) /\ read.phase \in {"SettleInitial", "Harvest"}

\* It ends, or turns back, before it looks at the output.
Hastens ==
  \/ read.restoring = "expired"
  \/ (busy \/ old) /\ read.phase \in {"SettleInitial", "Harvest"}

PollHastens ==
  /\ Running /\ Hastens
  /\ CASE read.phase = "SettleInitial" -> Fallback(Polled, "intact")
       [] read.phase = "Harvest" -> StartRestore([read EXCEPT !.valid = FALSE])
       [] OTHER -> Fallback(Polled, "expired")
  /\ UNCHANGED <<timeVars, appVars, envVars>>

\* The pane has been closed.
PollGone ==
  /\ Running /\ Fallback(Polled, "gone")
  /\ UNCHANGED <<timeVars, appVars, envVars>>

Hurry == old /\ read.phase = "ProbeBottom"
SyncDone == fresh /\ read.syncPending /\ ~sync

\* The read after the output is taken note of.
Noted ==
  [Polled EXCEPT !.valid = @ /\ ~Hurry,
                 !.seen = @ \/ fresh,
                 !.quiet = ~SyncDone /\ (@ \/ fresh),
                 !.syncPending = @ /\ ~SyncDone]
Waiting == ~Hurry /\ (Noted.quiet \/ sync)

\* Output, or the synchronized update it belongs to, is not over, or nothing
\* has happened yet.
PollWaits ==
  /\ Running /\ ~Hastens
  /\ \/ ~Hurry /\ Noted.quiet /\ Keep(Noted)
     \/ ~Hurry /\ ~Noted.quiet /\ sync
        /\ Keep([Noted EXCEPT !.syncPending = TRUE])
     \/ ~Waiting /\ ~Noted.stepDue /\ ~Noted.seen
        /\ Keep([Noted EXCEPT !.quiet = FALSE])
  /\ UNCHANGED <<timeVars, appVars, envVars>>

Looks == Running /\ ~Hastens /\ ~Waiting /\ (Noted.stepDue \/ Noted.seen)
Quieted == [Noted EXCEPT !.quiet = FALSE]

\* The application may have left the alternate screen, or its size.
PollLooks ==
  /\ Looks
  /\ Fallback(Quieted, "gone") \/ ByPhase(Quieted, Hurry)
  /\ UNCHANGED <<timeVars, appVars, envVars>>

\* Output arrives while the screen is read: no snapshot, or an outdated one.
PollRaced ==
  /\ Looks
  /\ \/ IF Hurry THEN Fallback(Quieted, "expired")
        ELSE Keep([Quieted EXCEPT !.seen = FALSE])
     \/ /\ read' = [Quieted EXCEPT !.seen = FALSE] /\ fresh' = TRUE
        /\ UNCHANGED <<wheels, answer>>
  /\ UNCHANGED <<timeVars, appVars, envVars>>

-----------------------------------------------------------------------------
(* Time *)

QuietOver ==
  /\ Running /\ read.quiet /\ read' = [read EXCEPT !.quiet = FALSE]
  /\ UNCHANGED <<timeVars, answer, fresh, appVars, wheels, envVars>>

StepTimeout ==
  /\ Running /\ ~read.stepDue
  /\ read' = [read EXCEPT !.stepDue = TRUE]
  /\ late' = (late \/ wheels # <<>> \/ shown = Torn)
  /\ UNCHANGED <<old, answer, fresh, appVars, wheels, envVars>>

TraversalExpires ==
  /\ read.phase \in {"SettleInitial", "ProbeBottom", "Harvest"}
  /\ ~old /\ old' = TRUE
  /\ UNCHANGED <<read, late, answer, fresh, appVars, wheels, envVars>>

RestoreExpires ==
  /\ Running /\ read.restoring = "yes"
  /\ read' = [read EXCEPT !.restoring = "expired"]
  /\ UNCHANGED <<timeVars, answer, fresh, appVars, wheels, envVars>>

-----------------------------------------------------------------------------
(* The application, the agent and the pane *)

Scrolled(at, dir, n) ==
  IF dir = "up" THEN Least(at + n, Top) ELSE IF n < at THEN at - n ELSE 0

\* The application reads some wheel events and redraws at once or in pieces.
Scroll(n) ==
  /\ Running /\ shown # Torn
  /\ wheels # <<>> /\ n <= Head(wheels).n
  /\ view' = Scrolled(view, Head(wheels).dir, n)
  /\ wheels' = IF n = Head(wheels).n THEN Tail(wheels)
               ELSE [wheels EXCEPT ![1].n = @ - n]
  /\ \/ shown' = view' /\ UNCHANGED sync
     \/ view' # view /\ shown' = Torn /\ sync' \in BOOLEAN
  /\ \/ fresh' = TRUE
     \/ view' = view /\ UNCHANGED fresh
  /\ UNCHANGED <<read, timeVars, answer, text, envVars>>

EndRedraw ==
  /\ Running /\ shown = Torn
  /\ shown' = view /\ sync' = FALSE /\ fresh' = TRUE
  /\ UNCHANGED <<read, timeVars, answer, view, text, wheels, envVars>>

\* Output that changes what is shown, or nothing visible (a title).
ShowText ==
  /\ Running /\ text < MaxTexts /\ text' = text + 1 /\ fresh' = TRUE
  /\ UNCHANGED <<read, timeVars, answer, view, shown, sync, wheels, envVars>>

Noise ==
  /\ Running /\ ~fresh /\ fresh' = TRUE
  /\ UNCHANGED <<read, timeVars, answer, appVars, wheels, envVars>>

BecomeBusy ==
  /\ Running /\ busy' = ~busy
  /\ UNCHANGED <<read, timeVars, answer, fresh, appVars, wheels, start>>

Poll == PollHastens \/ PollGone \/ PollWaits \/ PollLooks \/ PollRaced

Redraw == (\E n \in 1 .. Top : Scroll(n)) \/ EndRedraw

Next ==
  \/ Poll
  \/ QuietOver \/ StepTimeout \/ TraversalExpires \/ RestoreExpires
  \/ Redraw \/ ShowText \/ Noise
  \/ BecomeBusy

Spec == Init /\ [][Next]_vars

\* The main loop polls and time passes; output does not hit every snapshot
\* for ever.  The application owes nothing: it may hang at any moment.
FairSpec ==
  /\ Spec /\ WF_vars(Poll) /\ SF_vars(PollLooks)
  /\ WF_vars(StepTimeout) /\ WF_vars(TraversalExpires)
  /\ WF_vars(RestoreExpires)

-----------------------------------------------------------------------------
TypeOK ==
  /\ read.phase \in Phases /\ read.restoring \in {"no", "yes", "expired"}
  /\ read.reached \in 0 .. Torn /\ read.ups \in 0 .. Top
  /\ answer.kind \in {"none", "success", "fallback"}
  /\ view \in 0 .. Top /\ shown \in {view, Torn}
  /\ \A i \in DOMAIN wheels :
       wheels[i].dir \in {"up", "down"} /\ wheels[i].n \in 1 .. Top

\* Where the application will have scrolled to once it has read its input.
Replay(at, ws) ==
  LET to[i \in 0 .. Len(ws)] ==
        IF i = 0 THEN at ELSE Scrolled(to[i - 1], ws[i].dir, ws[i].n)
  IN  to[Len(ws)]
Final == Replay(view, wheels)

\* A traversal that has not run out of time, failed to send or lost its screen
\* leaves the application scrolled to where it found it, also when it was cut
\* short: what is released after it meets the screen its sender saw.  From the
\* bottom that holds however late the application redraws; from further up
\* when no redraw is late.  Only a traversal that began less than a step above
\* the bottom may end elsewhere, a step above it: the bottom cut the probe's
\* step down short, and its undoing is a whole step up.
ViewportComesBack ==
  answer.why \in {"restored", "intact"} /\ (late => start = 0) =>
    \/ Final = start
    \/ start \in 1 .. WheelStep - 1 /\ Final = Scrolled(0, "up", WheelStep)

\* A result that is not marked truncated goes back to the oldest rows.
\* (SPEC.md: "A bounded result marks truncation when omitted history exists".)
TruncationIsTold ==
  answer.kind = "success" /\ ~answer.truncated => read.reached = Top

\* The mark is missing only from a read during which the application redrew
\* later than STEP_TIMEOUT: nothing else (a torn screen, an application that
\* prints, an abort) makes the read take a screen for the top.
OnlyLatenessHidesTruncation == ~late => TruncationIsTold

\* Whatever the application does, the traversal comes to an end, and the
\* requests that wait for it are released.
TraversalEnds == <>(read.phase = "done")

=============================================================================
