---------------------------- MODULE MCAgentWait ----------------------------
(* Instances of AgentWait. *)
EXTENDS AgentWait

Ask(kind, target, until, timeout) ==
  [kind |-> kind, target |-> target, until |-> until, timeout |-> timeout]

\* What an empty list of states stands for.
DefaultUntil == {"Idle", "Done", "Blocked"}

\* The requests of the passing run: waits by name and by terminal, for the
\* usual states and for Idle alone; prompts with and without a timeout; and
\* events.wait for a status that also comes without an event.
MCRequests ==
  {Ask("wait", "name", DefaultUntil, "none"),
   Ask("wait", "terminal", DefaultUntil, "none"),
   Ask("wait", "name", {"Idle"}, "long"),
   Ask("prompt", "name", DefaultUntil, "none"),
   Ask("prompt", "name", DefaultUntil, "short"),
   Ask("events", "terminal", {"Idle"}, "none"),
   Ask("events", "terminal", {"Working"}, "long")}

\* The subscription is a loop of four steps: one turn less.
MCMaxTurns == [kind \in Kinds |-> IF kind = "events" THEN 2 ELSE 3]

MCPrompts == {Ask("prompt", "name", DefaultUntil, "none")}

=============================================================================
