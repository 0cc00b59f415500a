--------------------------- MODULE MCLiveHandoff ----------------------------
(* Instances of LiveHandoff: three panes, of which two fit in a handoff. *)
EXTENDS LiveHandoff

CONSTANTS p1, p2, p3

MCPanes == {p1, p2, p3}

=============================================================================
