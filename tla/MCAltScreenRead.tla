--------------------------- MODULE MCAltScreenRead --------------------------
(* Instances of AltScreenRead for TLC.                                     *)
EXTENDS AltScreenRead

=============================================================================
