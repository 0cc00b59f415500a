--------------------------- MODULE MCReceiptWorker --------------------------
(* Instances of ReceiptWorker for TLC.                                     *)
EXTENDS ReceiptWorker

=============================================================================
