------------------------------ MODULE MCTrading ------------------------------
(* A small instance of Trading for TLC; the .cfg file gives its bounds.       *)
EXTENDS Trading

=============================================================================
