------------------------------- MODULE MCDuel -------------------------------
(* A small instance of Duel for TLC; the .cfg files give its bounds.         *)
EXTENDS Duel

=============================================================================
