------------------------------- MODULE MCLoot -------------------------------
(* A small instance of Loot for TLC: two looters in their order.             *)
EXTENDS Loot

CONSTANTS a, b

TwoLooters == <<a, b>>

=============================================================================
