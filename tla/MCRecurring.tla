---------------------------- MODULE MCRecurring -----------------------------
(***************************************************************************)
(* Instances of Recurring for TLC: two nodes and one definition, since the *)
(* locks, entries and callbacks of different definitions do not interact.  *)
(***************************************************************************)
EXTENDS Recurring, TLC

CONSTANTS n1, n2, d1

=============================================================================
