------------------------------ MODULE MCInbox ------------------------------
(***************************************************************************)
(* Instances of Inbox for TLC.                                             *)
(***************************************************************************)
EXTENDS Inbox, TLC

CONSTANTS e1, e2, k1, k2

Symmetry == Permutations(Passes)

=============================================================================
