--------------------------- MODULE MCLinkViewers ---------------------------
(***************************************************************************)
(* Instances of LinkViewers, and of the link under it, for TLC.            *)
(***************************************************************************)
EXTENDS LinkViewers, TLC

CONSTANTS v1, v2, m1, n1, n2, w1, w2

Symmetry == Permutations(Visitors) \cup Permutations(Networks) \cup Permutations(Writers)

=============================================================================
