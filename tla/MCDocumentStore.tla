-------------------------- MODULE MCDocumentStore --------------------------
(***************************************************************************)
(* Instances of DocumentStore for TLC.                                     *)
(***************************************************************************)
EXTENDS DocumentStore, TLC

CONSTANTS c1, c2, c3, h1, h2, w1, w2

HandlerSymmetry == Permutations(Handlers)

=============================================================================
