------------------------- MODULE MCAccountSessions -------------------------
(***************************************************************************)
(* Instances of AccountSessions for TLC.                                   *)
(***************************************************************************)
EXTENDS AccountSessions, TLC

CONSTANTS h1, h2, s1, s2, t1, t2, t3, m1, m2

\* Handlers and the identities of rows are interchangeable.
Symmetry == Permutations(Handlers) \cup Permutations(Sessions)
            \cup Permutations(Tokens) \cup Permutations(Mails)

=============================================================================
