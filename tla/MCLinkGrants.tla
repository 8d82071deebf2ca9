---------------------------- MODULE MCLinkGrants ---------------------------
(***************************************************************************)
(* Instances of LinkGrants for TLC.                                        *)
(***************************************************************************)
EXTENDS LinkGrants, TLC

CONSTANTS v1, v2, e1, e2, p1, p2, k1, k2

Locks(password, emails) == [password |-> password, emails |-> emails]

\* For one address; for another, behind a password; behind another password.
ThreeLocks == {Locks(None, {e1}), Locks(p1, {e2}), Locks(p2, {})}

\* Browsers of one person, with the address e1 and the password p1.
Mailboxes == [v \in Visitors |-> e1]
Known     == [v \in Visitors |-> {p1}]

Symmetry == Permutations(Visitors) \cup Permutations(CodeIds)

=============================================================================
