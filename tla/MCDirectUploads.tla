-------------------------- MODULE MCDirectUploads --------------------------
(***************************************************************************)
(* Instances of DirectUploads for TLC.                                     *)
(***************************************************************************)
EXTENDS DirectUploads

CONSTANTS u1, u2, r1, r2

\* Two uploads that do not fit together beside each other: 2 + 3 > 4.
Sizes == [u \in Uploads |-> IF u = u1 THEN 2 ELSE 3]

=============================================================================
