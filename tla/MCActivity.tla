----------------------------- MODULE MCActivity ----------------------------
(***************************************************************************)
(* Instances of Activity for TLC.                                          *)
(***************************************************************************)
EXTENDS Activity, TLC

CONSTANTS w1, w2

=============================================================================
