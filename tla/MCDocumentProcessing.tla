------------------------ MODULE MCDocumentProcessing ------------------------
(***************************************************************************)
(* Instances of DocumentProcessing for TLC.                                *)
(***************************************************************************)
EXTENDS DocumentProcessing

CONSTANTS c1, c2, c3, h1, w1, w2

=============================================================================
