---------------------------- MODULE MCFolderTree ---------------------------
(***************************************************************************)
(* Instances of FolderTree for TLC.                                        *)
(***************************************************************************)
EXTENDS FolderTree, TLC

CONSTANTS f1, f2, f3, d1, d2, h1, h2

\* Folders, documents and handlers are interchangeable.
Symmetry == Permutations(Folders) \cup Permutations(Docs) \cup Permutations(Handlers)

=============================================================================
