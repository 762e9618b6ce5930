------------------------------- MODULE MCUndo -------------------------------
(***************************************************************************)
(* A document and "+out", two characters, a log of two runs of two.        *)
(***************************************************************************)
EXTENDS Undo
=============================================================================
