----------------------------- MODULE MCToolBatch -----------------------------
(***************************************************************************)
(* ToolBatch for TLC.  Actions are only compared for equality, so          *)
(* permuting the signatures permutes behaviours.                           *)
(***************************************************************************)
EXTENDS ToolBatch

Symmetry == Permutations(Signatures)
=============================================================================
