---------------------------- MODULE MCSwapCables ----------------------------
(***************************************************************************)
(* SwapCables with two cables, the four interfaces it takes to have        *)
(* something to swap, and a front port.                                    *)
(***************************************************************************)
EXTENDS SwapCables, TLC

Symmetry == Permutations(Cables) \cup Permutations(Interfaces)
=============================================================================
