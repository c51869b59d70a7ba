----------------------------- MODULE MCInputScan -----------------------------
(* Two cells: what one does must not depend on the other. *)
EXTENDS InputScan, TLC
Cells == Permutations(Cell)
=============================================================================
