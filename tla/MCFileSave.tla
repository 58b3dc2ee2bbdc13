----------------------------- MODULE MCFileSave ------------------------------
(* A small instance of FileSave.                                           *)
EXTENDS FileSave, TLC

MCSymmetry == Permutations(RustSavers) \cup Permutations(Savers \ RustSavers)
=============================================================================
