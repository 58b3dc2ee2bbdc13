------------------------------ MODULE MCPatches ------------------------------
(* A small instance of Patches.                                            *)
EXTENDS Patches

CONSTANTS c1, c2

(* Both libraries, and a list that names one of them twice.                *)
MCLists == {<<c1, c2>>, <<c2, c2>>}
=============================================================================
