----------------------------- MODULE MCRollout ------------------------------
EXTENDS ModelRollout, TLC

CONSTANTS o1, o2

(* The two operations after the first binding are interchangeable. *)
MCOps      == {Boot, o1, o2}
MCSymmetry == Permutations({o1, o2})

(* A second window is met with a crash or with a fault, one of the two. *)
MCBound == seen = 2 => crashes = 0 \/ faults = 0
=============================================================================
