------------------------------- MODULE MCDelegate -------------------------------
(* Delegate with function objects of two sizes.                            *)
EXTENDS DelegateProofs, TLC

MCSizeOf == [type \in Types |-> IF type = "small" THEN 1 ELSE 2]
MCSymmetry == Permutations(Delegates) \cup Permutations(Blocks)
================================================================================
