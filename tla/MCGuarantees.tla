---------------------------- MODULE MCGuarantees ----------------------------
(***************************************************************************)
(* Symmetry for the model checker: the guarantors of a run have the same   *)
(* savings, and a worker is as good as another.                            *)
(***************************************************************************)
EXTENDS Guarantees, TLC

Symmetric == Permutations(Members) \cup Permutations(Workers)
=============================================================================
