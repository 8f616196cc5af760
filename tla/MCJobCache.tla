----------------------------- MODULE MCJobCache -----------------------------
(***************************************************************************)
(* Instances of JobCache for TLC.                                          *)
(***************************************************************************)
EXTENDS JobCache, TLC

(* A directory with a foreign manifest, and valid ones of two ages.        *)
MCLeftovers ==
    {[manifest |-> "bad", size |-> 1, stamp |-> 0],
     [manifest |-> "valid", size |-> 1, stamp |-> 1],
     [manifest |-> "valid", size |-> 1, stamp |-> 2]}

Symmetry == Permutations(Procs) \cup Permutations(Jobs)
=============================================================================
