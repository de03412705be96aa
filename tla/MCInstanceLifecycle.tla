------------------------- MODULE MCInstanceLifecycle -------------------------
(* Small instances of InstanceLifecycle for TLC. *)
EXTENDS InstanceLifecycle, TLC

Symmetry == Permutations(Hp) \cup Permutations(Pids) \cup Permutations(Specs)
=============================================================================
