---------------------------- MODULE MCImageCache ----------------------------
(* Small instances of ImageCache for TLC. *)
EXTENDS ImageCache, TLC

Symmetry == Permutations(Hp) \cup Permutations(Versions)
=============================================================================
