---------------------------- MODULE MCImageCache ----------------------------
(* ImageCache for TLC: the jobs are alike. *)
EXTENDS ImageCache, TLC

JobSymmetry == Permutations(Jobs)
=============================================================================
