----------------------------- MODULE MCIdentity -----------------------------
(* Identity for TLC: keys are alike. *)
EXTENDS Identity, TLC

KeySymmetry == Permutations(Keys)
=============================================================================
