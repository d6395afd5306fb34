------------------------------- MODULE MCStore -------------------------------
(* Model values for the keys of Store; keys are interchangeable. *)
EXTENDS Store, TLC

KeySymmetry == Permutations(Keys)
=============================================================================
