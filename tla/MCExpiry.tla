------------------------------- MODULE MCExpiry -------------------------------
(* Model values for the pieces of Expiry; they are interchangeable. *)
EXTENDS Expiry, TLC

KeySymmetry == Permutations(Keys)
=============================================================================
