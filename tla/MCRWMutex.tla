----------------------------- MODULE MCRWMutex -----------------------------
(* The hashstore's mutex for a few goroutines. *)
EXTENDS RWMutex
=============================================================================
