--------------------------------- MODULE MCDB ---------------------------------
(* The db with one caller of Create and one of Compact. *)
EXTENDS DB
=============================================================================
