--------------------------------- MODULE MCDbi ---------------------------------
(* Small instances of Dbi for TLC. *)
EXTENDS Dbi
===============================================================================
