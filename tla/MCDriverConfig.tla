---------------------------- MODULE MCDriverConfig ----------------------------
(* Small instances of DriverConfig for TLC. *)
EXTENDS DriverConfig
===============================================================================
