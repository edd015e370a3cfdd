----------------------------- MODULE MCBackground -----------------------------
(* Small instances of Background for TLC. *)
EXTENDS Background
===============================================================================
