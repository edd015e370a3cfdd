--------------------------- MODULE MCRegistrations ---------------------------
(* A small instance of Registrations for TLC. *)
EXTENDS Registrations
===============================================================================
