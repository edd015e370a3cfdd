------------------------------ MODULE MCServer ------------------------------
(* An operator, SIGTERM and the alarm share a fifo of one command, with two  *)
(* SIP threads.                                                              *)
EXTENDS Server
===============================================================================
