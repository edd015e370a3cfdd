------------------------------ MODULE MCTimeslot ------------------------------
(* Small instances of Timeslot for TLC. *)
EXTENDS Timeslot

CONSTANTS udp, tcp, r1, r2

OneContextOf == [c \in Cids |-> udp]
\* Odd call ids arrive over udp, even ones over tcp.
TwoContextOf == [c \in Cids |-> IF c % 2 = 1 THEN udp ELSE tcp]
LimitOne == [r \in Registries |-> IF r = r1 THEN 1 ELSE 0]
LimitTwo == [r \in Registries |-> IF r = r1 THEN 2 ELSE 0]
===============================================================================
