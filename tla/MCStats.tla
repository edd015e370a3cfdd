------------------------------- MODULE MCStats --------------------------------
(* Two calls, and two registrations of which one finds no node. *)
EXTENDS Stats, TLC

MCLimit == [r \in Registries |-> 1]

\* Calls are interchangeable.
Symmetry == Permutations(Calls)
===============================================================================
