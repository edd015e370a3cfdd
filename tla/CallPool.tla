------------------------------- MODULE CallPool -------------------------------
(***************************************************************************)
(* What the pool of timeslots promises to the rest of the server, without  *)
(* its lists, locks, counters and threads: a slot carries one call at a    *)
(* time, a call is carried at most once in its life, and a registration    *)
(* never has more calls carried than its limit allows.                     *)
(***************************************************************************)
EXTENDS Naturals, FiniteSets

CONSTANTS
    Slots,
    Cids,
    Registries,
    Limited,        \* registrations whose limit is enforced
    Limit,
    NoRegistry

VARIABLES
    carries,        \* carries[s]: the call that slot s carries, or 0
    account,        \* account[s]: the registration that call is counted under
    served          \* the calls that were carried so far

poolVars == <<carries, account, served>>

CallsOf(r) == {s \in Slots : account[s] = r}

PoolInit ==
    /\ carries = [s \in Slots |-> 0]
    /\ account = [s \in Slots |-> NoRegistry]
    /\ served = {}

\* A free slot takes a new call of a registration that is below its limit.
Admit(s, c, r) ==
    /\ carries[s] = 0
    /\ c \notin served
    /\ r \in Limited => Limit[r] = 0 \/ Cardinality(CallsOf(r)) < Limit[r]
    /\ carries' = [carries EXCEPT ![s] = c]
    /\ account' = [account EXCEPT ![s] = r]
    /\ served' = served \cup {c}

\* The call of a slot is over.
Finish(s) ==
    /\ carries[s] # 0
    /\ carries' = [carries EXCEPT ![s] = 0]
    /\ account' = [account EXCEPT ![s] = NoRegistry]
    /\ UNCHANGED served

PoolNext ==
    \E s \in Slots :
        \/ Finish(s)
        \/ \E c \in Cids, r \in Registries : Admit(s, c, r)

PoolSpec == PoolInit /\ [][PoolNext]_poolVars
===============================================================================
