---------------------------------- MODULE Dbi ----------------------------------
(***************************************************************************)
(* The queue of call detail records of common/dbi.cpp: the threads that    *)
(* get() a record, fill it and post() it, and the thread that takes all    *)
(* posted records at once, hands them to Driver::query and puts them on    *)
(* the free list.                                                          *)
(*                                                                         *)
(* Both lists run through the Next member of a record, so they are kept as *)
(* pointers.  A step is one critical section of the Conditional (run list) *)
(* or of private_locking (free list).                                      *)
(***************************************************************************)
EXTENDS Naturals, FiniteSets

CONSTANTS
    Records,        \* records that memget can hand out (a bound)
    Posters,        \* threads that post records
    NULL

ASSUME RecordsAssumption == IsFiniteSet(Records) /\ NULL \notin Records

VARIABLES
    Link,       \* Link[r]: the Next member of record r
    type,       \* type[r]: START or STOP
    fresh,      \* records that memget has not handed out yet
    freelist,   \* head of the free list
    runlist,    \* head of the run list
    runlast,    \* the record that post() appends to
    cdr,        \* whether a STOP record was posted
    running,    \* whether the thread is to go on
    holds,      \* holds[p]: the record that thread p has got and not posted
    pc,         \* where dbithread::run is
    woken,      \* the thread's wait was signalled
    cp,         \* the record the thread is at
    fp,         \* the call log: a null pointer, an open file, or a closed one
    posted      \* records posted and not yet on the free list (history)

vars == <<Link, type, fresh, freelist, runlist, runlast, cdr, running, holds, pc, woken,
          cp, fp, posted>>

Pointers == Records \cup {NULL}

TypeOK ==
    /\ Link \in [Records -> Pointers]
    /\ type \in [Records -> {"START", "STOP"}]
    /\ fresh \in SUBSET Records
    /\ freelist \in Pointers
    /\ runlist \in Pointers
    /\ runlast \in Pointers
    /\ cdr \in BOOLEAN
    /\ running \in BOOLEAN
    /\ holds \in [Posters -> Pointers]
    /\ pc \in {"start", "top", "wait", "walk", "stopped"}
    /\ woken \in BOOLEAN
    /\ cp \in Pointers
    /\ fp \in {"null", "open", "closed"}
    /\ posted \in SUBSET Records

Init ==
    /\ Link = [r \in Records |-> NULL]
    /\ type = [r \in Records |-> "START"]
    /\ fresh = Records
    /\ freelist = NULL
    /\ runlist = NULL
    /\ runlast = NULL
    /\ cdr = FALSE
    /\ running = FALSE
    /\ holds = [p \in Posters |-> NULL]
    /\ pc = "start"
    /\ woken = FALSE
    /\ cp = NULL
    /\ fp = "null"
    /\ posted = {}

-------------------------------------------------------------------------------
(* dbi::get and dbi::post *)

\* A record from the free list, or new memory if the list is empty.
Get(p) ==
    /\ holds[p] = NULL
    /\ IF freelist # NULL
       THEN /\ holds' = [holds EXCEPT ![p] = freelist]
            /\ freelist' = Link[freelist]
            /\ UNCHANGED fresh
       ELSE \E r \in fresh :
            /\ holds' = [holds EXCEPT ![p] = r]
            /\ fresh' = fresh \ {r}
            /\ UNCHANGED freelist
    /\ UNCHANGED <<Link, type, runlist, runlast, cdr, running, pc, woken, cp, fp, posted>>

\* Mutant of Signal: nobody is woken.
SignalNobody == UNCHANGED woken

\* Conditional::signal wakes the thread if it waits.
Signal == woken' = (pc = "wait" \/ woken)

\* The record is linked behind runlast, which stays the first record that was
\* posted since the thread took the list.
Post(p, kind) ==
    LET r == holds[p]
    IN  /\ r # NULL
        /\ IF runlast # NULL
           THEN /\ Link' = [Link EXCEPT ![r] = NULL, ![runlast] = r]
                /\ UNCHANGED <<runlist, runlast>>
           ELSE /\ Link' = [Link EXCEPT ![r] = NULL]
                /\ runlist' = r
                /\ runlast' = r
        /\ type' = [type EXCEPT ![r] = kind]
        /\ cdr' = (cdr \/ kind = "STOP")
        /\ Signal
        /\ holds' = [holds EXCEPT ![p] = NULL]
        /\ posted' = posted \cup {r}
        /\ UNCHANGED <<fresh, freelist, running, pc, cp, fp>>

-------------------------------------------------------------------------------
(* dbithread::run *)

Start ==
    /\ pc = "start"
    /\ running' = TRUE
    /\ pc' = "top"
    /\ UNCHANGED <<Link, type, fresh, freelist, runlist, runlast, cdr, holds, woken, cp, fp,
                   posted>>

\* Mutant of OpenLog: the call log is opened once.
OpenLogOnce == IF runlist # NULL /\ cdr /\ fp = "null" THEN {"open", "null"} ELSE {fp}

\* The call log is opened if a STOP record is on the list.  fopen may fail.
OpenLog == IF runlist # NULL /\ cdr THEN {"open", "null"} ELSE {fp}

\* Take the whole list.
Take ==
    /\ cp' = runlist
    /\ fp' \in OpenLog
    /\ cdr' = FALSE
    /\ runlist' = NULL
    /\ runlast' = NULL
    /\ pc' = "walk"
    /\ woken' = FALSE
    /\ UNCHANGED <<Link, type, fresh, freelist, running, holds, posted>>

\* The top of the loop.  A thread that is told to stop leaves what is posted.
Top ==
    /\ pc = "top"
    /\ IF running /\ runlist # NULL
       THEN Take
       ELSE /\ pc' = IF running THEN "wait" ELSE "stopped"
            /\ woken' = FALSE
            /\ UNCHANGED <<Link, type, fresh, freelist, runlist, runlast, cdr, running, holds,
                           cp, fp, posted>>

Wake == pc = "wait" /\ woken /\ Take

\* Mutant of Walk: the next record is read from a record already freed.
WalkFreed ==
    /\ pc = "walk"
    /\ cp # NULL
    /\ Link' = [Link EXCEPT ![cp] = freelist]
    /\ freelist' = cp
    /\ cp' = freelist
    /\ posted' = posted \ {cp}
    /\ UNCHANGED <<type, fresh, runlist, runlast, cdr, running, holds, pc, woken, fp>>

\* A record is handed to Driver::query, if there is a call log, and freed.
Walk ==
    /\ pc = "walk"
    /\ cp # NULL
    /\ Link' = [Link EXCEPT ![cp] = freelist]
    /\ freelist' = cp
    /\ cp' = Link[cp]
    /\ posted' = posted \ {cp}
    /\ UNCHANGED <<type, fresh, runlist, runlast, cdr, running, holds, pc, woken, fp>>

\* The call log is closed; fp keeps its value, so that it is closed again
\* after a list without a STOP record.
EndWalk ==
    /\ pc = "walk"
    /\ cp = NULL
    /\ fp' = IF fp = "null" THEN "null" ELSE "closed"
    /\ pc' = "top"
    /\ UNCHANGED <<Link, type, fresh, freelist, runlist, runlast, cdr, running, holds, woken,
                   cp, posted>>

\* dbi::stop, at the end of Driver::stop, long after the thread has started.
Stop ==
    /\ pc # "start"
    /\ running
    /\ running' = FALSE
    /\ Signal
    /\ UNCHANGED <<Link, type, fresh, freelist, runlist, runlast, cdr, holds, pc, cp, fp,
                   posted>>

Run == Start \/ Top \/ Wake \/ Walk \/ EndWalk

Next ==
    \/ \E p \in Posters : Get(p) \/ \E kind \in {"START", "STOP"} : Post(p, kind)
    \/ Run
    \/ Stop

Spec == Init /\ [][Next]_vars

\* The thread of the queue runs.
FairSpec == Spec /\ WF_vars(Run)

-------------------------------------------------------------------------------
(* Properties *)

\* The records of the list with head h, and whether that list ends.
Nth(h) ==
    LET f[i \in 0 .. Cardinality(Records)] ==
            IF i = 0 THEN h
            ELSE IF f[i - 1] = NULL THEN NULL ELSE Link[f[i - 1]]
    IN  f
List(h) == {Nth(h)[i] : i \in DOMAIN Nth(h)} \ {NULL}
Ends(h) == Nth(h)[Cardinality(Records)] = NULL

\* A record is never used twice at a time: the free list, the run list, the
\* list the thread walks and the records that threads are filling have no
\* record in common, although all of them use the same Next member, and none
\* of the lists runs in a circle.
RecordInOnePlace ==
    LET held == {holds[p] : p \in Posters} \ {NULL}
    IN  /\ Ends(freelist) /\ Ends(runlist) /\ Ends(cp)
        /\ List(freelist) \cap List(runlist) = {}
        /\ (List(freelist) \cup List(runlist)) \cap List(cp) = {}
        /\ held \cap (fresh \cup List(freelist) \cup List(runlist) \cup List(cp)) = {}
        /\ \A p, q \in Posters : holds[p] # NULL /\ holds[p] = holds[q] => p = q

\* A call detail record is never written to a call log that was closed: the
\* thread has opened the file again for a list that has a STOP record, or
\* could not open it.
LogOpenForStops ==
    pc = "walk" /\ cp # NULL /\ type[cp] = "STOP" => fp # "closed"

\* Nothing stays on the run list while the thread sleeps.
Drained == runlist # NULL ~> runlist = NULL \/ ~running

\* dbi::stop ends the thread, also when it waits for records.
StopEnds == ~running /\ pc # "start" ~> pc = "stopped"

\* A record that was posted is handled and returned to the free list, as
\* dbi.h says of post(): "post dbi query and return to free...".  Until then
\* the thread can reach it.
NoRecordLost == posted \subseteq List(runlist) \cup List(cp)
===============================================================================
