-------------------------------- MODULE Stats ---------------------------------
(***************************************************************************)
(* Call statistics (common/stats.cpp): a table of nodes in shared memory,  *)
(* node 0 for the system and one for each registration while there is      *)
(* room.  Calls update a node under a mutex that is named by its address,  *)
(* the period command takes its periodic values under the same mutex, and  *)
(* baycontrol, another process, reads the node without one.                *)
(*                                                                         *)
(* A step is what the reader can see of an update: the statements of an    *)
(* update take effect in the order of the program.  Only the first entry   *)
(* (INCOMING) of a node is ever used.                                      *)
(***************************************************************************)
EXTENDS Integers, FiniteSets

CONSTANTS
    Registries,     \* the registrations of the configuration
    Limit,          \* Limit[r]: calls that r may have at a time, 0 for any number
    Calls,          \* the calls that come in, from any registration
    Tables,         \* nodes for registrations (the registries option)
    MaxPeriods,     \* times the period command is given
    NoNode, Nobody, Main

ASSUME LimitsAreCounts == Limit \in [Registries -> Nat]
ASSUME TablesIsCount == Tables \in Nat /\ MaxPeriods \in Nat
ASSUME CallsAreFinite == IsFiniteSet(Calls)
ASSUME SomeRegistry == Registries # {}
ASSUME NamesDistinct == Main \notin Calls /\ Nobody \notin Calls \cup {Main}
ASSUME NoNodeDistinct == NoNode \notin 0 .. Tables

VARIABLES
    count, used,    \* nodes of the table, and those given away
    node,           \* node[n]: a statmap
    stats,          \* stats[r]: the node of a registration, NoNode for NULL
    listed,         \* registrations that have been constructed
    mutex,          \* mutex[n]: who protects node n
    call,           \* call[c]: where the thread that serves call c is
    main,           \* where the main thread is, and its node in period()
    periods,        \* period commands so far
    reported,       \* reported[n]: calls in all periods that were ended (history)
    view            \* baycontrol stats: where it is, its node and its buffer

vars == <<count, used, node, stats, listed, mutex, call, main, periods, reported, view>>

Nodes == 0 .. Tables
Counts == 0 .. Cardinality(Calls)

statmap ==
    [type : {"UNUSED", "SYSTEM", "REGISTRY"}, lastcall : BOOLEAN,
     total : Counts, period : Counts, pperiod : Counts, current : Counts, peak : Counts,
     min : Counts, max : Counts, pmin : Counts, pmax : Counts]

Buffer == [total : Counts, current : Counts, peak : Counts]

TypeOK ==
    /\ count \in 0 .. Tables + 1 /\ used \in 0 .. Tables + 1
    /\ node \in [Nodes -> statmap]
    /\ stats \in [Registries -> Nodes \cup {NoNode}]
    /\ listed \in SUBSET Registries
    /\ mutex \in [Nodes -> Calls \cup {Main, Nobody}]
    /\ call \in [Calls -> [pc : {"idle", "attach", "assign", "active", "detach", "ended"},
                           step : 0 .. 3, reg : Registries]]
    /\ main \in [pc : {"create", "start", "serve", "period"}, pos : 0 .. Tables + 1, step : 0 .. 1]
    /\ periods \in 0 .. MaxPeriods
    /\ reported \in [Nodes -> Counts]
    /\ view \in [pc : {"idle", "node", "total", "current", "peak", "sametotal", "samecurrent",
                       "samepeak", "print", "exit"},
                 index : 0 .. Tables + 1, buffer : Buffer]

Unused == [type |-> "UNUSED", lastcall |-> FALSE, total |-> 0, period |-> 0, pperiod |-> 0,
           current |-> 0, peak |-> 0, min |-> 0, max |-> 0, pmin |-> 0, pmax |-> 0]

Init ==
    /\ count = 0 /\ used = 0
    /\ node = [n \in Nodes |-> Unused]
    /\ stats = [r \in Registries |-> NoNode]
    /\ listed = {}
    /\ mutex = [n \in Nodes |-> Nobody]
    /\ call \in [Calls -> {[pc |-> "idle", step |-> 0, reg |-> CHOOSE r \in Registries : TRUE]}]
    /\ main = [pc |-> "create", pos |-> 0, step |-> 0]
    /\ periods = 0
    /\ reported = [n \in Nodes |-> 0]
    /\ view = [pc |-> "idle", index |-> 0,
               buffer |-> [total |-> 0, current |-> 0, peak |-> 0]]

table == <<count, used, stats, listed>>
nodes == <<node, mutex>>

-------------------------------------------------------------------------------
(* The table. *)

\* statmap::create makes the table and the node of the system.
Create ==
    /\ main.pc = "create"
    /\ count' = Tables + 1
    /\ used' = 1
    /\ node' = [node EXCEPT ![0].type = "SYSTEM"]
    /\ main' = [main EXCEPT !.pc = "start"]
    /\ UNCHANGED <<stats, listed, mutex, call, periods, reported, view>>

\* statmap::getRegistry, which has no node to give when the table is full.
GetRegistry ==
    IF count = 0 \/ used >= count THEN UNCHANGED <<used, node>>
    ELSE /\ used' = used + 1
         /\ node' = [node EXCEPT ![used].type = "REGISTRY"]

\* The constructor of a registration; calls already come in for the others.
Register(r) ==
    /\ main.pc = "start"
    /\ r \notin listed
    /\ listed' = listed \cup {r}
    /\ GetRegistry
    /\ stats' = [stats EXCEPT ![r] = IF count = 0 \/ used >= count THEN NoNode ELSE used]
    /\ UNCHANGED <<count, mutex, call, main, periods, reported, view>>

Serve ==
    /\ main.pc = "start"
    /\ listed = Registries
    /\ main' = [main EXCEPT !.pc = "serve"]
    /\ UNCHANGED <<table, nodes, call, periods, reported, view>>

-------------------------------------------------------------------------------
(* The calls. *)

\* The node that call c works on next.
NodeOf(c) == IF call[c].pc \in {"attach", "detach"} THEN stats[call[c].reg] ELSE 0

Goes(c, pc, step) == call' = [call EXCEPT ![c].pc = pc, ![c].step = step]

\* An INVITE for registration r.
Invite(c, r) ==
    /\ call[c].pc = "idle"
    /\ r \in listed
    /\ call' = [call EXCEPT ![c].pc = "attach", ![c].reg = r]
    /\ UNCHANGED <<table, nodes, main, periods, reported, view>>

\* Registration::attach and Registration::release without a node.
Unmetered(c) ==
    /\ call[c].pc \in {"attach", "detach"}
    /\ NodeOf(c) = NoNode
    /\ Goes(c, IF call[c].pc = "attach" THEN "assign" ELSE "ended", 0)
    /\ UNCHANGED <<table, nodes, main, periods, reported, view>>

\* Mutant of NoTimeslot: both the system and the registration are released.
NoTimeslotReleases(c) ==
    /\ call[c].pc = "assign"
    /\ call[c].step = 0
    /\ Goes(c, "active", 0)
    /\ UNCHANGED <<table, nodes, main, periods, reported, view>>

\* No timeslot is free: the registration gives its call back.
NoTimeslot(c) ==
    /\ call[c].pc = "assign"
    /\ call[c].step = 0
    /\ Goes(c, "detach", 0)
    /\ UNCHANGED <<table, nodes, main, periods, reported, view>>

\* A registration at its limit refuses the call.
Refused(c) ==
    /\ call[c].pc = "attach"
    /\ Limit[call[c].reg] # 0
    /\ Limit[call[c].reg] <= node[NodeOf(c)].current

\* Mutex::protect, for attach and assign, which update the node, and for release.
Protect(c) ==
    LET n == NodeOf(c)
    IN  /\ call[c].pc \in {"attach", "assign", "active", "detach"}
        /\ call[c].step = 0
        /\ n # NoNode
        /\ mutex[n] = Nobody
        /\ IF Refused(c)
           THEN Goes(c, "ended", 0) /\ UNCHANGED mutex
           ELSE Goes(c, call[c].pc, 1) /\ mutex' = [mutex EXCEPT ![n] = c]
        /\ UNCHANGED <<table, node, main, periods, reported, view>>

\* Mutant of Update: a new peak is not noticed in the periodic maximum.
UpdateNoMax(s, step) ==
    CASE step = 1 -> [s EXCEPT !.period = @ + 1, !.total = @ + 1]
      [] step = 2 -> [s EXCEPT !.current = @ + 1]
      [] step = 3 -> [s EXCEPT !.peak = IF s.current > @ THEN s.current ELSE @]

\* statmap::update in the order of its statements.
Update(s, step) ==
    CASE step = 1 -> [s EXCEPT !.period = @ + 1, !.total = @ + 1]
      [] step = 2 -> [s EXCEPT !.current = @ + 1]
      [] step = 3 -> [s EXCEPT !.peak = IF s.current > @ THEN s.current ELSE @,
                               !.max = IF s.current > @ THEN s.current ELSE @]

\* statmap::release, the last call with its time.
Release(s, step) ==
    CASE step = 1 -> [s EXCEPT !.lastcall = @ \/ s.current = 1]
      [] step = 2 -> [s EXCEPT !.current = @ - 1]
      [] step = 3 -> [s EXCEPT !.min = IF s.current < @ THEN s.current ELSE @]

\* Where a call goes from here.
After(pc) ==
    CASE pc = "attach" -> "assign"
      [] pc = "assign" -> "active"
      [] pc = "active" -> "detach"
      [] pc = "detach" -> "ended"

Work(c) ==
    LET n == NodeOf(c)
        k == call[c].step
    IN  /\ k # 0
        /\ node' = [node EXCEPT ![n] = IF call[c].pc \in {"attach", "assign"}
                                       THEN Update(@, k) ELSE Release(@, k)]
        /\ IF k = 3
           THEN Goes(c, After(call[c].pc), 0) /\ mutex' = [mutex EXCEPT ![n] = Nobody]
           ELSE Goes(c, call[c].pc, k + 1) /\ UNCHANGED mutex
        /\ UNCHANGED <<table, main, periods, reported, view>>

-------------------------------------------------------------------------------
(* statmap::period, called for the period command when an interval is over. *)

BeginPeriod ==
    /\ main.pc = "serve"
    /\ periods < MaxPeriods
    /\ periods' = periods + 1
    /\ main' = [pc |-> "period", pos |-> 0, step |-> 0]
    /\ UNCHANGED <<table, nodes, call, reported, view>>

\* Mutant of PeriodProtect: the node is not protected.
PeriodProtectNot(n) == UNCHANGED mutex

PeriodProtect(n) == mutex[n] = Nobody /\ mutex' = [mutex EXCEPT ![n] = Main]

\* The periodic values are copied, and begin anew.
PeriodNode ==
    LET n == main.pos
    IN  /\ main.pc = "period"
        /\ n < count
        /\ main.step = 0
        /\ IF node[n].type = "UNUSED"
           THEN main' = [main EXCEPT !.pos = n + 1] /\ UNCHANGED <<nodes, reported>>
           ELSE /\ PeriodProtect(n)
                /\ node' = [node EXCEPT ![n].pperiod = node[n].period,
                                        ![n].pmax = node[n].max, ![n].pmin = node[n].min]
                /\ reported' = [reported EXCEPT ![n] = @ + node[n].period]
                /\ main' = [main EXCEPT !.step = 1]
        /\ UNCHANGED <<table, call, periods, view>>

PeriodReset ==
    LET n == main.pos
    IN  /\ main.pc = "period"
        /\ main.step = 1
        /\ node' = [node EXCEPT ![n].max = node[n].current, ![n].min = node[n].current,
                                ![n].period = 0]
        /\ mutex' = [mutex EXCEPT ![n] = Nobody]
        /\ main' = [main EXCEPT !.pos = n + 1, !.step = 0]
        /\ UNCHANGED <<table, call, periods, reported, view>>

EndPeriod ==
    /\ main.pc = "period"
    /\ main.pos >= count
    /\ main' = [main EXCEPT !.pc = "serve", !.pos = 0]
    /\ UNCHANGED <<table, nodes, call, periods, reported, view>>

-------------------------------------------------------------------------------
(* baycontrol stats: a node is copied until the copy is found unchanged. *)

Sees(v) == view' = v /\ UNCHANGED <<table, nodes, call, main, periods, reported>>

\* Without a table the driver is offline.
OpenView ==
    /\ view.pc = "idle"
    /\ Sees([view EXCEPT !.pc = IF count = 0 THEN "exit" ELSE "node"])

NextNode ==
    /\ view.pc = "node"
    /\ Sees([view EXCEPT !.pc = IF view.index >= count THEN "exit"
                                ELSE IF node[view.index].type = "UNUSED" THEN "exit"
                                ELSE "total"])

\* memcpy, in the order of the members.
Copy ==
    LET s == node[view.index]
    IN  \/ view.pc = "total" /\ Sees([view EXCEPT !.pc = "current", !.buffer.total = s.total])
        \/ view.pc = "current" /\ Sees([view EXCEPT !.pc = "peak", !.buffer.current = s.current])
        \/ view.pc = "peak" /\ Sees([view EXCEPT !.pc = "sametotal", !.buffer.peak = s.peak])

\* Mutant of Same: the copy is taken as it is.
SameAssumed(x, y) == TRUE

Same(x, y) == x = y

\* memcmp, in the same order; a difference starts the copy again.
Compare ==
    LET s == node[view.index]
        b == view.buffer
    IN  \/ /\ view.pc = "sametotal"
           /\ Sees([view EXCEPT !.pc = IF Same(b.total, s.total) THEN "samecurrent" ELSE "total"])
        \/ /\ view.pc = "samecurrent"
           /\ Sees([view EXCEPT !.pc = IF Same(b.current, s.current) THEN "samepeak" ELSE "total"])
        \/ /\ view.pc = "samepeak"
           /\ Sees([view EXCEPT !.pc = IF Same(b.peak, s.peak) THEN "print" ELSE "total"])

PrintNode ==
    /\ view.pc = "print"
    /\ Sees([pc |-> "node", index |-> view.index + 1,
             buffer |-> [total |-> 0, current |-> 0, peak |-> 0]])

-------------------------------------------------------------------------------
CallStep(c) == Unmetered(c) \/ NoTimeslot(c) \/ Protect(c) \/ Work(c)

Next ==
    \/ Create \/ Serve \/ (\E r \in Registries : Register(r))
    \/ \E c \in Calls : CallStep(c) \/ \E r \in Registries : Invite(c, r)
    \/ BeginPeriod \/ PeriodNode \/ PeriodReset \/ EndPeriod
    \/ OpenView \/ NextNode \/ Copy \/ Compare \/ PrintNode

Spec == Init /\ [][Next]_vars

-------------------------------------------------------------------------------
(* Properties *)

\* Between updates the values of a node fit together, whatever calls, periods
\* and limits have met in it: the current count lies within the periodic
\* minimum and maximum and the peak, a registration is within its limit, an
\* idle node that had calls has the time of the last one; and no two
\* registrations, nor the system and one of them, share a node.
NodeOrdered ==
    /\ \A n \in Nodes : mutex[n] = Nobody =>
          LET s == node[n]
          IN  /\ s.min <= s.current /\ s.current <= s.max /\ s.max <= s.peak
              /\ s.pmin <= s.pmax /\ s.pmax <= s.peak
              /\ s.total > 0 /\ s.current = 0 => s.lastcall
    /\ \A r \in Registries : stats[r] # NoNode =>
          /\ Limit[r] # 0 => node[stats[r]].current <= Limit[r]
          /\ stats[r] # 0 /\ \A q \in Registries \ {r} : stats[q] # stats[r]

\* Every call is in exactly one period: what the period command has reported
\* of a node and what it counts since add up to the total, although calls
\* come in while statmap::period goes through the table.
CallsReportedOnce ==
    \A n \in Nodes : mutex[n] = Nobody => node[n].total = reported[n] + node[n].period

\* What baycontrol prints of a node without its mutex could have been true:
\* no more calls, now or at the peak, than there were in all, and the current
\* count is at most the one call ahead of the peak that is being counted.
SnapshotConsistent ==
    view.pc = "print" =>
        /\ view.buffer.current <= view.buffer.total
        /\ view.buffer.peak <= view.buffer.total
        /\ view.buffer.current <= view.buffer.peak + 1
===============================================================================
