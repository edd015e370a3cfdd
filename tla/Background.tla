------------------------------ MODULE Background ------------------------------
(***************************************************************************)
(* The background thread of common/thread.cpp, which delivers the timeouts *)
(* of timeslots: its loop, notify() and shutdown(), with arm() and         *)
(* getExpires() of the SIP timeslot.                                       *)
(*                                                                         *)
(* A Timer is the time it has left: 0 when it has run out, Inf when it is  *)
(* disarmed (Timer::inf is the largest timeout).  A clock tick takes one   *)
(* from every running timer, whatever the threads are doing.  The lock of  *)
(* the Conditional is held from the top of the loop to the wait, and from  *)
(* the wait to the scan: these are single steps.                           *)
(***************************************************************************)
EXTENDS Integers, FiniteSets

CONSTANTS
    Slots,          \* the timeslots
    Armers,         \* the SIP threads, which arm timers
    Timeouts,       \* the timeouts given to arm()
    Inf,            \* Timer::inf
    MaxSlack,       \* bound on the clock ticks during one scan
    NoSlot

ASSUME TimeoutsAssumption == Inf \in Nat /\ Timeouts \subseteq 1 .. Inf - 1
ASSUME BackgroundSlotsAssumption == NoSlot \notin Slots
ASSUME SlackAssumption == MaxSlack \in Nat

VARIABLES
    timer,      \* timer[s]: the timer of slot s
    expires,    \* when the loop scans the slots next
    signalled,  \* bk.signalled
    running,    \* bk.running
    pc,         \* where Background::run is
    tovisit,    \* slots the scan has still to visit
    timeout,    \* the least timeout the scan has seen
    arming,     \* arming[a]: the slot thread a has armed and not yet notified
    handling,   \* threads working on an event, those active_count counts
    stopper,    \* where Background::shutdown is
    slack       \* clock ticks since the last scan began, until it ended (history)

vars == <<timer, expires, signalled, running, pc, tovisit, timeout, arming, handling,
          stopper, slack>>

TypeOK ==
    /\ timer \in [Slots -> 0 .. Inf]
    /\ expires \in 0 .. Inf
    /\ signalled \in BOOLEAN
    /\ running \in BOOLEAN
    /\ pc \in {"start", "top", "wait", "scan", "notify", "automatic", "exit", "exited"}
    /\ tovisit \in SUBSET Slots
    /\ timeout \in 0 .. Inf
    /\ arming \in [Armers -> Slots \cup {NoSlot}]
    /\ handling \in SUBSET Armers
    /\ stopper \in {"none", "notify", "wait", "done"}
    /\ slack \in 0 .. MaxSlack

Init ==
    /\ timer = [s \in Slots |-> Inf]
    /\ expires = Inf
    /\ signalled = FALSE
    /\ running = FALSE
    /\ pc = "start"
    /\ tovisit = {}
    /\ timeout = Inf
    /\ arming = [a \in Armers |-> NoSlot]
    /\ handling = {}
    /\ stopper = "none"
    /\ slack = 0

-------------------------------------------------------------------------------
(* Background::run *)

Start ==
    /\ pc = "start"
    /\ running' = TRUE
    /\ expires' = Inf
    /\ pc' = "top"
    /\ UNCHANGED <<timer, signalled, tovisit, timeout, arming, handling, stopper, slack>>

\* The scan starts with the signal taken.
BeginScan ==
    /\ signalled' = FALSE
    /\ pc' = "scan"
    /\ tovisit' = Slots
    /\ timeout' = Inf
    /\ slack' = 0
    /\ UNCHANGED <<timer, expires, running, arming, handling, stopper>>

\* Mutant of Top: the thread stops only when it has nothing else to do.
TopStopsIdle ==
    /\ pc = "top"
    /\ IF signalled \/ expires = 0
       THEN BeginScan
       ELSE /\ pc' = IF running THEN "wait" ELSE "exit"
            /\ UNCHANGED <<timer, expires, signalled, running, tovisit, timeout, arming,
                           handling, stopper, slack>>

\* The top of the loop: stop, wait, or scan at once.
Top ==
    /\ pc = "top"
    /\ IF running /\ (signalled \/ expires = 0)
       THEN BeginScan
       ELSE /\ pc' = IF running THEN "wait" ELSE "exit"
            /\ UNCHANGED <<timer, expires, signalled, running, tovisit, timeout, arming,
                           handling, stopper, slack>>

\* Mutant of Wake: only the clock starts a scan.
WakeIgnoresSignal ==
    /\ pc = "wait"
    /\ IF expires = 0
       THEN BeginScan
       ELSE /\ signalled' = FALSE
            /\ pc' = "automatic"
            /\ UNCHANGED <<timer, expires, running, tovisit, timeout, arming, handling, stopper, slack>>

\* The wait ends with a signal, or after at most the slice of the scheduler.
Wake ==
    /\ pc = "wait"
    /\ IF signalled \/ expires = 0
       THEN BeginScan
       ELSE /\ signalled' = FALSE
            /\ pc' = "automatic"
            /\ UNCHANGED <<timer, expires, running, tovisit, timeout, arming, handling, stopper, slack>>

\* getExpires and expire of a slot, under its mutex.  A timer that has run
\* out is disarmed and its handler runs, which may arm it again.
Visit(s) ==
    /\ pc = "scan"
    /\ s \in tovisit
    /\ tovisit' = tovisit \ {s}
    /\ IF timer[s] = 0
       THEN \E d \in Timeouts \cup {Inf} :
               /\ timer' = [timer EXCEPT ![s] = d]
               /\ pc' = IF d = Inf THEN "scan" ELSE "notify"
               /\ UNCHANGED timeout
       ELSE /\ timeout' = IF timer[s] < timeout THEN timer[s] ELSE timeout
            /\ UNCHANGED <<timer, pc>>
    /\ UNCHANGED <<expires, signalled, running, arming, handling, stopper, slack>>

\* arm() in the handler notifies this thread.
NotifySelf ==
    /\ pc = "notify"
    /\ signalled' = TRUE
    /\ pc' = "scan"
    /\ UNCHANGED <<timer, expires, running, tovisit, timeout, arming, handling, stopper, slack>>

\* Mutant of EndScan: the signal is cleared at the end of the scan too.
EndScanClears ==
    /\ pc = "scan"
    /\ tovisit = {}
    /\ expires' = timeout
    /\ signalled' = FALSE
    /\ pc' = "automatic"
    /\ UNCHANGED <<timer, running, tovisit, timeout, arming, handling, stopper, slack>>

EndScan ==
    /\ pc = "scan"
    /\ tovisit = {}
    /\ expires' = timeout
    /\ pc' = "automatic"
    /\ UNCHANGED <<timer, signalled, running, tovisit, timeout, arming, handling, stopper, slack>>

\* automatic() has the SIP library send what is due.
Automatic ==
    /\ pc = "automatic"
    /\ pc' = "top"
    /\ UNCHANGED <<timer, expires, signalled, running, tovisit, timeout, arming, handling, stopper, slack>>

\* The signal is cleared after the lock was given up.
Exit ==
    /\ pc = "exit"
    /\ signalled' = FALSE
    /\ pc' = "exited"
    /\ UNCHANGED <<timer, expires, running, tovisit, timeout, arming, handling, stopper, slack>>

-------------------------------------------------------------------------------
(* timeslot::arm and disarm, in the SIP and control threads *)

\* thread::run takes an event unless the server is being shut down, and works
\* on it to its end.
TakeEvent(a) ==
    /\ a \notin handling
    /\ stopper = "none"
    /\ handling' = handling \cup {a}
    /\ UNCHANGED <<timer, expires, signalled, running, pc, tovisit, timeout, arming, stopper, slack>>

EndEvent(a) ==
    /\ a \in handling
    /\ arming[a] = NoSlot
    /\ handling' = handling \ {a}
    /\ UNCHANGED <<timer, expires, signalled, running, pc, tovisit, timeout, arming, stopper, slack>>

\* arm() sets the timer and then notifies.  A timer that has run out is not
\* armed: incoming() takes less than the 16 seconds it arms first.
Arm(a, s, d) ==
    /\ a \in handling
    /\ arming[a] = NoSlot
    /\ timer[s] # 0
    /\ timer' = [timer EXCEPT ![s] = d]
    /\ arming' = [arming EXCEPT ![a] = s]
    /\ UNCHANGED <<expires, signalled, running, pc, tovisit, timeout, handling, stopper, slack>>

Notify(a) ==
    /\ arming[a] # NoSlot
    /\ signalled' = TRUE
    /\ arming' = [arming EXCEPT ![a] = NoSlot]
    /\ UNCHANGED <<timer, expires, running, pc, tovisit, timeout, handling, stopper, slack>>

\* disarm(), from drop(), disconnect() and setIdle(), notifies nobody.
Disarm(s) ==
    /\ timer[s] # Inf
    /\ timer' = [timer EXCEPT ![s] = Inf]
    /\ UNCHANGED <<expires, signalled, running, pc, tovisit, timeout, arming, handling, stopper, slack>>

-------------------------------------------------------------------------------
(* Background::shutdown *)

\* thread::shutdown sets shutdown_flag, and stops the background thread first.
\* A thread that does not run yet is not stopped.
Shutdown ==
    /\ stopper = "none"
    /\ stopper' = IF running THEN "notify" ELSE "done"
    /\ running' = FALSE
    /\ UNCHANGED <<timer, expires, signalled, pc, tovisit, timeout, arming, handling, slack>>

ShutdownNotify ==
    /\ stopper = "notify"
    /\ signalled' = TRUE
    /\ stopper' = "wait"
    /\ UNCHANGED <<timer, expires, running, pc, tovisit, timeout, arming, handling, slack>>

\* It polls until the signal is taken.
ShutdownReturns ==
    /\ stopper = "wait"
    /\ ~signalled
    /\ stopper' = "done"
    /\ UNCHANGED <<timer, expires, signalled, running, pc, tovisit, timeout, arming, handling, slack>>

-------------------------------------------------------------------------------
Scanning == pc \in {"scan", "notify"}
\* Mutant of Less: a timer that has run out goes on running.
LessThanZero(t) == IF t = Inf THEN t ELSE t - 1

Less(t) == IF t \in {0, Inf} THEN t ELSE t - 1

\* One tick of the clock.
Tick ==
    /\ timer' = [s \in Slots |-> Less(timer[s])]
    /\ expires' = Less(expires)
    /\ IF Scanning THEN slack < MaxSlack /\ slack' = slack + 1 ELSE UNCHANGED slack
    /\ UNCHANGED <<signalled, running, pc, tovisit, timeout, arming, handling, stopper>>

Run ==
    \/ Start
    \/ Top
    \/ Wake
    \/ \E s \in Slots : Visit(s)
    \/ NotifySelf
    \/ EndScan
    \/ Automatic
    \/ Exit

Next ==
    \/ Run
    \/ \E a \in Armers : TakeEvent(a) \/ Notify(a) \/ EndEvent(a)
    \/ \E a \in Armers, s \in Slots, d \in Timeouts : Arm(a, s, d)
    \/ \E s \in Slots : Disarm(s)
    \/ Shutdown
    \/ ShutdownNotify
    \/ ShutdownReturns
    \/ Tick

Spec == Init /\ [][Next]_vars

\* The threads run, the clock goes on, and shutdown() keeps polling.
FairSpec ==
    /\ Spec
    /\ WF_vars(Run)
    /\ WF_vars(Tick)
    /\ \A a \in Armers : WF_vars(Notify(a)) /\ WF_vars(EndEvent(a))
    /\ WF_vars(ShutdownNotify)
    /\ WF_vars(ShutdownReturns)

-------------------------------------------------------------------------------
(* Properties *)

\* A slot that is armed will be looked at in time: the loop is signalled or
\* about to be, the scan has still to visit the slot, or the next scan is
\* planned no later than the slot's timer, but for the time the last scan
\* took.
Planned(s, t) == t # Inf /\ t <= timer[s] + slack
Noticed(s) ==
    \/ signalled
    \/ \E a \in Armers : arming[a] = s
    \/ pc = "notify"
    \/ Scanning /\ s \in tovisit
    \/ Scanning /\ Planned(s, timeout)
    \/ ~Scanning /\ Planned(s, expires)
    \/ pc \in {"exit", "exited"}

\* No interleaving of arm(), notify() and the scan makes the loop sleep past
\* the timer of a slot: neither a timer armed behind the scan, nor one armed
\* again by the handler of its own timeout, is overlooked.
NoTimerOverlooked == \A s \in Slots : timer[s] # Inf => Noticed(s)

\* A timer that has run out is handled, or disarmed, while the thread is not
\* told to stop.
TimerServed == \A s \in Slots : timer[s] = 0 /\ running ~> timer[s] # 0 \/ ~running

\* A running thread that is told to stop ends.
ThreadEnds == stopper = "notify" ~> pc = "exited"

\* shutdown() comes back, so that "down" does what utils/baycontrol.8 says:
\* "stop and shutdown the running sipwitch daemon".
ShutdownEnds == stopper = "wait" ~> stopper = "done"
===============================================================================
