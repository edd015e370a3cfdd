-------------------------------- MODULE Server --------------------------------
(***************************************************************************)
(* The life of the server process: how it starts and stops, its control    *)
(* fifo, the operators and signals that write to it, and the SIP threads,  *)
(* which the main thread counts in and out without a lock.                 *)
(*                                                                         *)
(* The main thread runs sipw/driver.cpp init(); psignals turns signals     *)
(* into commands; a client is one run of baycontrol.  What a command does  *)
(* to timeslots, configuration and statistics is in other modules: here    *)
(* it succeeds, fails, ends the dispatch loop or kills the process.        *)
(***************************************************************************)
EXTENDS Integers, Sequences, FiniteSets

CONSTANTS
    SipThreads,     \* the SIP threads, one for each context
    Clients,        \* runs of baycontrol, each with one command
    Requests,       \* the commands the clients may ask for
    Signals,        \* the signals that may be raised
    FifoSize,       \* commands the control fifo can hold
    CountMod,       \* the width of an unsigned counter
    NoTarget,       \* no client to reply to
    NoCommand       \* no command in hand

Commands == {"reload", "check", "snapshot", "level", "board", "post", "dispatch",
             "timer", "down", "abort"}

ASSUME RequestsKnown == Requests \subseteq Commands
ASSUME SignalsKnown == Signals \subseteq {"ALRM", "HUP", "INT", "TERM", "USR1"}
ASSUME FifoHolds == FifoSize \in Nat \ {0}
ASSUME CountsFit ==
    IsFiniteSet(SipThreads) /\ CountMod \in Nat /\ CountMod > Cardinality(SipThreads)
ASSUME ClientsDistinct == NoTarget \notin Clients

VARIABLES
    main,           \* where the main thread is
    fifo,           \* commands written to the control fifo and not yet read
    replytarget,    \* the client that waits for the command in hand
    cmd,            \* the command in hand
    client,         \* client[c]: where it is, or how it has ended
    sent,           \* sent[c]: the signals that the server has sent to client c
    outcome,        \* outcome[c]: what became of its command (history)
    raised,         \* the signals raised so far (history, each is raised once)
    pending,        \* the signals that are blocked and not yet taken
    psig,           \* the thread of psignals and the signal it has taken
    started,        \* psignals::started
    shutdown,       \* psignals::shutdown
    dropped,        \* commands of psignals that did not fit the fifo (history)
    thr,            \* thr[t]: where a SIP thread is, and the count it has read
    startup_count, active_count, shutdown_count, shutdown_flag,
    lost,           \* an update of a count has been lost (history)
    locked,         \* the lock of the SIP library was taken and kept
    quit            \* the SIP contexts have been given up

control == <<fifo, replytarget, cmd>>
clients == <<client, sent, outcome>>
signals == <<raised, pending, psig, started, shutdown, dropped>>
counts == <<startup_count, active_count, shutdown_count>>
threads == <<thr, counts, lost>>
stopping == <<shutdown_flag, locked, quit>>
vars == <<main, control, clients, signals, threads, stopping>>

MainPc == {"attach", "start", "activate", "starting", "register", "dispatch", "receive", "read",
           "handle", "release", "flag", "background", "drain", "stopping", "stop", "cancel",
           "join", "cleanup", "exit", "exited", "aborted", "hung"}

TypeOK ==
    /\ main \in MainPc
    /\ fifo \in Seq([target : Clients \cup {NoTarget}, cmd : Commands])
    /\ Len(fifo) <= FifoSize
    /\ replytarget \in Clients \cup {NoTarget}
    /\ cmd \in Commands \cup {NoCommand}
    /\ client \in [Clients -> {"idle", "waiting", "done", "failed", "timeout", "unsent"}]
    /\ sent \in [Clients -> SUBSET {"USR1", "USR2"}]
    /\ outcome \in [Clients -> {"none", "ok", "error"}]
    /\ raised \in SUBSET Signals /\ pending \in SUBSET raised
    /\ psig \in {"none", "created", "wait", "ended"} \cup Signals
    /\ started \in BOOLEAN /\ shutdown \in BOOLEAN
    /\ dropped \in SUBSET Commands
    /\ thr \in [SipThreads ->
                 [pc : {"none", "start", "starting", "loop", "got", "count", "counting",
                        "event", "leaving", "stopping", "ended"},
                  val : 0 .. CountMod - 1]]
    /\ \A n \in {startup_count, active_count, shutdown_count} : n \in 0 .. CountMod - 1
    /\ shutdown_flag \in BOOLEAN /\ lost \in BOOLEAN /\ quit \in BOOLEAN /\ locked \in BOOLEAN

Init ==
    /\ main = "attach"
    /\ fifo = <<>>
    /\ replytarget = NoTarget
    /\ cmd = NoCommand
    /\ client = [c \in Clients |-> "idle"]
    /\ sent = [c \in Clients |-> {}]
    /\ outcome = [c \in Clients |-> "none"]
    /\ raised = {} /\ pending = {}
    /\ psig = "none" /\ started = FALSE /\ shutdown = FALSE
    /\ dropped = {}
    /\ thr = [t \in SipThreads |-> [pc |-> "none", val |-> 0]]
    /\ startup_count = 0 /\ active_count = 0 /\ shutdown_count = 0
    /\ shutdown_flag = FALSE /\ lost = FALSE /\ quit = FALSE /\ locked = FALSE

Alive == main \notin {"exited", "aborted"}

\* The fifo has a reader: it can be opened for writing.
Attached == main \notin {"attach", "exit", "exited", "aborted"}

-------------------------------------------------------------------------------
(* The control fifo. *)

\* Writers do not block: a command fits into the fifo, or it is lost.
FifoRoom == Len(fifo) < FifoSize

\* server::attach makes the fifo; without one the server exits.
Attach ==
    /\ main = "attach"
    /\ main' \in {"start", "exited"}
    /\ UNCHANGED <<control, clients, signals, threads, stopping>>

\* server::reply tells the client of the command in hand, once, that it
\* succeeded or failed.
Reply(s) ==
    /\ sent' = IF replytarget \in Clients /\ client[replytarget] = "waiting"
               THEN [sent EXCEPT ![replytarget] = @ \cup {s}] ELSE sent
    /\ replytarget' = NoTarget

\* Mutant of Receive: the target of the last command stays.
ReceiveKeepsTarget ==
    /\ main = "receive"
    /\ sent' = IF replytarget \in Clients /\ client[replytarget] = "waiting"
               THEN [sent EXCEPT ![replytarget] = @ \cup {"USR1"}] ELSE sent
    /\ main' = "read"
    /\ UNCHANGED <<control, client, outcome, signals, threads, stopping>>

\* server::receive first reports the success of the last command, unless it
\* was replied to already.
Receive ==
    /\ main = "receive"
    /\ Reply("USR1")
    /\ main' = "read"
    /\ UNCHANGED <<fifo, cmd, client, outcome, signals, threads, stopping>>

\* ... then it waits for a command, which may name a client to reply to.
Read ==
    /\ main = "read"
    /\ fifo # <<>>
    /\ fifo' = Tail(fifo)
    /\ cmd' = Head(fifo).cmd
    /\ replytarget' = IF Head(fifo).target = NoTarget THEN replytarget ELSE Head(fifo).target
    /\ main' = "handle"
    /\ UNCHANGED <<clients, signals, threads, stopping>>

\* What a command can come to.  snapshot() writes to a file that it may not
\* have opened; a level (verbose, period, concurrency) may be missing, and a
\* period of 0 minutes fails an assertion, or is divided by where those are left
\* out; a board to suspend or resume may be unknown; an event that is posted to a
\* timeslot may be rejected; the driver may not know a resource or a command.
Snapshot == {"ok", "abort"}
Period == {"ok", "abort"}
SetLevel == Period \cup {"ok", "error"}
SuspendResume == {"ok", "error"}
PostEvent == {"ok", "error"}
DriverDispatch == {"ok", "error"}

\* server::dispatch; no command is named "timer".
Outcomes(c) ==
    CASE c \in {"reload", "check"} -> {"ok"}
      [] c = "snapshot" -> Snapshot
      [] c = "level" -> SetLevel
      [] c = "board" -> SuspendResume
      [] c = "post" -> PostEvent
      [] c = "dispatch" -> DriverDispatch
      [] c = "timer" -> {"error"}
      [] c = "down" -> {"break"}
      [] c = "abort" -> {"abort"}

\* The history of the client whose command is in hand.
Recorded(o) ==
    outcome' = IF replytarget \in Clients THEN [outcome EXCEPT ![replytarget] = o] ELSE outcome

\* A command of the driver is replied to at once, the others by receive.
Succeed ==
    /\ "ok" \in Outcomes(cmd)
    /\ Recorded("ok")
    /\ IF cmd = "dispatch" THEN Reply("USR1") ELSE UNCHANGED <<sent, replytarget>>
    /\ main' = "receive"

Fail ==
    /\ "error" \in Outcomes(cmd)
    /\ Recorded("error")
    /\ Reply("USR2")
    /\ main' = "receive"

\* The loop ends without a reply; the target stays.
Break ==
    /\ "break" \in Outcomes(cmd)
    /\ main' = "release"
    /\ UNCHANGED <<sent, outcome, replytarget>>

Abort ==
    /\ "abort" \in Outcomes(cmd)
    /\ main' = "aborted"
    /\ UNCHANGED <<sent, outcome, replytarget>>

Handle ==
    /\ main = "handle"
    /\ Succeed \/ Fail \/ Break \/ Abort
    /\ cmd' = NoCommand
    /\ UNCHANGED <<fifo, client, signals, threads, stopping>>

-------------------------------------------------------------------------------
(* baycontrol *)

\* down, restart and abort do not wait, and name no client.
Waits(c) == c \notin {"down", "abort"}

\* single, resource, level and period end a run with missing or superfluous
\* arguments before anything is sent.
Usage(c) ==
    /\ client[c] = "idle"
    /\ client' = [client EXCEPT ![c] = "unsent"]
    /\ UNCHANGED <<main, control, sent, outcome, signals, threads, stopping>>

\* command() opens the fifo, if there is one, writes the command, if it has
\* room, and waits for a signal.
Command(c, r) ==
    /\ client[c] = "idle"
    /\ r \in Requests
    /\ IF Attached /\ FifoRoom
       THEN /\ fifo' = Append(fifo, [target |-> IF Waits(r) THEN c ELSE NoTarget, cmd |-> r])
            /\ client' = [client EXCEPT ![c] = IF Waits(r) THEN "waiting" ELSE "done"]
       ELSE /\ client' = [client EXCEPT ![c] = "unsent"]
            /\ UNCHANGED fifo
    /\ UNCHANGED <<main, replytarget, cmd, sent, outcome, signals, threads, stopping>>

\* SIGUSR1 and SIGUSR2 end the wait with success and with failure.
TakeReply(c) ==
    /\ client[c] = "waiting"
    /\ \E s \in sent[c] :
          client' = [client EXCEPT ![c] = IF s = "USR1" THEN "done" ELSE "failed"]
    /\ UNCHANGED <<main, control, sent, outcome, signals, threads, stopping>>

TimeOut(c) ==
    /\ client[c] = "waiting"
    /\ client' = [client EXCEPT ![c] = "timeout"]
    /\ UNCHANGED <<main, control, sent, outcome, signals, threads, stopping>>

-------------------------------------------------------------------------------
(* psignals *)

\* Somebody raises a signal; every thread has blocked it.  The alarm is armed
\* by psignals itself, while it waits.
Raise(s) ==
    /\ Alive
    /\ s \in Signals \ raised
    /\ s = "ALRM" => psig = "wait"
    /\ raised' = raised \cup {s}
    /\ pending' = pending \cup {s}
    /\ UNCHANGED <<main, control, clients, psig, started, shutdown, dropped, threads,
                   stopping>>

Run ==
    /\ Alive
    /\ psig = "created"
    /\ psig' = "wait"
    /\ started' = TRUE
    /\ UNCHANGED <<main, control, clients, raised, pending, shutdown, dropped, threads,
                   stopping>>

\* sigwait returns with a pending signal, or with the one that cancel sends.
SigWait ==
    /\ Alive
    /\ psig = "wait"
    /\ \/ \E s \in pending : /\ pending' = pending \ {s}
                             /\ psig' = IF shutdown THEN "ended" ELSE s
       \/ shutdown /\ psig' = "ended" /\ UNCHANGED pending
    /\ UNCHANGED <<main, control, clients, raised, started, shutdown, dropped, threads,
                   stopping>>

\* Mutant of Order: the alarm stands for a command that dispatch has no case for.
OrderUnknown(s) ==
    CASE s = "ALRM" -> "alarm"
      [] s \in {"INT", "TERM"} -> "down"
      [] s = "USR1" -> "snapshot"
      [] s = "HUP" -> "reload"

\* The command that a signal stands for.
Order(s) ==
    CASE s = "ALRM" -> "timer"
      [] s \in {"INT", "TERM"} -> "down"
      [] s = "USR1" -> "snapshot"
      [] s = "HUP" -> "reload"

\* server::control writes the command that the signal stands for; psignals
\* does not look at its result.
Control ==
    /\ Alive
    /\ psig \in Signals
    /\ IF FifoRoom
       THEN /\ fifo' = Append(fifo, [target |-> NoTarget, cmd |-> Order(psig)])
            /\ UNCHANGED dropped
       ELSE /\ dropped' = dropped \cup {Order(psig)}
            /\ UNCHANGED fifo
    /\ psig' = "wait"
    /\ UNCHANGED <<main, replytarget, cmd, clients, raised, pending, started, shutdown, threads,
                   stopping>>

-------------------------------------------------------------------------------
(* thread::run.  An increment is a read and a write: thr[t].val is the value *)
(* that was read.                                                            *)

Goes(t, pc, val) == thr' = [thr EXCEPT ![t] = [pc |-> pc, val |-> val]]

\* The count was changed between the read and the write.
Written(t, count) == lost' = (lost \/ count # thr[t].val)

ReadStartup(t) ==
    /\ thr[t].pc = "start"
    /\ Goes(t, "starting", startup_count)
    /\ UNCHANGED <<counts, lost>>

Started(t) ==
    /\ thr[t].pc = "starting"
    /\ startup_count' = (thr[t].val + 1) % CountMod
    /\ Written(t, startup_count)
    /\ Goes(t, "loop", 0)
    /\ UNCHANGED <<active_count, shutdown_count>>

\* voip::get_event returns an event.
GetEvent(t) ==
    /\ Alive
    /\ thr[t].pc = "loop"
    /\ ~quit
    /\ Goes(t, "got", 0)
    /\ UNCHANGED <<main, control, clients, signals, counts, lost, stopping>>

\* Mutant of StopTest: a thread without an event does not look at the flag.
StopTestEvent(t) == thr[t].pc = "got"

\* The flag is tested with and without an event.
StopTest(t) == thr[t].pc \in {"loop", "got"}

ReadShutdown(t) ==
    /\ StopTest(t)
    /\ shutdown_flag
    /\ Goes(t, "stopping", shutdown_count)
    /\ UNCHANGED <<counts, lost>>

Stopping(t) ==
    /\ thr[t].pc = "stopping"
    /\ shutdown_count' = (thr[t].val + 1) % CountMod
    /\ Written(t, shutdown_count)
    /\ Goes(t, "ended", 0)
    /\ UNCHANGED <<startup_count, active_count>>

Accept(t) ==
    /\ thr[t].pc = "got"
    /\ ~shutdown_flag
    /\ Goes(t, "count", 0)
    /\ UNCHANGED <<counts, lost>>

ReadActive(t) ==
    /\ \/ thr[t].pc = "count" /\ Goes(t, "counting", active_count)
       \/ thr[t].pc = "event" /\ Goes(t, "leaving", active_count)
    /\ UNCHANGED <<counts, lost>>

WriteActive(t) ==
    /\ \/ /\ thr[t].pc = "counting"
          /\ active_count' = (thr[t].val + 1) % CountMod
          /\ Goes(t, "event", 0)
       \/ /\ thr[t].pc = "leaving"
          /\ active_count' = (thr[t].val + CountMod - 1) % CountMod
          /\ Goes(t, "loop", 0)
    /\ Written(t, active_count)
    /\ UNCHANGED <<startup_count, shutdown_count>>

ThreadStep(t) ==
    /\ Alive
    /\ \/ ReadStartup(t) \/ Started(t)
       \/ ReadShutdown(t) \/ Stopping(t)
       \/ Accept(t) \/ ReadActive(t) \/ WriteActive(t)
    /\ UNCHANGED <<main, control, clients, signals, stopping>>

\* The contexts are given up while a thread may be waiting in the library or
\* handling an event: undefined, and the process may die of it.
UseAfterQuit(t) ==
    /\ Alive
    /\ quit
    /\ thr[t].pc \in {"loop", "count", "counting", "event"}
    /\ main' = "aborted"
    /\ UNCHANGED <<control, clients, signals, threads, stopping>>

-------------------------------------------------------------------------------
(* The main thread starts and stops the others. *)

\* Driver::start starts call records; the contexts are made before it.
StartDriver ==
    /\ main = "start"
    /\ main' = "activate"
    /\ UNCHANGED <<control, clients, signals, threads, stopping>>

\* thread::activate starts a thread for each context, and waits for them.
Activate ==
    /\ main = "activate"
    /\ main' = "starting"
    /\ thr' = [t \in SipThreads |-> [pc |-> "start", val |-> 0]]
    /\ UNCHANGED <<control, clients, signals, counts, lost, stopping>>

Activated ==
    /\ main = "starting"
    /\ startup_count >= Cardinality(SipThreads)
    /\ main' = "register"
    /\ UNCHANGED <<control, clients, signals, threads, stopping>>

\* driver::start makes the registrations.  The build for earlier libraries keeps
\* the library's lock when no message was made (see Registrations): who asks for
\* it then waits for ever, the main thread itself at its next registration.
MakeRegistrations ==
    /\ main = "register"
    /\ locked' \in BOOLEAN
    /\ main' \in IF locked' THEN {"dispatch", "hung"} ELSE {"dispatch"}
    /\ UNCHANGED <<control, clients, signals, threads, shutdown_flag, quit>>

\* server::dispatch starts psignals before its loop.
Dispatch ==
    /\ main = "dispatch"
    /\ main' = "receive"
    /\ psig' = "created"
    /\ UNCHANGED <<control, clients, raised, pending, started, shutdown, dropped, threads,
                   stopping>>

\* driver::stop releases the registrations, with the library's lock.
ReleaseRegistrations ==
    /\ main = "release"
    /\ main' \in IF locked THEN {"flag", "hung"} ELSE {"flag"}
    /\ UNCHANGED <<control, clients, signals, threads, stopping>>

\* thread::shutdown
SetFlag ==
    /\ main = "flag"
    /\ shutdown_flag' = TRUE
    /\ main' = "background"
    /\ UNCHANGED <<control, clients, signals, threads, locked, quit>>

\* Background::shutdown comes back, or polls for ever a flag that nobody clears:
\* ShutdownEnds of Background is violated.
ShutdownBackground ==
    /\ main = "background"
    /\ main' \in {"drain", "hung"}
    /\ UNCHANGED <<control, clients, signals, threads, stopping>>

\* The contexts are given up when no thread counts itself as active.
ReleaseContexts ==
    /\ main = "drain"
    /\ active_count = 0
    /\ quit' = TRUE
    /\ main' = "stopping"
    /\ UNCHANGED <<control, clients, signals, threads, shutdown_flag, locked>>

\* Mutant of AllStopped: the wait for active threads is taken to be enough.
AllStoppedActive == active_count = 0

AllStopped == shutdown_count >= startup_count

ThreadsStopped ==
    /\ main = "stopping"
    /\ AllStopped
    /\ main' = "stop"
    /\ UNCHANGED <<control, clients, signals, threads, stopping>>

\* Driver::stop posts SHUTDOWN to every timeslot and stops call records.
StopDriver ==
    /\ main = "stop"
    /\ main' = "cancel"
    /\ UNCHANGED <<control, clients, signals, threads, stopping>>

\* psignals::cancel, called by server::release and, if it found no thread
\* that had started, once more by the destructor of psignals.
Cancel ==
    /\ main \in {"cancel", "exit"}
    /\ IF started /\ ~shutdown THEN shutdown' = TRUE ELSE UNCHANGED shutdown
    /\ main' = IF main = "cancel" THEN IF started THEN "join" ELSE "cleanup"
               ELSE IF started /\ psig # "ended" THEN "exit" ELSE "exited"
    /\ UNCHANGED <<control, clients, raised, pending, psig, started, dropped, threads, stopping>>

Join ==
    /\ main = "join"
    /\ psig = "ended"
    /\ main' = "cleanup"
    /\ UNCHANGED <<control, clients, signals, threads, stopping>>

\* cleanup() removes the fifo.
Cleanup ==
    /\ main = "cleanup"
    /\ main' = "exit"
    /\ UNCHANGED <<control, clients, signals, threads, stopping>>

-------------------------------------------------------------------------------
MainStep ==
    \/ Attach \/ StartDriver \/ Activate \/ Activated \/ MakeRegistrations \/ Dispatch
    \/ Receive \/ Read \/ Handle
    \/ ReleaseRegistrations \/ SetFlag \/ ShutdownBackground \/ ReleaseContexts
    \/ ThreadsStopped \/ StopDriver \/ Cancel \/ Join \/ Cleanup

SignalStep == Run \/ SigWait \/ Control

Environment ==
    \/ \E c \in Clients : \/ \E r \in Requests : Command(c, r)
                          \/ Usage(c) \/ TakeReply(c) \/ TimeOut(c)
    \/ \E s \in Signals : Raise(s)
    \/ \E t \in SipThreads : GetEvent(t) \/ UseAfterQuit(t)

Next ==
    \/ MainStep
    \/ SignalStep
    \/ \E t \in SipThreads : ThreadStep(t)
    \/ Environment

Spec == Init /\ [][Next]_vars

\* A SIP thread that handles an event may need the library's lock to finish.
Unblocked(t) == locked => thr[t].pc # "event"

\* The threads of the server run; signals, clients and SIP events need not come.
FairSpec ==
    /\ Spec
    /\ WF_vars(MainStep)
    /\ WF_vars(SignalStep)
    /\ \A t \in SipThreads : WF_vars(ThreadStep(t) /\ Unblocked(t))

-------------------------------------------------------------------------------
(* Properties *)

\* A client hears of its own command and of nothing else: the signal that
\* server::reply sends is the outcome of the command of that client, and
\* baycontrol exits with success or failure only after such a signal.
ReplyMatchesCommand ==
    \A c \in Clients :
        /\ "USR1" \in sent[c] => outcome[c] = "ok"
        /\ "USR2" \in sent[c] => outcome[c] = "error"
        /\ client[c] = "failed" => outcome[c] = "error"

\* When thread::shutdown returns, every SIP thread has left its loop, although
\* updates of the counts it waits for may have been lost: no thread posts an
\* event to a timeslot that Driver::stop has shut down.
ThreadsEndedAtStop ==
    main \in {"stop", "cancel", "join", "cleanup", "exit"} =>
        \A t \in SipThreads : thr[t].pc = "ended"

\* SIGTERM ends the server, whatever it is doing, with the exceptions of faults
\* that the code has: the fifo was full when psignals wrote the command, which it
\* does not notice; two threads updated a count at the same time, so that
\* thread::shutdown waits for a sum that is not reached; the earlier build kept the
\* library's lock; Background::shutdown does not come back.  Without one of
\* these every wait on the way to the end is over at some time.
TermStops ==
    "TERM" \in pending ~> ~Alive \/ "down" \in dropped \/ lost \/ locked \/ main = "hung"
===============================================================================
