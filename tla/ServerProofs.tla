----------------------------- MODULE ServerProofs -----------------------------
(***************************************************************************)
(* Proofs about Server, for any number of clients, signals and SIP threads *)
(* and a fifo of any size.                                                 *)
(***************************************************************************)
EXTENDS Server, FiniteSetTheorems, SequenceTheorems, TLAPS

Entries == [target : Clients \cup {NoTarget}, cmd : Commands]

LEMMA Wrap ==
    ASSUME NEW a \in Nat
    PROVE  /\ a % CountMod \in 0 .. CountMod - 1
           /\ a < CountMod => a % CountMod = a
<1>1. CountMod \in Nat /\ CountMod > 0
  BY CountsFit, FS_CardinalityType
<1> QED
  BY <1>1

-------------------------------------------------------------------------------
(* Types *)

LEMMA ServerInitTypes == Init => TypeOK
<1> SUFFICES ASSUME Init PROVE TypeOK
  OBVIOUS
<1>1. CountMod \in Nat /\ 0 \in 0 .. CountMod - 1
  BY CountsFit, FS_CardinalityType
<1>2. fifo \in Seq(Entries) /\ Len(fifo) = 0
  BY EmptySeq DEF Init
<1>3. \A n \in {startup_count, active_count, shutdown_count} : n \in 0 .. CountMod - 1
  BY <1>1 DEF Init
<1>4. thr \in [SipThreads -> [pc : {"none", "start", "starting", "loop", "got", "count", "counting",
                                    "event", "leaving", "stopping", "ended"},
                              val : 0 .. CountMod - 1]]
  BY <1>1 DEF Init
<1>5. main \in MainPc /\ Len(fifo) <= FifoSize
  BY <1>2, FifoHolds DEF Init, MainPc
<1>6. /\ raised \in SUBSET Signals /\ pending \in SUBSET raised
      /\ started \in BOOLEAN /\ shutdown \in BOOLEAN
      /\ shutdown_flag \in BOOLEAN /\ lost \in BOOLEAN /\ quit \in BOOLEAN /\ locked \in BOOLEAN
  BY DEF Init
<1> QED
  BY <1>2, <1>3, <1>4, <1>5, <1>6 DEF Init, TypeOK, Entries

LEMMA ReplyTypes ==
    ASSUME TypeOK, NEW s \in {"USR1", "USR2"}, Reply(s)
    PROVE  /\ sent' \in [Clients -> SUBSET {"USR1", "USR2"}]
           /\ replytarget' \in Clients \cup {NoTarget}
BY DEF TypeOK, Reply

LEMMA MainTypes == ASSUME TypeOK, MainStep PROVE TypeOK'
<1> USE DEF control, clients, signals, counts, threads, stopping
<1>1. CASE Attach \/ StartDriver \/ Activated \/ ReleaseRegistrations \/ SetFlag
           \/ ShutdownBackground \/ ReleaseContexts \/ ThreadsStopped \/ StopDriver \/ Join \/ Cleanup
  <2>1. main' \in MainPc
    BY <1>1 DEF Attach, StartDriver, Activated, ReleaseRegistrations, SetFlag,
                ShutdownBackground, ReleaseContexts,
                ThreadsStopped, StopDriver, Join, Cleanup, MainPc
  <2>2. shutdown_flag' \in BOOLEAN /\ quit' \in BOOLEAN
    <3>1. shutdown_flag' \in {shutdown_flag, TRUE} /\ quit' \in {quit, TRUE}
      BY <1>1 DEF Attach, StartDriver, Activated, ReleaseRegistrations, SetFlag,
                ShutdownBackground, ReleaseContexts,
                  ThreadsStopped, StopDriver, Join, Cleanup
    <3> QED
      BY <3>1 DEF TypeOK
  <2>3. UNCHANGED <<fifo, replytarget, cmd, client, sent, outcome, raised, pending, psig, started,
                    shutdown, dropped, thr, startup_count, active_count, shutdown_count, lost,
                    locked>>
    BY <1>1 DEF Attach, StartDriver, Activated, ReleaseRegistrations, SetFlag,
                ShutdownBackground, ReleaseContexts,
                ThreadsStopped, StopDriver, Join, Cleanup
  <2> QED
    BY <2>1, <2>2, <2>3 DEF TypeOK
<1>7. CASE MakeRegistrations
  BY <1>7 DEF MakeRegistrations, TypeOK, MainPc
<1>2. CASE Activate
  <2>1. 0 \in 0 .. CountMod - 1
    BY CountsFit, FS_CardinalityType
  <2> QED
    BY <1>2, <2>1 DEF Activate, TypeOK, MainPc
<1>3. CASE Dispatch \/ Cancel
  <2>1. CASE Dispatch
    BY <2>1 DEF Dispatch, TypeOK, MainPc
  <2>2. CASE Cancel
    <3>1. main' \in MainPc /\ shutdown' \in BOOLEAN
      BY <2>2 DEF Cancel, TypeOK, MainPc
    <3>2. UNCHANGED <<control, clients, raised, pending, psig, started, dropped, threads, stopping>>
      BY <2>2 DEF Cancel
    <3> QED
      BY <3>1, <3>2 DEF TypeOK
  <2> QED
    BY <1>3, <2>1, <2>2
<1>4. CASE Receive
  BY <1>4, ReplyTypes DEF Receive, TypeOK, MainPc
<1>5. CASE Read
  <2>1. fifo \in Seq(Entries) /\ fifo # <<>>
    BY <1>5 DEF Read, TypeOK, Entries
  <2>2. Head(fifo) \in Entries /\ Tail(fifo) \in Seq(Entries) /\ Len(Tail(fifo)) = Len(fifo) - 1
    BY <2>1, HeadTailProperties
  <2>3. Len(fifo) \in Nat
    BY <2>1, LenProperties
  <2> QED
    BY <1>5, <2>2, <2>3, FifoHolds DEF Read, TypeOK, MainPc, Entries
<1>6. CASE Handle
  <2>1. outcome' \in [Clients -> {"none", "ok", "error"}]
    BY <1>6 DEF Handle, Succeed, Fail, Break, Abort, Recorded, TypeOK
  <2>2. /\ sent' \in [Clients -> SUBSET {"USR1", "USR2"}]
        /\ replytarget' \in Clients \cup {NoTarget}
    BY <1>6, ReplyTypes DEF Handle, Succeed, Fail, Break, Abort, TypeOK
  <2> QED
    BY <1>6, <2>1, <2>2 DEF Handle, Succeed, Fail, Break, Abort, TypeOK, MainPc
<1> QED
  BY <1>1, <1>2, <1>3, <1>4, <1>5, <1>6, <1>7 DEF MainStep

\* A writer that finds room adds its command.
LEMMA AppendTypes ==
    ASSUME TypeOK, FifoRoom, NEW e \in Entries
    PROVE  Append(fifo, e) \in Seq(Entries) /\ Len(Append(fifo, e)) <= FifoSize
<1>1. fifo \in Seq(Entries)
  BY DEF TypeOK, Entries
<1>2. Len(fifo) \in Nat /\ Len(Append(fifo, e)) = Len(fifo) + 1 /\ Append(fifo, e) \in Seq(Entries)
  BY <1>1, LenProperties, AppendProperties
<1> QED
  BY <1>2, FifoHolds DEF FifoRoom

LEMMA SignalTypes == ASSUME TypeOK, SignalStep PROVE TypeOK'
<1> USE DEF control, clients, signals, counts, threads, stopping
<1>1. CASE Run \/ SigWait
  BY <1>1 DEF Run, SigWait, TypeOK
<1>2. CASE Control
  <2>1. Order(psig) \in Commands
    BY <1>2, SignalsKnown DEF Control, Order, Commands
  <2>2. [target |-> NoTarget, cmd |-> Order(psig)] \in Entries
    BY <2>1 DEF Entries
  <2>3. fifo' \in Seq(Entries) /\ Len(fifo') <= FifoSize /\ dropped' \subseteq Commands
    BY <1>2, <2>1, <2>2, AppendTypes DEF Control, TypeOK, Entries
  <2> QED
    BY <1>2, <2>3 DEF Control, TypeOK, Entries
<1> QED
  BY <1>1, <1>2 DEF SignalStep

LEMMA ThreadTypes == ASSUME TypeOK, NEW t \in SipThreads, ThreadStep(t) PROVE TypeOK'
<1> USE DEF control, clients, signals, counts, threads, stopping
<1>1. thr[t].val \in Nat /\ CountMod \in Nat \ {0} /\ thr[t].val + 1 \in Nat
      /\ thr[t].val + CountMod - 1 \in Nat /\ 0 \in 0 .. CountMod - 1
  BY CountsFit, FS_CardinalityType DEF TypeOK
<1>2. /\ startup_count' \in 0 .. CountMod - 1 /\ active_count' \in 0 .. CountMod - 1
      /\ shutdown_count' \in 0 .. CountMod - 1
  <2>1. /\ (thr[t].val + 1) % CountMod \in 0 .. CountMod - 1
        /\ (thr[t].val + CountMod - 1) % CountMod \in 0 .. CountMod - 1
    BY <1>1, Wrap
  <2> QED
    BY <2>1 DEF ThreadStep, ReadStartup, Started, ReadShutdown, Stopping, Accept, ReadActive,
                WriteActive, TypeOK
<1>3. \E pc \in {"starting", "loop", "stopping", "ended", "count", "counting", "leaving", "event"},
         val \in 0 .. CountMod - 1 : Goes(t, pc, val)
  BY <1>1 DEF ThreadStep, ReadStartup, Started, ReadShutdown, Stopping, Accept, ReadActive,
              WriteActive, TypeOK
<1>4. thr' \in [SipThreads -> [pc : {"none", "start", "starting", "loop", "got", "count", "counting",
                                     "event", "leaving", "stopping", "ended"},
                               val : 0 .. CountMod - 1]]
  BY <1>3 DEF Goes, TypeOK
<1>5. lost' \in BOOLEAN
  BY DEF ThreadStep, ReadStartup, Started, ReadShutdown, Stopping, Accept, ReadActive, WriteActive,
         Written, TypeOK
<1> QED
  BY <1>2, <1>4, <1>5 DEF ThreadStep, TypeOK

LEMMA EnvironmentTypes == ASSUME TypeOK, Environment PROVE TypeOK'
<1> USE DEF control, clients, signals, counts, threads, stopping
<1>1. ASSUME NEW c \in Clients, NEW r \in Requests, Command(c, r) PROVE TypeOK'
  <2>1. [target |-> IF Waits(r) THEN c ELSE NoTarget, cmd |-> r] \in Entries
    BY RequestsKnown DEF Entries
  <2>2. fifo' \in Seq(Entries) /\ Len(fifo') <= FifoSize
    BY <1>1, <2>1, AppendTypes DEF Command, TypeOK, Entries
  <2>3. client' \in [Clients -> {"idle", "waiting", "done", "failed", "timeout", "unsent"}]
    BY <1>1 DEF Command, TypeOK
  <2>4. UNCHANGED <<main, replytarget, cmd, sent, outcome, signals, threads, stopping>>
    BY <1>1 DEF Command
  <2> QED
    BY <2>2, <2>3, <2>4 DEF TypeOK, Entries
<1>2. ASSUME NEW c \in Clients, Usage(c) \/ TakeReply(c) \/ TimeOut(c) PROVE TypeOK'
  BY <1>2 DEF Usage, TakeReply, TimeOut, TypeOK
<1>3. ASSUME NEW s \in Signals, Raise(s) PROVE TypeOK'
  BY <1>3 DEF Raise, TypeOK
<1>4. ASSUME NEW t \in SipThreads, GetEvent(t) PROVE TypeOK'
  <2>1. 0 \in 0 .. CountMod - 1
    BY CountsFit, FS_CardinalityType
  <2>2. thr' \in [SipThreads -> [pc : {"none", "start", "starting", "loop", "got", "count",
                                       "counting", "event", "leaving", "stopping", "ended"},
                                 val : 0 .. CountMod - 1]]
    BY <1>4, <2>1 DEF GetEvent, Goes, TypeOK
  <2> QED
    BY <1>4, <2>2 DEF GetEvent, TypeOK
<1>5. ASSUME NEW t \in SipThreads, UseAfterQuit(t) PROVE TypeOK'
  BY <1>5 DEF UseAfterQuit, TypeOK, MainPc
<1> QED
  BY <1>1, <1>2, <1>3, <1>4, <1>5 DEF Environment

\* The state of the server, its clients, signals and threads has its types,
\* and the fifo never holds more than it can.
THEOREM ServerTypeCorrect == Spec => []TypeOK
<1>1. TypeOK /\ [Next]_vars => TypeOK'
  <2> SUFFICES ASSUME TypeOK, [Next]_vars PROVE TypeOK'
    OBVIOUS
  <2>1. CASE UNCHANGED vars
    BY <2>1 DEF vars, control, clients, signals, counts, threads, stopping, TypeOK
  <2> QED
    BY <2>1, MainTypes, SignalTypes, ThreadTypes, EnvironmentTypes DEF Next
<1> QED
  BY <1>1, ServerInitTypes, PTL DEF Spec

-------------------------------------------------------------------------------
(* Replies *)

Before == {"attach", "start", "activate", "starting", "register", "dispatch"}

\* A command that waits in the fifo is the only one of its client, and
\* nothing was done for it yet.
FifoOK ==
    /\ \A i \in 1 .. Len(fifo) : fifo[i].target \in Clients =>
          /\ outcome[fifo[i].target] = "none"
          /\ client[fifo[i].target] # "idle"
          /\ replytarget # fifo[i].target
    /\ \A i, j \in 1 .. Len(fifo) :
          fifo[i].target \in Clients /\ fifo[i].target = fifo[j].target => i = j

\* The client of the command in hand has heard nothing, and what it is told
\* next is true.
TargetOK ==
    /\ main \in Before \cup {"read"} => replytarget = NoTarget
    /\ replytarget \in Clients =>
          /\ client[replytarget] # "idle"
          /\ main = "handle" => outcome[replytarget] = "none"
          /\ main = "receive" => outcome[replytarget] = "ok"

ClientsOK ==
    \A c \in Clients : /\ client[c] = "idle" => outcome[c] = "none"
                       /\ outcome[c] = "none" => sent[c] = {}

ReplyInv == TypeOK /\ FifoOK /\ TargetOK /\ ClientsOK /\ ReplyMatchesCommand

LEMMA ReplyInit == Init => ReplyInv
<1> SUFFICES ASSUME Init PROVE ReplyInv
  OBVIOUS
<1>1. Len(fifo) = 0
  BY DEF Init
<1>2. FifoOK
  BY <1>1 DEF FifoOK
<1>3. TargetOK /\ ClientsOK /\ ReplyMatchesCommand
  BY ClientsDistinct DEF Init, TargetOK, ClientsOK, ReplyMatchesCommand, Before
<1> QED
  BY <1>2, <1>3, ServerInitTypes DEF ReplyInv

\* A step that leaves the fifo, the target and the clients alone and does not
\* go where the target matters.
LEMMA ReplyFrame ==
    ASSUME ReplyInv, TypeOK', UNCHANGED <<fifo, replytarget, clients>>,
           \/ main' = main
           \/ main' \notin Before \cup {"read", "handle", "receive"}
           \/ main \in Before /\ main' \in Before \cup {"receive"}
    PROVE  ReplyInv'
<1> USE DEF ReplyInv, clients
<1>1. FifoOK'
  BY DEF FifoOK
<1>2. TargetOK'
  BY ClientsDistinct DEF TargetOK, Before
<1>3. ClientsOK' /\ ReplyMatchesCommand'
  BY DEF ClientsOK, ReplyMatchesCommand
<1> QED
  BY <1>1, <1>2, <1>3

LEMMA ReceiveReply == ASSUME ReplyInv, TypeOK', Receive PROVE ReplyInv'
<1> USE DEF ReplyInv, Receive, Reply
<1>1. FifoOK'
  BY ClientsDistinct DEF FifoOK
<1>2. TargetOK'
  BY ClientsDistinct DEF TargetOK
<1>3. ClientsOK'
  BY DEF ClientsOK, TargetOK, TypeOK
<1>4. ReplyMatchesCommand'
  BY DEF ReplyMatchesCommand, TargetOK, TypeOK
<1> QED
  BY <1>1, <1>2, <1>3, <1>4

LEMMA ReadReply == ASSUME ReplyInv, TypeOK', Read PROVE ReplyInv'
<1> USE DEF ReplyInv
<1>1. fifo \in Seq(Entries) /\ fifo # <<>>
  BY DEF Read, TypeOK, Entries
<1>2. /\ Head(fifo) = fifo[1] /\ Head(fifo) \in Entries /\ Len(fifo) \in Nat \ {0}
      /\ Len(fifo') = Len(fifo) - 1 /\ \A i \in 1 .. Len(fifo') : fifo'[i] = fifo[i + 1]
  BY <1>1, HeadTailProperties, LenProperties DEF Read
<1>3. replytarget = NoTarget /\ replytarget' = fifo[1].target
  BY <1>2 DEF Read, TargetOK
<1>4. UNCHANGED clients /\ main' = "handle"
  BY DEF Read
<1>5. FifoOK'
  <2>1. ASSUME NEW i \in 1 .. Len(fifo'), fifo'[i].target \in Clients
        PROVE  /\ outcome'[fifo'[i].target] = "none"
               /\ client'[fifo'[i].target] # "idle"
               /\ replytarget' # fifo'[i].target
    BY <2>1, <1>2, <1>3, <1>4 DEF FifoOK, clients
  <2>2. ASSUME NEW i \in 1 .. Len(fifo'), NEW j \in 1 .. Len(fifo'),
               fifo'[i].target \in Clients, fifo'[i].target = fifo'[j].target
        PROVE  i = j
    BY <2>2, <1>2 DEF FifoOK
  <2> QED
    BY <2>1, <2>2 DEF FifoOK
<1>6. TargetOK'
  BY <1>2, <1>3, <1>4 DEF FifoOK, TargetOK, clients, Before
<1>7. ClientsOK' /\ ReplyMatchesCommand'
  BY <1>4 DEF ClientsOK, ReplyMatchesCommand, clients
<1> QED
  BY <1>5, <1>6, <1>7

LEMMA HandleReply == ASSUME ReplyInv, TypeOK', Handle PROVE ReplyInv'
<1> USE DEF ReplyInv
<1>1. CASE Break \/ Abort
  BY <1>1, ReplyFrame DEF Handle, Break, Abort, Before, clients
<1>2. ASSUME NEW o \in {"ok", "error"}, Recorded(o), main' = "receive", UNCHANGED <<fifo, client>>,
             \/ UNCHANGED <<sent, replytarget>> /\ o = "ok"
             \/ Reply("USR1") /\ o = "ok"
             \/ Reply("USR2") /\ o = "error"
      PROVE  ReplyInv'
  <2>0. main = "handle"
    BY DEF Handle
  <2>1. FifoOK'
    <3>1. /\ replytarget' = replytarget \/ replytarget' = NoTarget
          /\ \A c \in Clients : c # replytarget => outcome'[c] = outcome[c]
          /\ fifo' = fifo /\ client' = client
      BY <1>2 DEF Recorded, Reply, TypeOK
    <3>2. \A i \in 1 .. Len(fifo) : fifo[i].target \in Clients =>
             outcome'[fifo[i].target] = outcome[fifo[i].target]
      BY <3>1 DEF FifoOK
    <3> QED
      BY <3>1, <3>2, ClientsDistinct DEF FifoOK
  <2>2. TargetOK'
    BY <1>2, ClientsDistinct DEF TargetOK, Recorded, Reply, TypeOK, Before
  <2>3. ClientsOK'
    BY <1>2, <2>0 DEF ClientsOK, TargetOK, Recorded, Reply, TypeOK
  <2>4. ReplyMatchesCommand'
    BY <1>2, <2>0 DEF ReplyMatchesCommand, ClientsOK, TargetOK, Recorded, Reply, TypeOK
  <2> QED
    BY <2>1, <2>2, <2>3, <2>4
<1> QED
  BY <1>1, <1>2 DEF Handle, Succeed, Fail

LEMMA CommandReply ==
    ASSUME ReplyInv, TypeOK', NEW c \in Clients, NEW r \in Requests, Command(c, r)
    PROVE  ReplyInv'
<1> USE DEF ReplyInv
<1> DEFINE e == [target |-> IF Waits(r) THEN c ELSE NoTarget, cmd |-> r]
<1>1. /\ UNCHANGED <<main, replytarget, sent, outcome>>
      /\ client[c] = "idle" /\ outcome[c] = "none" /\ replytarget # c
  BY DEF Command, ClientsOK, TargetOK
<1>2. /\ client' \in [Clients -> {"idle", "waiting", "done", "failed", "timeout", "unsent"}]
      /\ client'[c] \notin {"idle", "failed"} /\ \A d \in Clients : d # c => client'[d] = client[d]
  BY DEF Command, TypeOK
<1>3. fifo' = fifo \/ fifo' = Append(fifo, e)
  BY DEF Command
<1>4. FifoOK'
  <2>1. CASE fifo' = fifo
    BY <2>1, <1>1, <1>2 DEF FifoOK
  <2>2. CASE fifo' = Append(fifo, e)
    <3>1. e \in Entries /\ fifo \in Seq(Entries)
      BY RequestsKnown DEF Entries, TypeOK
    <3>2. /\ Len(fifo) \in Nat /\ Len(fifo') = Len(fifo) + 1
          /\ \A i \in 1 .. Len(fifo) : fifo'[i] = fifo[i] /\ fifo[i].target # c
          /\ fifo'[Len(fifo) + 1] = e
      BY <3>1, <2>2, <1>1, AppendProperties, LenProperties DEF FifoOK
    <3>3. e.target \in {c, NoTarget}
      OBVIOUS
    <3> HIDE DEF e
    <3> QED
      BY <3>2, <3>3, <1>1, <1>2, ClientsDistinct DEF FifoOK
  <2> QED
    BY <2>1, <2>2, <1>3
<1>5. TargetOK'
  BY <1>1, <1>2 DEF TargetOK
<1>6. ClientsOK' /\ ReplyMatchesCommand'
  BY <1>1, <1>2 DEF ClientsOK, ReplyMatchesCommand
<1> QED
  BY <1>4, <1>5, <1>6

LEMMA ClientReply ==
    ASSUME ReplyInv, TypeOK', NEW c \in Clients, Usage(c) \/ TakeReply(c) \/ TimeOut(c)
    PROVE  ReplyInv'
<1> USE DEF ReplyInv
<1>1. /\ UNCHANGED <<main, control, sent, outcome>>
      /\ client'[c] # "idle" /\ \A d \in Clients : d # c => client'[d] = client[d]
  BY DEF Usage, TakeReply, TimeOut, TypeOK
<1>2. client'[c] = "failed" => outcome[c] = "error"
  BY DEF Usage, TakeReply, TimeOut, TypeOK, ReplyMatchesCommand
<1>3. FifoOK'
  BY <1>1 DEF FifoOK, control
<1>4. TargetOK'
  BY <1>1 DEF TargetOK, control
<1>5. ClientsOK' /\ ReplyMatchesCommand'
  BY <1>1, <1>2 DEF ClientsOK, ReplyMatchesCommand
<1> QED
  BY <1>3, <1>4, <1>5

\* psignals names no client.
LEMMA ControlReply == ASSUME ReplyInv, TypeOK', Control PROVE ReplyInv'
<1> USE DEF ReplyInv
<1> DEFINE e == [target |-> NoTarget, cmd |-> Order(psig)]
<1>1. UNCHANGED <<main, replytarget, clients>> /\ (fifo' = fifo \/ fifo' = Append(fifo, e))
  BY DEF Control
<1>2. CASE fifo' = fifo
  BY <1>1, <1>2, ReplyFrame
<1>3. CASE fifo' = Append(fifo, e)
  <2>1. Order(psig) \in Commands
    BY SignalsKnown DEF Control, Order, Commands
  <2>2. e \in Entries /\ fifo \in Seq(Entries)
    BY <2>1 DEF Entries, TypeOK
  <2>3. /\ Len(fifo) \in Nat /\ Len(fifo') = Len(fifo) + 1
        /\ \A i \in 1 .. Len(fifo) : fifo'[i] = fifo[i]
        /\ fifo'[Len(fifo) + 1] = e
    BY <2>2, <1>3, AppendProperties, LenProperties
  <2>4. e.target = NoTarget
    OBVIOUS
  <2> HIDE DEF e
  <2>5. FifoOK'
    BY <2>3, <2>4, <1>1, ClientsDistinct DEF FifoOK, clients
  <2>6. TargetOK' /\ ClientsOK' /\ ReplyMatchesCommand'
    BY <1>1 DEF TargetOK, ClientsOK, ReplyMatchesCommand, clients
  <2> QED
    BY <2>5, <2>6
<1> QED
  BY <1>1, <1>2, <1>3

LEMMA ReplyStep == ReplyInv /\ [Next]_vars => ReplyInv'
<1> SUFFICES ASSUME ReplyInv, [Next]_vars PROVE ReplyInv'
  OBVIOUS
<1>0. TypeOK'
  <2>1. CASE UNCHANGED vars
    BY <2>1 DEF vars, control, clients, signals, counts, threads, stopping, TypeOK, ReplyInv
  <2> QED
    BY <2>1, MainTypes, SignalTypes, ThreadTypes, EnvironmentTypes DEF Next, ReplyInv
<1>1. CASE Receive \/ Read \/ Handle
  BY <1>0, <1>1, ReceiveReply, ReadReply, HandleReply
<1>2. CASE Attach \/ StartDriver \/ Activate \/ Activated \/ MakeRegistrations \/ Dispatch
  BY <1>0, <1>2, ReplyFrame
     DEF Attach, StartDriver, Activate, Activated, MakeRegistrations, Dispatch, Before, control
<1>3. CASE ReleaseRegistrations \/ SetFlag \/ ShutdownBackground \/ ReleaseContexts
           \/ ThreadsStopped \/ StopDriver \/ Cancel \/ Join \/ Cleanup
  <2>1. UNCHANGED <<fifo, replytarget, clients>>
    BY <1>3 DEF ReleaseRegistrations, SetFlag, ShutdownBackground, ReleaseContexts,
                ThreadsStopped, StopDriver, Cancel, Join, Cleanup, control
  <2>2. main' \in {"flag", "background", "hung", "drain", "stopping", "stop", "cancel", "join", "cleanup", "exit", "exited"}
    BY <1>3 DEF ReleaseRegistrations, SetFlag, ShutdownBackground, ReleaseContexts,
                ThreadsStopped, StopDriver, Cancel, Join, Cleanup
  <2>3. main' \notin Before \cup {"read", "handle", "receive"}
    BY <2>2 DEF Before
  <2> QED
    BY <1>0, <2>1, <2>3, ReplyFrame
<1>4. CASE Control
  BY <1>0, <1>4, ControlReply
<1>5. CASE Run \/ SigWait
  BY <1>0, <1>5, ReplyFrame DEF Run, SigWait, control
<1>6. ASSUME NEW t \in SipThreads, ThreadStep(t) \/ GetEvent(t) PROVE ReplyInv'
  BY <1>0, <1>6, ReplyFrame DEF ThreadStep, GetEvent, control
<1>7. ASSUME NEW t \in SipThreads, UseAfterQuit(t) PROVE ReplyInv'
  BY <1>0, <1>7, ReplyFrame DEF UseAfterQuit, control, Before
<1>8. ASSUME NEW s \in Signals, Raise(s) PROVE ReplyInv'
  BY <1>0, <1>8, ReplyFrame DEF Raise, control
<1>9. CASE UNCHANGED vars
  BY <1>0, <1>9, ReplyFrame DEF vars, control
<1> QED
  BY <1>0, <1>1, <1>2, <1>3, <1>4, <1>5, <1>6, <1>7, <1>8, <1>9, CommandReply, ClientReply
     DEF Next, MainStep, SignalStep, Environment

\* server::reply tells every client of its own command and of nothing else,
\* for any number of clients that share the fifo.
THEOREM RepliesSafe == Spec => []ReplyMatchesCommand
<1>1. ReplyInv => ReplyMatchesCommand
  BY DEF ReplyInv
<1> QED
  BY <1>1, ReplyInit, ReplyStep, PTL DEF Spec

-------------------------------------------------------------------------------
(* The end of the SIP threads *)

Past == {t \in SipThreads : thr[t].pc \notin {"none", "start", "starting"}}
Gone == {t \in SipThreads : thr[t].pc = "ended"}

\* A count, and what a thread has read of it, is never more than the number
\* of threads that have counted themselves; updates may be lost.
CountsOK ==
    /\ startup_count <= Cardinality(Past)
    /\ shutdown_count <= Cardinality(Gone)
    /\ \A t \in SipThreads :
          /\ thr[t].pc = "starting" => thr[t].val <= Cardinality(Past)
          /\ thr[t].pc = "stopping" => thr[t].val <= Cardinality(Gone)

\* No thread runs before thread::activate, and all have counted themselves
\* when it returns.
StagesOK ==
    /\ main \in {"attach", "start", "activate"} => \A t \in SipThreads : thr[t].pc = "none"
    /\ main \notin {"attach", "start", "activate", "starting", "exited", "aborted"} =>
          /\ startup_count = Cardinality(SipThreads)
          /\ \A t \in SipThreads : thr[t].pc \notin {"none", "start", "starting"}

StopInv == TypeOK /\ CountsOK /\ StagesOK /\ ThreadsEndedAtStop

LEMMA Parts ==
    /\ IsFiniteSet(Past) /\ IsFiniteSet(Gone) /\ Past \subseteq SipThreads /\ Gone \subseteq SipThreads
    /\ Cardinality(Past) \in Nat /\ Cardinality(Gone) \in Nat /\ Cardinality(SipThreads) \in Nat
    /\ Cardinality(Past) <= Cardinality(SipThreads) /\ Cardinality(Gone) <= Cardinality(SipThreads)
    /\ Cardinality(Past) = Cardinality(SipThreads) => Past = SipThreads
    /\ Cardinality(Gone) = Cardinality(SipThreads) => Gone = SipThreads
<1>1. Past \subseteq SipThreads /\ Gone \subseteq SipThreads
  BY DEF Past, Gone
<1>2. IsFiniteSet(SipThreads)
  BY CountsFit
<1> QED
  BY <1>1, <1>2, FS_Subset, FS_CardinalityType

\* A thread that is not counted yet is one that can still be counted.
LEMMA OneMoreThread ==
    ASSUME NEW S, S \subseteq SipThreads, NEW t \in SipThreads \ S
    PROVE  /\ Cardinality(S \cup {t}) = Cardinality(S) + 1
           /\ Cardinality(S) \in Nat
           /\ Cardinality(S) + 1 <= Cardinality(SipThreads)
<1>1. IsFiniteSet(S) /\ S \cup {t} \subseteq SipThreads /\ IsFiniteSet(SipThreads)
  BY CountsFit, FS_Subset
<1>2. Cardinality(S \cup {t}) = Cardinality(S) + 1 /\ Cardinality(S) \in Nat
  BY <1>1, FS_AddElement, FS_CardinalityType
<1>3. Cardinality(S \cup {t}) <= Cardinality(SipThreads)
  BY <1>1, FS_Subset
<1> QED
  BY <1>2, <1>3

LEMMA StopInit == Init => StopInv
<1> SUFFICES ASSUME Init PROVE StopInv
  OBVIOUS
<1>1. \A t \in SipThreads : thr[t].pc = "none"
  BY DEF Init
<1>2. Past = {} /\ Gone = {}
  BY <1>1 DEF Past, Gone
<1>3. CountsOK
  BY <1>1, <1>2, FS_EmptySet DEF CountsOK, Init
<1>4. StagesOK /\ ThreadsEndedAtStop
  BY <1>1 DEF StagesOK, ThreadsEndedAtStop, Init
<1> QED
  BY <1>3, <1>4, ServerInitTypes DEF StopInv

\* The counts and the threads stay, and the main thread does not enter a new
\* stage.
LEMMA StopFrame ==
    ASSUME StopInv, TypeOK', UNCHANGED <<thr, startup_count, shutdown_count>>,
           \/ main' = main
           \/ main' \in {"exited", "aborted"}
           \/ main \in {"attach", "start"} /\ main' \in {"start", "activate"}
           \/ main' = "hung" /\ main \in {"register", "release", "background"}
           \/ /\ main \in {"register", "dispatch", "receive", "read", "handle", "release", "flag",
                           "background", "drain"}
              /\ main' \in {"dispatch", "receive", "read", "handle", "release", "flag",
                            "background", "drain", "stopping"}
           \/ /\ main \in {"stop", "cancel", "join", "cleanup", "exit"}
              /\ main' \in {"cancel", "join", "cleanup", "exit"}
    PROVE  StopInv'
<1> USE DEF StopInv
<1>1. Past' = Past /\ Gone' = Gone
  BY DEF Past, Gone
<1>2. CountsOK'
  BY <1>1 DEF CountsOK
<1>3. StagesOK'
  BY DEF StagesOK
<1>4. ThreadsEndedAtStop'
  BY DEF ThreadsEndedAtStop
<1> QED
  BY <1>2, <1>3, <1>4

\* A thread moves within its loop.
LEMMA LoopStop ==
    ASSUME StopInv, TypeOK', NEW t \in SipThreads,
           UNCHANGED <<main, startup_count, shutdown_count>>,
           NEW pc \in {"loop", "got", "count", "counting", "event", "leaving"}, NEW val, Goes(t, pc, val),
           thr[t].pc \in {"loop", "got", "count", "counting", "event", "leaving"}
    PROVE  StopInv'
<1> USE DEF StopInv
<1>1. thr'[t].pc = pc /\ \A u \in SipThreads : u # t => thr'[u] = thr[u]
  BY DEF Goes, TypeOK
<1>2. Past' = Past /\ Gone' = Gone
  BY <1>1 DEF Past, Gone
<1>3. CountsOK'
  BY <1>1, <1>2 DEF CountsOK
<1>4. StagesOK' /\ ThreadsEndedAtStop'
  BY <1>1 DEF StagesOK, ThreadsEndedAtStop
<1> QED
  BY <1>3, <1>4

LEMMA StartedStop ==
    ASSUME StopInv, TypeOK', NEW t \in SipThreads, Started(t), UNCHANGED main
    PROVE  StopInv'
<1> USE DEF StopInv
<1>1. /\ thr[t].pc = "starting" /\ thr'[t].pc = "loop"
      /\ \A u \in SipThreads : u # t => thr'[u] = thr[u]
      /\ UNCHANGED shutdown_count /\ startup_count' = (thr[t].val + 1) % CountMod
  BY DEF Started, Goes, TypeOK
<1>2. Past' = Past \cup {t} /\ t \notin Past /\ Gone' = Gone
  BY <1>1 DEF Past, Gone
<1>3. /\ Cardinality(Past') = Cardinality(Past) + 1 /\ Cardinality(Past) \in Nat
      /\ Cardinality(Past) + 1 <= Cardinality(SipThreads)
  BY <1>2, Parts, OneMoreThread
<1>4. thr[t].val \in Nat /\ thr[t].val <= Cardinality(Past)
  BY <1>1, CountsFit DEF TypeOK, CountsOK
<1>5. startup_count' = thr[t].val + 1
  <2>1. thr[t].val + 1 \in Nat /\ thr[t].val + 1 < CountMod
    BY <1>3, <1>4, CountsFit, Parts
  <2> QED
    BY <1>1, <2>1, Wrap
<1>6. CountsOK'
  <2>1. \A u \in SipThreads : thr[u].val \in Nat
    BY CountsFit DEF TypeOK
  <2>2. startup_count' <= Cardinality(Past') /\ shutdown_count' <= Cardinality(Gone')
    BY <1>1, <1>2, <1>3, <1>4, <1>5 DEF CountsOK
  <2>3. ASSUME NEW u \in SipThreads
        PROVE  /\ thr'[u].pc = "starting" => thr'[u].val <= Cardinality(Past')
               /\ thr'[u].pc = "stopping" => thr'[u].val <= Cardinality(Gone')
    <3>1. CASE u = t
      BY <3>1, <1>1
    <3>2. CASE u # t
      <4>1. thr'[u] = thr[u] /\ thr[u].val \in Nat
        BY <3>2, <2>1, <1>1
      <4>2. /\ thr[u].pc = "starting" => thr[u].val <= Cardinality(Past)
            /\ thr[u].pc = "stopping" => thr[u].val <= Cardinality(Gone)
        BY DEF CountsOK
      <4> QED
        BY <4>1, <4>2, <1>2, <1>3
    <3> QED
      BY <3>1, <3>2
  <2> QED
    BY <2>2, <2>3 DEF CountsOK
<1>7. StagesOK' /\ ThreadsEndedAtStop'
  BY <1>1 DEF StagesOK, ThreadsEndedAtStop
<1> QED
  BY <1>6, <1>7

LEMMA StoppingStop ==
    ASSUME StopInv, TypeOK', NEW t \in SipThreads, Stopping(t), UNCHANGED main
    PROVE  StopInv'
<1> USE DEF StopInv
<1>1. /\ thr[t].pc = "stopping" /\ thr'[t].pc = "ended"
      /\ \A u \in SipThreads : u # t => thr'[u] = thr[u]
      /\ UNCHANGED startup_count /\ shutdown_count' = (thr[t].val + 1) % CountMod
  BY DEF Stopping, Goes, TypeOK
<1>2. Gone' = Gone \cup {t} /\ t \notin Gone /\ Past' = Past
  BY <1>1 DEF Past, Gone
<1>3. /\ Cardinality(Gone') = Cardinality(Gone) + 1 /\ Cardinality(Gone) \in Nat
      /\ Cardinality(Gone) + 1 <= Cardinality(SipThreads)
  BY <1>2, Parts, OneMoreThread
<1>4. thr[t].val \in Nat /\ thr[t].val <= Cardinality(Gone)
  BY <1>1, CountsFit DEF TypeOK, CountsOK
<1>5. shutdown_count' = thr[t].val + 1
  <2>1. thr[t].val + 1 \in Nat /\ thr[t].val + 1 < CountMod
    BY <1>3, <1>4, CountsFit, Parts
  <2> QED
    BY <1>1, <2>1, Wrap
<1>6. CountsOK'
  <2>1. \A u \in SipThreads : thr[u].val \in Nat
    BY CountsFit DEF TypeOK
  <2>2. startup_count' <= Cardinality(Past') /\ shutdown_count' <= Cardinality(Gone')
    BY <1>1, <1>2, <1>3, <1>4, <1>5 DEF CountsOK
  <2>3. ASSUME NEW u \in SipThreads
        PROVE  /\ thr'[u].pc = "starting" => thr'[u].val <= Cardinality(Past')
               /\ thr'[u].pc = "stopping" => thr'[u].val <= Cardinality(Gone')
    <3>1. CASE u = t
      BY <3>1, <1>1
    <3>2. CASE u # t
      <4>1. thr'[u] = thr[u] /\ thr[u].val \in Nat
        BY <3>2, <2>1, <1>1
      <4>2. /\ thr[u].pc = "starting" => thr[u].val <= Cardinality(Past)
            /\ thr[u].pc = "stopping" => thr[u].val <= Cardinality(Gone)
        BY DEF CountsOK
      <4> QED
        BY <4>1, <4>2, <1>2, <1>3
    <3> QED
      BY <3>1, <3>2
  <2> QED
    BY <2>2, <2>3 DEF CountsOK
<1>7. StagesOK' /\ ThreadsEndedAtStop'
  BY <1>1 DEF StagesOK, ThreadsEndedAtStop
<1> QED
  BY <1>6, <1>7

\* A thread reads startup_count, or finds the flag set and reads shutdown_count.
LEMMA ReadStop ==
    ASSUME StopInv, TypeOK', NEW t \in SipThreads, ReadStartup(t) \/ ReadShutdown(t), UNCHANGED main
    PROVE  StopInv'
<1> USE DEF StopInv
<1>1. /\ UNCHANGED <<startup_count, shutdown_count>>
      /\ \A u \in SipThreads : u # t => thr'[u] = thr[u]
      /\ \/ thr[t].pc = "start" /\ thr'[t].pc = "starting" /\ thr'[t].val = startup_count
         \/ /\ thr[t].pc \in {"loop", "got"} /\ thr'[t].pc = "stopping"
            /\ thr'[t].val = shutdown_count
  BY DEF ReadStartup, ReadShutdown, StopTest, Goes, TypeOK, counts
<1>2. Past' = Past /\ Gone' = Gone
  BY <1>1 DEF Past, Gone
<1>3. CountsOK'
  BY <1>1, <1>2 DEF CountsOK
<1>4. StagesOK' /\ ThreadsEndedAtStop'
  BY <1>1 DEF StagesOK, ThreadsEndedAtStop
<1> QED
  BY <1>3, <1>4

LEMMA ThreadStop == ASSUME StopInv, TypeOK', NEW t \in SipThreads, ThreadStep(t) PROVE StopInv'
<1>1. UNCHANGED main
  BY DEF ThreadStep
<1>2. CASE Accept(t) \/ ReadActive(t)
  <2>1. UNCHANGED <<startup_count, shutdown_count>>
    BY <1>2 DEF Accept, ReadActive, counts
  <2>2. \E pc \in {"count", "counting", "leaving"}, val \in {0, active_count} :
           Goes(t, pc, val) /\ thr[t].pc \in {"got", "count", "event"}
    BY <1>2 DEF Accept, ReadActive
  <2> QED
    BY <1>1, <2>1, <2>2, LoopStop
<1>3. CASE WriteActive(t)
  <2>1. \E pc \in {"event", "loop"} : Goes(t, pc, 0) /\ thr[t].pc \in {"counting", "leaving"}
    BY <1>3 DEF WriteActive
  <2> QED
    BY <1>1, <1>3, <2>1, LoopStop DEF WriteActive
<1> QED
  BY <1>1, <1>2, <1>3, ReadStop, StartedStop, StoppingStop DEF ThreadStep

\* The main thread starts the threads, and finds that all have started.
LEMMA ActivateStop == ASSUME StopInv, TypeOK', Activate \/ Activated PROVE StopInv'
<1> USE DEF StopInv
<1>1. CASE Activate
  <2>1. /\ UNCHANGED <<startup_count, shutdown_count>> /\ main' = "starting"
        /\ \A t \in SipThreads : thr[t].pc = "none" /\ thr'[t].pc = "start"
    BY <1>1 DEF Activate, counts, StagesOK
  <2>2. Past' = Past /\ Gone' = Gone
    BY <2>1 DEF Past, Gone
  <2> QED
    BY <2>1, <2>2 DEF CountsOK, StagesOK, ThreadsEndedAtStop
<1>2. CASE Activated
  <2>1. /\ UNCHANGED <<thr, startup_count, shutdown_count>> /\ main' = "register"
        /\ startup_count >= Cardinality(SipThreads)
    BY <1>2 DEF Activated, threads, counts
  <2>2. startup_count \in Nat /\ startup_count <= Cardinality(Past)
    BY CountsFit DEF TypeOK, CountsOK
  <2>3. startup_count = Cardinality(SipThreads) /\ Past = SipThreads
    BY <2>1, <2>2, Parts
  <2>4. Past' = Past /\ Gone' = Gone
    BY <2>1 DEF Past, Gone
  <2>5. \A t \in SipThreads : thr[t].pc \notin {"none", "start", "starting"}
    BY <2>3 DEF Past
  <2> QED
    BY <2>1, <2>3, <2>4, <2>5 DEF CountsOK, StagesOK, ThreadsEndedAtStop
<1> QED
  BY <1>1, <1>2

\* thread::shutdown returns.
LEMMA ThreadsStoppedStop == ASSUME StopInv, TypeOK', ThreadsStopped PROVE StopInv'
<1> USE DEF StopInv
<1>1. /\ UNCHANGED <<thr, startup_count, shutdown_count>> /\ main = "stopping" /\ main' = "stop"
      /\ shutdown_count >= startup_count
  BY DEF ThreadsStopped, AllStopped, threads, counts
<1>2. startup_count = Cardinality(SipThreads)
  BY <1>1 DEF StagesOK
<1>3. shutdown_count \in Nat /\ shutdown_count <= Cardinality(Gone)
  BY CountsFit DEF TypeOK, CountsOK
<1>4. Gone = SipThreads
  BY <1>1, <1>2, <1>3, Parts
<1>5. Past' = Past /\ Gone' = Gone
  BY <1>1 DEF Past, Gone
<1>6. \A t \in SipThreads : thr[t].pc = "ended"
  BY <1>4 DEF Gone
<1> QED
  BY <1>1, <1>5, <1>6 DEF CountsOK, StagesOK, ThreadsEndedAtStop

LEMMA StopStep == StopInv /\ [Next]_vars => StopInv'
<1> SUFFICES ASSUME StopInv, [Next]_vars PROVE StopInv'
  OBVIOUS
<1> USE DEF threads, counts
<1>0. TypeOK'
  <2>1. CASE UNCHANGED vars
    BY <2>1 DEF vars, control, clients, signals, stopping, TypeOK, StopInv
  <2> QED
    BY <2>1, MainTypes, SignalTypes, ThreadTypes, EnvironmentTypes DEF Next, StopInv
<1>1. CASE Activate \/ Activated \/ ThreadsStopped
  BY <1>0, <1>1, ActivateStop, ThreadsStoppedStop
<1>2. CASE Attach \/ StartDriver \/ Dispatch \/ Receive \/ Read \/ Handle
  BY <1>0, <1>2, StopFrame DEF Attach, StartDriver, Dispatch, Receive, Read, Handle, Succeed, Fail,
                               Break, Abort
<1>3. CASE MakeRegistrations \/ ReleaseRegistrations \/ SetFlag \/ ShutdownBackground
  BY <1>0, <1>3, StopFrame DEF MakeRegistrations, ReleaseRegistrations, SetFlag, ShutdownBackground
<1>10. CASE ReleaseContexts \/ StopDriver \/ Cancel \/ Join \/ Cleanup
  BY <1>0, <1>10, StopFrame DEF ReleaseContexts, StopDriver, Cancel, Join, Cleanup
<1>4. CASE SignalStep
  BY <1>0, <1>4, StopFrame DEF SignalStep, Run, SigWait, Control
<1>5. ASSUME NEW t \in SipThreads, GetEvent(t) PROVE StopInv'
  BY <1>0, <1>5, LoopStop DEF GetEvent
<1>6. ASSUME NEW t \in SipThreads, UseAfterQuit(t) PROVE StopInv'
  BY <1>0, <1>6, StopFrame DEF UseAfterQuit
<1>7. ASSUME NEW c \in Clients,
             (\E r \in Requests : Command(c, r)) \/ Usage(c) \/ TakeReply(c) \/ TimeOut(c)
      PROVE  StopInv'
  BY <1>0, <1>7, StopFrame DEF Command, Usage, TakeReply, TimeOut
<1>8. ASSUME NEW s \in Signals, Raise(s) PROVE StopInv'
  BY <1>0, <1>8, StopFrame DEF Raise
<1>9. CASE UNCHANGED vars
  BY <1>0, <1>9, StopFrame DEF vars
<1> QED
  BY <1>0, <1>1, <1>2, <1>3, <1>4, <1>5, <1>6, <1>7, <1>8, <1>9, <1>10, ThreadStop
     DEF Next, MainStep, Environment

\* thread::shutdown returns only after every SIP thread has left its loop, for
\* any number of threads and although the counts lose updates.
THEOREM StopSafe == Spec => []ThreadsEndedAtStop
<1>1. StopInv => ThreadsEndedAtStop
  BY DEF StopInv
<1> QED
  BY <1>1, StopInit, StopStep, PTL DEF Spec
===============================================================================
