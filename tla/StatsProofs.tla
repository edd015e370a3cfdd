----------------------------- MODULE StatsProofs ------------------------------
(***************************************************************************)
(* Proofs about Stats, for any number of calls, registrations, nodes and   *)
(* period commands.                                                        *)
(***************************************************************************)
EXTENDS Stats, FiniteSetTheorems, TLAPS

\* The values of a node, of which the proofs need no bounds.
Entry ==
    [type : {"UNUSED", "SYSTEM", "REGISTRY"}, lastcall : BOOLEAN,
     total : Int, period : Int, pperiod : Int, current : Int, peak : Int,
     min : Int, max : Int, pmin : Int, pmax : Int]

\* A call has some registration before it comes in for one.
Sources == Registries \cup {CHOOSE r \in Registries : TRUE}

Stages == [pc : {"idle", "attach", "assign", "active", "detach", "ended"}, step : 0 .. 3,
           reg : Sources]

ShapeOK ==
    /\ count \in 0 .. Tables + 1 /\ used \in 0 .. Tables + 1
    /\ node \in [Nodes -> Entry]
    /\ stats \in [Registries -> Nodes \cup {NoNode}]
    /\ listed \in SUBSET Registries
    /\ mutex \in [Nodes -> Calls \cup {Main, Nobody}]
    /\ call \in [Calls -> Stages]
    /\ main \in [pc : {"create", "start", "serve", "period"}, pos : 0 .. Tables + 1, step : 0 .. 1]
    /\ reported \in [Nodes -> Int]
    /\ view \in [pc : {"idle", "node", "total", "current", "peak", "sametotal", "samecurrent",
                       "samepeak", "print", "exit"},
                 index : Nat, buffer : [total : Int, current : Int, peak : Int]]

\* Who works on a node protects it.
WorkerOK(c) ==
    /\ call[c].pc # "idle" => call[c].reg \in listed
    /\ call[c].step # 0 =>
          /\ call[c].pc \in {"attach", "assign", "active", "detach"}
          /\ NodeOf(c) \in Nodes /\ mutex[NodeOf(c)] = c

PeriodOK ==
    main.step = 1 => /\ main.pc = "period" /\ main.pos \in Nodes /\ main.pos < count
                     /\ mutex[main.pos] = Main

\* What was reported and the running period make the total; between its two
\* steps period() has the running period reported already.
SumOK(n) ==
    node[n].total = reported[n] + (IF main.step = 1 /\ main.pos = n THEN 0 ELSE node[n].period)

Updates(c, n, k) == call[c].pc \in {"attach", "assign"} /\ call[c].step = k /\ NodeOf(c) = n

\* The current count is ahead of the peak only in the last step of an update,
\* and the total is ahead of it in the step before.
CountOK(n) ==
    /\ node[n].current <= node[n].total
    /\ node[n].peak <= node[n].total
    /\ node[n].current <= node[n].peak + 1
    /\ node[n].current <= node[n].peak \/ \E c \in Calls : Updates(c, n, 3)
    /\ \A c \in Calls : Updates(c, n, 2) => node[n].current < node[n].total

\* What baycontrol has copied so far.
CopyOK(b, s) ==
    /\ view.pc \in {"current", "peak", "sametotal"} => b.total <= s.total
    /\ view.pc \in {"peak", "sametotal"} => (s.total = b.total => b.current <= b.total)
    /\ view.pc = "peak" => b.current <= s.peak + 1
    /\ view.pc = "sametotal" => (s.total = b.total => b.peak <= b.total)
    /\ view.pc \in {"sametotal", "samecurrent", "samepeak", "print"} => b.current <= b.peak + 1
    /\ view.pc \in {"samecurrent", "samepeak", "print"} =>
          b.current <= b.total /\ b.peak <= b.total

ViewOK ==
    /\ view.pc \in {"total", "current", "peak", "sametotal", "samecurrent", "samepeak", "print"} =>
          view.index \in Nodes
    /\ CopyOK(view.buffer, node[view.index])

StatsInv ==
    /\ ShapeOK
    /\ \A c \in Calls : WorkerOK(c)
    /\ PeriodOK
    /\ \A n \in Nodes : SumOK(n) /\ CountOK(n)
    /\ ViewOK

-------------------------------------------------------------------------------
LEMMA NodesFacts ==
    /\ Tables \in Nat /\ Nodes = 0 .. Tables /\ NoNode \notin Nodes /\ 0 \in Nodes
    /\ \A n \in Nat : n < Tables + 1 => n \in Nodes
BY TablesIsCount, NoNodeDistinct DEF Nodes

LEMMA StatsInit == Init => StatsInv
<1> SUFFICES ASSUME Init PROVE StatsInv
  OBVIOUS
<1>1. ShapeOK
  BY NodesFacts DEF Init, ShapeOK, Entry, Unused, Stages, Sources
<1>2. \A c \in Calls : call[c].pc = "idle" /\ call[c].step = 0
  BY DEF Init
<1>3. \A c \in Calls : WorkerOK(c)
  BY <1>2 DEF WorkerOK
<1>4. PeriodOK
  BY DEF Init, PeriodOK
<1>5. \A n \in Nodes : SumOK(n) /\ CountOK(n)
  BY <1>2 DEF Init, SumOK, CountOK, Unused, Updates
<1>6. ViewOK
  BY DEF Init, ViewOK, CopyOK
<1> QED
  BY <1>1, <1>3, <1>4, <1>5, <1>6 DEF StatsInv

\* A node's total and peak never fall, so that what was copied stays true.
LEMMA CopyFrame ==
    ASSUME StatsInv, UNCHANGED view, node' \in [Nodes -> Entry],
           \A n \in Nodes : node[n].total <= node'[n].total /\ node[n].peak <= node'[n].peak
    PROVE  ViewOK'
<1> DEFINE s == node[view.index]
           t == node'[view.index]
           b == view.buffer
<1>1. view.pc \notin {"total", "current", "peak", "sametotal", "samecurrent", "samepeak", "print"}
         => ViewOK'
  BY DEF StatsInv, ViewOK, CopyOK
<1>2. ASSUME view.pc \in {"total", "current", "peak", "sametotal", "samecurrent", "samepeak", "print"}
      PROVE  ViewOK'
  <2>1. view.index \in Nodes /\ CopyOK(b, s)
    BY <1>2 DEF StatsInv, ViewOK
  <2>2. /\ s \in Entry /\ t \in Entry /\ s.total <= t.total /\ s.peak <= t.peak
        /\ b \in [total : Int, current : Int, peak : Int]
    BY <2>1 DEF StatsInv, ShapeOK
  <2>3. /\ s.total \in Int /\ t.total \in Int /\ s.peak \in Int /\ t.peak \in Int
        /\ b.total \in Int /\ b.current \in Int /\ b.peak \in Int
    BY <2>2 DEF Entry
  <2>4. CopyOK(b, t)
    BY <2>1, <2>2, <2>3 DEF CopyOK
  <2> QED
    BY <2>1, <2>4 DEF ViewOK, CopyOK
<1> QED
  BY <1>1, <1>2

\* Steps of a call that does not work on a node yet: it goes on, or protects one.
LEMMA CallFrame ==
    ASSUME StatsInv, NEW c \in Calls,
           NEW x \in Stages,
           call' = [call EXCEPT ![c] = x], call[c].step = 0, x.step \in {0, 1},
           UNCHANGED <<table, node, main, reported, view>>,
           mutex' \in [Nodes -> Calls \cup {Main, Nobody}],
           \A n \in Nodes : mutex[n] # Nobody => mutex'[n] = mutex[n],
           WorkerOK(c)'
    PROVE  StatsInv'
<1> USE DEF table
<1>1. call'[c] = x /\ \A d \in Calls : d # c => call'[d] = call[d]
  BY DEF StatsInv, ShapeOK
<1>2. ShapeOK'
  BY DEF StatsInv, ShapeOK
<1>3. ASSUME NEW d \in Calls PROVE WorkerOK(d)'
  <2>1. CASE d # c
    <3>1. WorkerOK(d) /\ NodeOf(d)' = NodeOf(d) /\ call'[d] = call[d] /\ listed' = listed
      BY <2>1, <1>1 DEF StatsInv, NodeOf
    <3>2. Nobody # d
      BY NamesDistinct
    <3> QED
      BY <3>1, <3>2 DEF WorkerOK
  <2> QED
    BY <2>1
<1>4. PeriodOK'
  BY NamesDistinct DEF StatsInv, PeriodOK
<1>5. \A d \in Calls : \A n, k : k \in {2, 3} => (Updates(d, n, k)' <=> Updates(d, n, k))
  BY <1>1 DEF Updates, NodeOf
<1>6. \A n \in Nodes : SumOK(n)' /\ CountOK(n)'
  BY <1>5 DEF StatsInv, SumOK, CountOK
<1>7. ViewOK'
  BY DEF StatsInv, ViewOK, CopyOK
<1> QED
  BY <1>2, <1>3, <1>4, <1>6, <1>7 DEF StatsInv

LEMMA InviteInv ==
    ASSUME StatsInv, NEW c \in Calls, NEW r \in Registries, Invite(c, r)
    PROVE  StatsInv'
<1> DEFINE x == [call[c] EXCEPT !.pc = "attach", !.reg = r]
<1>1. call[c].pc = "idle" /\ call[c].step = 0 /\ r \in listed
  BY DEF Invite, StatsInv, WorkerOK
<1>2. /\ x \in Stages
      /\ x.step = 0 /\ x.reg = r /\ call' = [call EXCEPT ![c] = x] /\ call'[c] = x
  BY <1>1 DEF Invite, StatsInv, ShapeOK, Stages, Sources
<1>3. /\ UNCHANGED <<table, node, main, reported, view, mutex>>
      /\ mutex \in [Nodes -> Calls \cup {Main, Nobody}]
  BY DEF Invite, nodes, StatsInv, ShapeOK
<1> HIDE DEF x
<1>4. WorkerOK(c)'
  BY <1>1, <1>2, <1>3 DEF WorkerOK, table
<1> QED
  BY <1>1, <1>2, <1>3, <1>4, CallFrame

LEMMA StageMove ==
    ASSUME NEW y \in Stages, NEW j \in 0 .. 3,
           NEW p \in {"idle", "attach", "assign", "active", "detach", "ended"}
    PROVE  [y EXCEPT !.pc = p, !.step = j] \in Stages
BY DEF Stages

LEMMA MoveInv ==
    ASSUME StatsInv, NEW c \in Calls, Unmetered(c) \/ NoTimeslot(c)
    PROVE  StatsInv'
<1>1. PICK pc \in {"assign", "ended", "detach"} : Goes(c, pc, 0)
  BY DEF Unmetered, NoTimeslot
<1> DEFINE x == [call[c] EXCEPT !.pc = pc, !.step = 0]
<1>2. call[c].pc # "idle" /\ call[c].step = 0
  <2>1. CASE Unmetered(c)
    BY <2>1, NodesFacts DEF Unmetered, StatsInv, WorkerOK
  <2> QED
    BY <2>1 DEF NoTimeslot
<1>3. /\ x \in Stages
      /\ x.step = 0 /\ x.reg = call[c].reg /\ call' = [call EXCEPT ![c] = x] /\ call'[c] = x
  <2>1. call[c] \in Stages
    BY DEF StatsInv, ShapeOK
  <2>2. x \in Stages
    <3>1. 0 \in 0 .. 3 /\ pc \in {"idle", "attach", "assign", "active", "detach", "ended"}
      OBVIOUS
    <3> QED
      BY <2>1, <3>1, StageMove
  <2>3. x.step = 0 /\ x.reg = call[c].reg
    BY <2>1 DEF Stages
  <2>4. call' = [call EXCEPT ![c] = x]
    BY <1>1 DEF Goes, StatsInv, ShapeOK
  <2> QED
    BY <2>2, <2>3, <2>4 DEF StatsInv, ShapeOK
<1>4. /\ UNCHANGED <<table, node, main, reported, view, mutex>>
      /\ mutex \in [Nodes -> Calls \cup {Main, Nobody}]
  BY DEF Unmetered, NoTimeslot, nodes, StatsInv, ShapeOK
<1> HIDE DEF x
<1>5. WorkerOK(c)'
  BY <1>2, <1>3, <1>4 DEF WorkerOK, table, StatsInv
<1> QED
  BY <1>2, <1>3, <1>4, <1>5, CallFrame

LEMMA ProtectInv ==
    ASSUME StatsInv, NEW c \in Calls, Protect(c)
    PROVE  StatsInv'
<1> DEFINE n == NodeOf(c)
           y == [call[c] EXCEPT !.pc = "ended", !.step = 0]
           z == [call[c] EXCEPT !.step = 1]
<1>1. /\ call[c].pc \in {"attach", "assign", "active", "detach"} /\ call[c].step = 0
      /\ n # NoNode /\ mutex[n] = Nobody /\ call[c].reg \in listed
      /\ UNCHANGED <<table, node, main, reported, view>>
      /\ mutex \in [Nodes -> Calls \cup {Main, Nobody}]
      /\ call[c] \in Stages
  BY DEF Protect, StatsInv, ShapeOK, WorkerOK
<1>2. CASE Refused(c)
  <2>1. /\ y \in Stages
        /\ y.step = 0 /\ y.reg = call[c].reg /\ call' = [call EXCEPT ![c] = y] /\ call'[c] = y
        /\ mutex' = mutex
    BY <1>1, <1>2 DEF Protect, Goes, StatsInv, ShapeOK, Stages
  <2> HIDE DEF y
  <2>2. WorkerOK(c)'
    BY <1>1, <2>1 DEF WorkerOK, table
  <2> QED
    BY <1>1, <2>1, <2>2, CallFrame
<1>3. CASE ~Refused(c)
  <2>1. /\ z \in Stages
        /\ z.step = 1 /\ z.reg = call[c].reg /\ z.pc = call[c].pc
        /\ call' = [call EXCEPT ![c] = z] /\ call'[c] = z
        /\ mutex' = [mutex EXCEPT ![n] = c]
    BY <1>1, <1>3 DEF Protect, Goes, StatsInv, ShapeOK, Stages
  <2>2. n \in Nodes
    <3>1. stats \in [Registries -> Nodes \cup {NoNode}]
      BY DEF StatsInv, ShapeOK
    <3>2. call[c].reg \in Registries
      BY <1>1 DEF StatsInv, ShapeOK
    <3> QED
      BY <1>1, <3>1, <3>2, NodesFacts DEF NodeOf
  <2>3. NodeOf(c)' = n
    BY <2>1, <1>1 DEF NodeOf, table
  <2> HIDE DEF z, n
  <2>4. WorkerOK(c)'
    BY <1>1, <2>1, <2>2, <2>3 DEF WorkerOK, table
  <2>5. /\ mutex' \in [Nodes -> Calls \cup {Main, Nobody}]
        /\ \A m \in Nodes : mutex[m] # Nobody => mutex'[m] = mutex[m]
    BY <1>1, <2>1
  <2> QED
    BY <1>1, <2>1, <2>4, <2>5, CallFrame
<1> QED
  BY <1>2, <1>3

-------------------------------------------------------------------------------
\* What the statements of an update and of a release do to the counts.
LEMMA UpdateFacts ==
    ASSUME NEW s \in Entry
    PROVE  /\ \A k \in 1 .. 3 : Update(s, k) \in Entry /\ Release(s, k) \in Entry
           /\ LET u == Update(s, 1) IN /\ u.total = s.total + 1 /\ u.period = s.period + 1
                                       /\ u.current = s.current /\ u.peak = s.peak
           /\ LET u == Update(s, 2) IN /\ u.total = s.total /\ u.period = s.period
                                       /\ u.current = s.current + 1 /\ u.peak = s.peak
           /\ LET u == Update(s, 3) IN /\ u.total = s.total /\ u.period = s.period
                                       /\ u.current = s.current
                                       /\ u.peak = IF s.current > s.peak THEN s.current ELSE s.peak
           /\ \A k \in 1 .. 3 :
                 LET u == Release(s, k) IN /\ u.total = s.total /\ u.period = s.period
                                           /\ u.current <= s.current /\ u.peak = s.peak
                                           /\ k # 2 => u.current = s.current
<1>1. /\ Update(s, 1) = [s EXCEPT !.period = @ + 1, !.total = @ + 1]
      /\ Update(s, 2) = [s EXCEPT !.current = @ + 1]
      /\ Update(s, 3) = [s EXCEPT !.peak = IF s.current > @ THEN s.current ELSE @,
                                  !.max = IF s.current > @ THEN s.current ELSE @]
  BY DEF Update
<1>2. /\ Release(s, 1) = [s EXCEPT !.lastcall = @ \/ s.current = 1]
      /\ Release(s, 2) = [s EXCEPT !.current = @ - 1]
      /\ Release(s, 3) = [s EXCEPT !.min = IF s.current < @ THEN s.current ELSE @]
  BY DEF Release
<1>3. Update(s, 1) \in Entry /\ Update(s, 2) \in Entry /\ Update(s, 3) \in Entry
  <2>1. s.current \in Int /\ s.peak \in Int /\ s.max \in Int
    BY DEF Entry
  <2>2. Update(s, 1) \in Entry
    <3>1. s.period + 1 \in Int /\ s.total + 1 \in Int
      BY DEF Entry
    <3>2. ASSUME NEW a \in Int, NEW b \in Int PROVE [s EXCEPT !.period = a, !.total = b] \in Entry
      BY DEF Entry
    <3>3. Update(s, 1) = [s EXCEPT !.period = s.period + 1, !.total = s.total + 1]
      BY <1>1 DEF Entry
    <3> QED
      BY <3>1, <3>2, <3>3
  <2>3. Update(s, 2) \in Entry
    BY <1>1 DEF Entry
  <2>4. Update(s, 3) \in Entry
    <3>1. ASSUME NEW a \in Int, NEW b \in Int PROVE [s EXCEPT !.peak = a, !.max = b] \in Entry
      BY DEF Entry
    <3>2. PICK a \in Int, b \in Int : Update(s, 3) = [s EXCEPT !.peak = a, !.max = b]
      <4>1. Update(s, 3) = [s EXCEPT !.peak = IF s.current > s.peak THEN s.current ELSE s.peak,
                                     !.max = IF s.current > s.max THEN s.current ELSE s.max]
        BY <1>1 DEF Entry
      <4>2. /\ (IF s.current > s.peak THEN s.current ELSE s.peak) \in Int
            /\ (IF s.current > s.max THEN s.current ELSE s.max) \in Int
        BY <2>1
      <4> QED
        BY <4>1, <4>2
    <3> QED
      BY <3>1, <3>2
  <2> QED
    BY <2>2, <2>3, <2>4
<1>4. Release(s, 1) \in Entry /\ Release(s, 2) \in Entry /\ Release(s, 3) \in Entry
  <2>1. s.current \in Int /\ s.min \in Int
    BY DEF Entry
  <2>2. ASSUME NEW b \in BOOLEAN PROVE [s EXCEPT !.lastcall = b] \in Entry
    BY DEF Entry
  <2>3. ASSUME NEW a \in Int
        PROVE  [s EXCEPT !.current = a] \in Entry /\ [s EXCEPT !.min = a] \in Entry
    BY DEF Entry
  <2>4. (s.lastcall \/ s.current = 1) \in BOOLEAN
    OBVIOUS
  <2>5. Release(s, 1) = [s EXCEPT !.lastcall = (s.lastcall \/ s.current = 1)]
    BY <1>2 DEF Entry
  <2>6. Release(s, 1) \in Entry
    BY <2>2, <2>4, <2>5
  <2>7. Release(s, 2) = [s EXCEPT !.current = s.current - 1] /\ s.current - 1 \in Int
    BY <1>2, <2>1 DEF Entry
  <2>8. /\ Release(s, 3) = [s EXCEPT !.min = IF s.current < s.min THEN s.current ELSE s.min]
        /\ (IF s.current < s.min THEN s.current ELSE s.min) \in Int
    BY <1>2, <2>1 DEF Entry
  <2> QED
    BY <2>3, <2>6, <2>7, <2>8
<1>5. \A k \in 1 .. 3 : k = 1 \/ k = 2 \/ k = 3
  OBVIOUS
<1>6. \A k \in 1 .. 3 : Update(s, k) \in Entry /\ Release(s, k) \in Entry
  BY <1>3, <1>4, <1>5
<1>7. /\ LET u == Update(s, 1) IN /\ u.total = s.total + 1 /\ u.period = s.period + 1
                                  /\ u.current = s.current /\ u.peak = s.peak
      /\ LET u == Update(s, 2) IN /\ u.total = s.total /\ u.period = s.period
                                  /\ u.current = s.current + 1 /\ u.peak = s.peak
      /\ LET u == Update(s, 3) IN /\ u.total = s.total /\ u.period = s.period
                                  /\ u.current = s.current
                                  /\ u.peak = IF s.current > s.peak THEN s.current ELSE s.peak
  BY <1>1 DEF Entry
<1>8. ASSUME NEW k \in 1 .. 3
      PROVE  LET u == Release(s, k) IN /\ u.total = s.total /\ u.period = s.period
                                       /\ u.current <= s.current /\ u.peak = s.peak
                                       /\ k # 2 => u.current = s.current
  BY <1>2, <1>5 DEF Entry
<1> QED
  BY <1>6, <1>7, <1>8

LEMMA WorkInv ==
    ASSUME StatsInv, NEW c \in Calls, Work(c)
    PROVE  StatsInv'
<1> USE DEF table
<1>0. PICK n \in Nodes, k \in 1 .. 3 : n = NodeOf(c) /\ k = call[c].step
  BY DEF Work, StatsInv, ShapeOK, WorkerOK, Stages
<1> DEFINE s == node[n]
           t == node'[n]
           up == call[c].pc \in {"attach", "assign"}
<1>1. /\ call[c].pc \in {"attach", "assign", "active", "detach"} /\ n \in Nodes /\ mutex[n] = c
      /\ k \in 1 .. 3 /\ call[c].reg \in listed /\ s \in Entry
      /\ call[c] \in Stages
  BY <1>0 DEF Work, StatsInv, ShapeOK, WorkerOK
<1>2. /\ UNCHANGED <<table, main, reported, view>>
      /\ node' = [node EXCEPT ![n] = IF up THEN Update(s, k) ELSE Release(s, k)]
  BY <1>0 DEF Work
<1>3. /\ t = (IF up THEN Update(s, k) ELSE Release(s, k)) /\ t \in Entry
      /\ \A m \in Nodes : m # n => node'[m] = node[m]
      /\ node' \in [Nodes -> Entry]
  BY <1>1, <1>2, UpdateFacts DEF StatsInv, ShapeOK
<1>4. /\ \A d \in Calls : d # c => call'[d] = call[d]
      /\ call'[c].reg = call[c].reg /\ call'[c].pc # "idle"
      /\ k = 3 => call'[c].step = 0
      /\ k # 3 => call'[c].step = k + 1 /\ call'[c].pc = call[c].pc
      /\ call' \in [Calls -> Stages]
  <2>1. PICK pc \in {"attach", "assign", "active", "detach", "ended"}, j \in 0 .. 3 :
           /\ call' = [call EXCEPT ![c].pc = pc, ![c].step = j]
           /\ k = 3 => j = 0
           /\ k # 3 => j = k + 1 /\ pc = call[c].pc
    <3>1. After(call[c].pc) \in {"assign", "active", "detach", "ended"}
      BY <1>1 DEF After
    <3>2. CASE k = 3
      BY <1>0, <3>1, <3>2 DEF Work, Goes
    <3>3. CASE k # 3
      BY <1>0, <1>1, <3>3 DEF Work, Goes
    <3> QED
      BY <3>2, <3>3
  <2>2. call \in [Calls -> Stages]
    BY DEF StatsInv, ShapeOK
  <2> QED
    BY <2>1, <2>2 DEF Stages
<1>5. /\ mutex' \in [Nodes -> Calls \cup {Main, Nobody}]
      /\ k # 3 => mutex' = mutex
      /\ \A m \in Nodes : m # n => mutex'[m] = mutex[m]
  BY <1>0 DEF Work, StatsInv, ShapeOK
<1>6. /\ \A d \in Calls : d # c => NodeOf(d)' = NodeOf(d)
      /\ k # 3 => NodeOf(c)' = n
  BY <1>0, <1>2, <1>4 DEF NodeOf
<1>7. \A d \in Calls : d # c /\ call[d].step # 0 => NodeOf(d) # n
  BY <1>0, <1>1 DEF StatsInv, WorkerOK
<1>8. ~(main.step = 1 /\ main.pos = n)
  BY <1>1, NamesDistinct DEF StatsInv, PeriodOK
<1>9. /\ s.total \in Int /\ s.period \in Int /\ s.current \in Int /\ s.peak \in Int
      /\ t.total \in Int /\ t.period \in Int /\ t.current \in Int /\ t.peak \in Int
      /\ reported[n] \in Int
  BY <1>1, <1>3 DEF Entry, StatsInv, ShapeOK
<1>10. /\ up /\ k = 1 => /\ t.total = s.total + 1 /\ t.period = s.period + 1
                         /\ t.current = s.current /\ t.peak = s.peak
       /\ up /\ k = 2 => /\ t.total = s.total /\ t.period = s.period
                         /\ t.current = s.current + 1 /\ t.peak = s.peak
       /\ up /\ k = 3 => /\ t.total = s.total /\ t.period = s.period /\ t.current = s.current
                         /\ t.peak = IF s.current > s.peak THEN s.current ELSE s.peak
       /\ ~up => /\ t.total = s.total /\ t.period = s.period
                 /\ t.current <= s.current /\ t.peak = s.peak
  BY <1>1, <1>3, UpdateFacts
<1>11. SumOK(n) /\ CountOK(n)
  BY <1>1 DEF StatsInv
<1>12. /\ n = NodeOf(c) /\ k = call[c].step /\ s = node[n] /\ t = node'[n]
       /\ up <=> call[c].pc \in {"attach", "assign"}
  BY <1>0
<1>13. k = 1 \/ k = 2 \/ k = 3
  BY <1>1
<1> HIDE DEF s, t, up
<1>14. ShapeOK'
  BY <1>2, <1>3, <1>4, <1>5 DEF StatsInv, ShapeOK
<1>15. ASSUME NEW d \in Calls PROVE WorkerOK(d)'
  <2>1. CASE d = c
    BY <2>1, <1>1, <1>2, <1>4, <1>5, <1>6 DEF WorkerOK
  <2>2. CASE d # c
    <3>1. WorkerOK(d) /\ NodeOf(d)' = NodeOf(d) /\ call'[d] = call[d]
      BY <2>2, <1>4, <1>6 DEF StatsInv
    <3> QED
      BY <3>1, <2>2, <1>2, <1>5, <1>7 DEF WorkerOK
  <2> QED
    BY <2>1, <2>2
<1>16. PeriodOK'
  BY <1>2, <1>5, <1>8 DEF StatsInv, PeriodOK
<1>17. \A d \in Calls, m \in Nodes, j \in {2, 3} :
          d # c => (Updates(d, m, j)' <=> Updates(d, m, j))
  BY <1>4, <1>6 DEF Updates
<1>18. \A d \in Calls, j \in {2, 3} : d # c => ~Updates(d, n, j)
  BY <1>7 DEF Updates
<1>19. \A m \in Nodes, j \in {2, 3} : m # n => ~Updates(c, m, j) /\ ~Updates(c, m, j)'
  BY <1>1, <1>4, <1>6, <1>12 DEF Updates
<1>20. \A m \in Nodes : m # n => SumOK(m)' /\ CountOK(m)'
  <2> SUFFICES ASSUME NEW m \in Nodes, m # n PROVE SumOK(m)' /\ CountOK(m)'
    OBVIOUS
  <2>1. SumOK(m) /\ CountOK(m) /\ node'[m] = node[m]
    BY <1>3 DEF StatsInv
  <2>2. \A d \in Calls, j \in {2, 3} : Updates(d, m, j)' <=> Updates(d, m, j)
    BY <1>17, <1>19
  <2> QED
    BY <2>1, <2>2, <1>2 DEF SumOK, CountOK
<1>21. SumOK(n)'
  BY <1>2, <1>8, <1>9, <1>10, <1>11, <1>12, <1>13 DEF SumOK
<1>22. CountOK(n)'
  <2>1. \A d \in Calls, j \in {2, 3} : Updates(d, n, j)' => d = c /\ up /\ k # 3 /\ j = k + 1
    BY <1>1, <1>4, <1>12, <1>17, <1>18 DEF Updates
  <2>2. up /\ k # 3 => Updates(c, n, k + 1)'
    BY <1>1, <1>4, <1>6, <1>12 DEF Updates
  <2>3. \A d \in Calls : Updates(d, n, 3) => up /\ k = 3
    BY <1>12, <1>18 DEF Updates
  <2>4. up /\ k = 2 => Updates(c, n, 2)
    BY <1>12 DEF Updates
  <2>5. /\ s.current <= s.total /\ s.peak <= s.total /\ s.current <= s.peak + 1
        /\ s.current <= s.peak \/ (up /\ k = 3)
        /\ up /\ k = 2 => s.current < s.total
    BY <1>11, <1>12, <2>3, <2>4 DEF CountOK
  <2>6. /\ t.current <= t.total /\ t.peak <= t.total /\ t.current <= t.peak + 1
        /\ t.current <= t.peak \/ (up /\ k = 2)
        /\ up /\ k = 1 => t.current < t.total
    <3>1. CASE up /\ k = 1
      BY <3>1, <2>5, <1>9, <1>10
    <3>2. CASE up /\ k = 2
      BY <3>2, <2>5, <1>9, <1>10
    <3>3. CASE up /\ k = 3
      BY <3>3, <2>5, <1>9, <1>10
    <3>4. CASE ~up
      BY <3>4, <2>5, <1>9, <1>10
    <3> QED
      BY <3>1, <3>2, <3>3, <3>4, <1>13
  <2>7. up /\ k = 2 => \E d \in Calls : Updates(d, n, 3)'
    BY <2>2
  <2>8. \A d \in Calls : Updates(d, n, 2)' => up /\ k = 1
    BY <2>1, <1>13
  <2> QED
    BY <2>6, <2>7, <2>8, <1>12 DEF CountOK
<1>23. ViewOK'
  <2>1. s.total <= t.total /\ s.peak <= t.peak
    BY <1>9, <1>10, <1>13
  <2>2. \A m \in Nodes : node[m].total <= node'[m].total /\ node[m].peak <= node'[m].peak
    <3> SUFFICES ASSUME NEW m \in Nodes, m # n
                 PROVE  node[m].total <= node'[m].total /\ node[m].peak <= node'[m].peak
      BY <2>1, <1>12
    <3>1. node'[m] = node[m] /\ node[m] \in Entry
      BY <1>3 DEF StatsInv, ShapeOK
    <3>2. node[m].total \in Int /\ node[m].peak \in Int
      BY <3>1 DEF Entry
    <3> QED
      BY <3>1, <3>2
  <2> QED
    BY <2>2, <1>2, <1>3, CopyFrame
<1> QED
  BY <1>14, <1>15, <1>16, <1>20, <1>21, <1>22, <1>23 DEF StatsInv

-------------------------------------------------------------------------------
\* Steps of the main thread, which leave the calls and the counts of the nodes.
LEMMA MainFrame ==
    ASSUME StatsInv, ShapeOK', PeriodOK', UNCHANGED <<call, view>>, listed \subseteq listed',
           \A r \in listed : stats'[r] = stats[r],
           \A c \in Calls, n \in Nodes : mutex[n] = c => mutex'[n] = c,
           \A n \in Nodes : /\ node'[n].total = node[n].total /\ node'[n].peak = node[n].peak
                            /\ node'[n].current = node[n].current /\ SumOK(n)'
    PROVE  StatsInv'
<1>1. \A c \in Calls : call[c].step # 0 => NodeOf(c)' = NodeOf(c)
  BY DEF StatsInv, WorkerOK, NodeOf
<1>2. \A c \in Calls : WorkerOK(c)'
  BY <1>1 DEF StatsInv, WorkerOK
<1>3. \A c \in Calls : \A n, k : k \in {2, 3} => (Updates(c, n, k)' <=> Updates(c, n, k))
  BY <1>1 DEF Updates
<1>4. \A n \in Nodes : CountOK(n)'
  BY <1>3 DEF StatsInv, CountOK
<1>5. ViewOK'
  <2>1. \A n \in Nodes : node[n].total <= node'[n].total /\ node[n].peak <= node'[n].peak
    <3> SUFFICES ASSUME NEW n \in Nodes
                 PROVE  node[n].total <= node'[n].total /\ node[n].peak <= node'[n].peak
      OBVIOUS
    <3>1. node[n] \in Entry
      BY DEF StatsInv, ShapeOK
    <3>2. node[n].total \in Int /\ node[n].peak \in Int
      BY <3>1 DEF Entry
    <3> QED
      BY <3>2
  <2> QED
    BY <2>1, CopyFrame DEF ShapeOK
<1> QED
  BY <1>2, <1>4, <1>5 DEF StatsInv

\* A node is given a type.
LEMMA TypeSet ==
    ASSUME StatsInv, NEW n \in Nodes, NEW k \in {"SYSTEM", "REGISTRY"},
           node' = [node EXCEPT ![n].type = k]
    PROVE  /\ node' \in [Nodes -> Entry]
           /\ \A m \in Nodes : /\ node'[m].total = node[m].total /\ node'[m].peak = node[m].peak
                               /\ node'[m].current = node[m].current
                               /\ node'[m].period = node[m].period
<1>1. node[n] \in Entry /\ node \in [Nodes -> Entry]
  BY DEF StatsInv, ShapeOK
<1>2. [node[n] EXCEPT !.type = k] \in Entry
  BY <1>1 DEF Entry
<1>3. node'[n] = [node[n] EXCEPT !.type = k] /\ \A m \in Nodes : m # n => node'[m] = node[m]
  BY <1>1
<1>4. /\ node'[n].total = node[n].total /\ node'[n].peak = node[n].peak
      /\ node'[n].current = node[n].current /\ node'[n].period = node[n].period
  BY <1>1, <1>3 DEF Entry
<1> QED
  BY <1>1, <1>2, <1>3, <1>4

LEMMA CreateInv ==
    ASSUME StatsInv, Create
    PROVE  StatsInv'
<1>1. /\ node' \in [Nodes -> Entry]
      /\ \A m \in Nodes : /\ node'[m].total = node[m].total /\ node'[m].peak = node[m].peak
                          /\ node'[m].current = node[m].current
                          /\ node'[m].period = node[m].period
  BY NodesFacts, TypeSet DEF Create
<1>2. /\ main.step = 0 /\ main'.step = 0
      /\ main' \in [pc : {"create", "start", "serve", "period"}, pos : 0 .. Tables + 1, step : 0 .. 1]
  BY DEF Create, StatsInv, ShapeOK, PeriodOK
<1>3. ShapeOK'
  BY <1>1, <1>2, NodesFacts DEF Create, StatsInv, ShapeOK
<1>4. PeriodOK'
  BY <1>2 DEF PeriodOK
<1>5. \A n \in Nodes : SumOK(n)'
  BY <1>1, <1>2 DEF StatsInv, SumOK, Create
<1> QED
  BY <1>1, <1>3, <1>4, <1>5, MainFrame DEF Create

LEMMA RegisterInv ==
    ASSUME StatsInv, NEW r \in Registries, Register(r)
    PROVE  StatsInv'
<1>1. /\ UNCHANGED <<count, mutex, call, main, reported, view>> /\ main.step = 0
      /\ r \notin listed /\ listed' = listed \cup {r}
      /\ stats \in [Registries -> Nodes \cup {NoNode}] /\ listed \subseteq Registries
      /\ count \in 0 .. Tables + 1 /\ used \in 0 .. Tables + 1
  BY DEF Register, StatsInv, ShapeOK, PeriodOK
<1>2. CASE count = 0 \/ used >= count
  <2>1. UNCHANGED <<used, node>> /\ stats' = [stats EXCEPT ![r] = NoNode]
    BY <1>2 DEF Register, GetRegistry
  <2>2. ShapeOK'
    BY <1>1, <2>1 DEF StatsInv, ShapeOK
  <2>3. PeriodOK'
    BY <1>1 DEF PeriodOK
  <2>4. \A n \in Nodes : SumOK(n)'
    BY <1>1, <2>1 DEF StatsInv, SumOK
  <2> QED
    BY <1>1, <2>1, <2>2, <2>3, <2>4, MainFrame
<1>3. CASE ~(count = 0 \/ used >= count)
  <2>1. /\ used' = used + 1 /\ node' = [node EXCEPT ![used].type = "REGISTRY"]
        /\ stats' = [stats EXCEPT ![r] = used]
    BY <1>3 DEF Register, GetRegistry
  <2>2. used \in Nodes /\ used + 1 \in 0 .. Tables + 1
    BY <1>1, <1>3, NodesFacts
  <2>3. /\ node' \in [Nodes -> Entry]
        /\ \A m \in Nodes : /\ node'[m].total = node[m].total /\ node'[m].peak = node[m].peak
                            /\ node'[m].current = node[m].current
                            /\ node'[m].period = node[m].period
    BY <2>1, <2>2, TypeSet
  <2>4. ShapeOK'
    BY <1>1, <2>1, <2>2, <2>3 DEF StatsInv, ShapeOK
  <2>5. PeriodOK'
    BY <1>1 DEF PeriodOK
  <2>6. \A n \in Nodes : SumOK(n)'
    BY <1>1, <2>3 DEF StatsInv, SumOK
  <2> QED
    BY <1>1, <2>1, <2>3, <2>4, <2>5, <2>6, MainFrame
<1> QED
  BY <1>2, <1>3

LEMMA MainMove ==
    ASSUME NEW y \in [pc : {"create", "start", "serve", "period"}, pos : 0 .. Tables + 1, step : 0 .. 1],
           NEW m \in 0 .. Tables + 1, NEW j \in 0 .. 1
    PROVE  /\ [y EXCEPT !.pos = m, !.step = j] \in
                 [pc : {"create", "start", "serve", "period"}, pos : 0 .. Tables + 1, step : 0 .. 1]
           /\ [y EXCEPT !.pos = m, !.step = j].step = j
OBVIOUS

LEMMA PeriodMoves ==
    ASSUME StatsInv, Serve \/ BeginPeriod \/ EndPeriod
    PROVE  StatsInv'
<1>1. /\ UNCHANGED <<table, nodes, call, reported, view>>
      /\ main'.step = 0
      /\ main' \in [pc : {"create", "start", "serve", "period"}, pos : 0 .. Tables + 1, step : 0 .. 1]
  <2>1. /\ count \in 0 .. Tables + 1
        /\ main \in [pc : {"create", "start", "serve", "period"}, pos : 0 .. Tables + 1, step : 0 .. 1]
    BY DEF StatsInv, ShapeOK
  <2>2. CASE EndPeriod
    <3>1. main.step = 0
      BY <2>1, <2>2, NodesFacts DEF EndPeriod, StatsInv, PeriodOK
    <3>2. 0 \in 0 .. Tables + 1
      BY NodesFacts
    <3> QED
      <4>1. /\ main' = [main EXCEPT !.pc = "serve", !.pos = 0]
            /\ UNCHANGED <<table, nodes, call, reported, view>>
        BY <2>2 DEF EndPeriod
      <4>2. PICK y \in [pc : {"create", "start", "serve", "period"}, pos : 0 .. Tables + 1,
                        step : 0 .. 1] : y = [main EXCEPT !.pc = "serve"] /\ y.step = 0
        <5>1. [main EXCEPT !.pc = "serve"] \in
                 [pc : {"create", "start", "serve", "period"}, pos : 0 .. Tables + 1, step : 0 .. 1]
          BY <2>1
        <5>2. [main EXCEPT !.pc = "serve"].step = 0
          BY <2>1, <3>1
        <5> QED
          BY <5>1, <5>2, Zenon
      <4>3. main' = [y EXCEPT !.pos = 0]
        BY <4>1, <4>2
      <4> QED
        BY <3>2, <4>1, <4>2, <4>3
  <2>3. CASE Serve
    BY <2>1, <2>3 DEF Serve, StatsInv, PeriodOK
  <2>4. CASE BeginPeriod
    BY <2>4, NodesFacts DEF BeginPeriod
  <2> QED
    BY <2>2, <2>3, <2>4
<1>2. main.step = 0
  <2>1. main.step \in 0 .. 1 /\ main.pos \in Int /\ count \in Int
    BY NodesFacts DEF StatsInv, ShapeOK
  <2>2. main.step = 1 => main.pc = "period" /\ main.pos < count
    BY DEF StatsInv, PeriodOK
  <2> QED
    BY <2>1, <2>2 DEF Serve, BeginPeriod, EndPeriod
<1>3. ShapeOK'
  BY <1>1 DEF StatsInv, ShapeOK, table, nodes
<1>4. PeriodOK'
  BY <1>1 DEF PeriodOK
<1>5. \A n \in Nodes : SumOK(n)'
  BY <1>1, <1>2 DEF StatsInv, SumOK, nodes
<1> QED
  BY <1>1, <1>3, <1>4, <1>5, MainFrame DEF table, nodes

LEMMA PeriodEntry ==
    ASSUME NEW s \in Entry, NEW x,
           \/ x = [s EXCEPT !.pperiod = s.period, !.pmax = s.max, !.pmin = s.min]
           \/ x = [s EXCEPT !.max = s.current, !.min = s.current, !.period = 0]
    PROVE  x \in Entry
<1>1. /\ s.period \in Int /\ s.max \in Int /\ s.min \in Int /\ s.current \in Int /\ 0 \in Int
  BY DEF Entry
<1>2. ASSUME NEW a \in Int, NEW b \in Int, NEW d \in Int
      PROVE  /\ [s EXCEPT !.pperiod = a, !.pmax = b, !.pmin = d] \in Entry
             /\ [s EXCEPT !.max = a, !.min = b, !.period = d] \in Entry
  BY DEF Entry
<1>3. CASE x = [s EXCEPT !.pperiod = s.period, !.pmax = s.max, !.pmin = s.min]
  <2>1. PICK a \in Int, b \in Int, d \in Int : x = [s EXCEPT !.pperiod = a, !.pmax = b, !.pmin = d]
    BY <1>1, <1>3
  <2> QED
    BY <1>2, <2>1
<1>4. CASE x = [s EXCEPT !.max = s.current, !.min = s.current, !.period = 0]
  <2>1. PICK a \in Int, b \in Int, d \in Int : x = [s EXCEPT !.max = a, !.min = b, !.period = d]
    BY <1>1, <1>4
  <2> QED
    BY <1>2, <2>1
<1> QED
  BY <1>3, <1>4

\* The running period is reported, and then begins anew.
LEMMA PeriodNodeInv ==
    ASSUME StatsInv, PeriodNode
    PROVE  StatsInv'
<1>0. PICK n \in Nodes : n = main.pos
  BY NodesFacts DEF PeriodNode, StatsInv, ShapeOK
<1>1. /\ UNCHANGED <<table, call, view>> /\ main.pc = "period" /\ main.step = 0
      /\ main \in [pc : {"create", "start", "serve", "period"}, pos : 0 .. Tables + 1, step : 0 .. 1]
      /\ node[n] \in Entry /\ n < Tables + 1
  BY <1>0, NodesFacts DEF PeriodNode, StatsInv, ShapeOK
<1>2. CASE node[n].type = "UNUSED"
  <2>1. UNCHANGED <<nodes, reported>> /\ main' = [main EXCEPT !.pos = n + 1]
    BY <1>0, <1>2 DEF PeriodNode
  <2>2. n + 1 \in 0 .. Tables + 1
    BY NodesFacts
  <2>3. /\ main'.step = 0
        /\ main' \in [pc : {"create", "start", "serve", "period"}, pos : 0 .. Tables + 1, step : 0 .. 1]
    BY <1>1, <2>1, <2>2
  <2>4. ShapeOK'
    BY <1>1, <2>1, <2>3 DEF StatsInv, ShapeOK, table, nodes
  <2>5. PeriodOK'
    BY <2>3 DEF PeriodOK
  <2>6. \A m \in Nodes : SumOK(m)'
    BY <1>1, <2>1, <2>3 DEF StatsInv, SumOK, nodes
  <2> QED
    BY <1>1, <2>1, <2>4, <2>5, <2>6, MainFrame DEF table, nodes
<1>3. CASE node[n].type # "UNUSED"
  <2>1. /\ mutex[n] = Nobody /\ mutex' = [mutex EXCEPT ![n] = Main]
        /\ node' = [node EXCEPT ![n].pperiod = node[n].period,
                                ![n].pmax = node[n].max, ![n].pmin = node[n].min]
        /\ reported' = [reported EXCEPT ![n] = @ + node[n].period]
        /\ main' = [main EXCEPT !.step = 1]
    BY <1>0, <1>3 DEF PeriodNode, PeriodProtect
  <2>2. node[n].period \in Int /\ node[n].max \in Int /\ node[n].min \in Int /\ node[n].total \in Int
    BY <1>1 DEF Entry
  <2>3. ASSUME NEW a \in Int, NEW b \in Int, NEW d \in Int
        PROVE  [node[n] EXCEPT !.pperiod = a, !.pmax = b, !.pmin = d] \in Entry
    BY <1>1 DEF Entry
  <2>4. /\ node'[n] = [node[n] EXCEPT !.pperiod = node[n].period, !.pmax = node[n].max,
                                      !.pmin = node[n].min]
        /\ \A m \in Nodes : m # n => node'[m] = node[m]
    BY <2>1 DEF StatsInv, ShapeOK
  <2>5. node'[n] \in Entry
    BY <1>1, <2>4, PeriodEntry
  <2>6. node' \in [Nodes -> Entry]
    BY <2>1, <2>4, <2>5 DEF StatsInv, ShapeOK
  <2>7. /\ node'[n].total = node[n].total /\ node'[n].peak = node[n].peak
        /\ node'[n].current = node[n].current /\ node'[n].period = node[n].period
    BY <1>1, <2>4 DEF Entry
  <2>8. /\ main'.step = 1 /\ main'.pos = n /\ main'.pc = "period"
        /\ main' \in [pc : {"create", "start", "serve", "period"}, pos : 0 .. Tables + 1, step : 0 .. 1]
    BY <1>0, <1>1, <2>1
  <2>9. /\ mutex'[n] = Main /\ mutex' \in [Nodes -> Calls \cup {Main, Nobody}]
        /\ \A m \in Nodes : m # n => mutex'[m] = mutex[m]
    BY <2>1 DEF StatsInv, ShapeOK
  <2>10. /\ reported' \in [Nodes -> Int] /\ reported'[n] = reported[n] + node[n].period
         /\ \A m \in Nodes : m # n => reported'[m] = reported[m]
    BY <2>1, <2>2 DEF StatsInv, ShapeOK
  <2>11. ShapeOK'
    BY <1>1, <2>6, <2>8, <2>9, <2>10 DEF StatsInv, ShapeOK, table
  <2>12. PeriodOK'
    BY <1>0, <1>1, <2>8, <2>9 DEF PeriodOK, PeriodNode, table
  <2>13. ASSUME NEW m \in Nodes PROVE SumOK(m)'
    <3>1. SumOK(m)
      BY DEF StatsInv
    <3>2. CASE m = n
      BY <3>1, <3>2, <1>1, <2>2, <2>7, <2>8, <2>10 DEF SumOK, StatsInv, ShapeOK
    <3>3. CASE m # n
      BY <3>1, <3>3, <1>1, <2>4, <2>8, <2>10 DEF SumOK
    <3> QED
      BY <3>2, <3>3
  <2>14. \A m \in Nodes : /\ node'[m].total = node[m].total /\ node'[m].peak = node[m].peak
                          /\ node'[m].current = node[m].current
    BY <2>4, <2>7
  <2>15. \A c \in Calls, m \in Nodes : mutex[m] = c => mutex'[m] = c
    BY <2>1, <2>9, NamesDistinct
  <2> QED
    BY <1>1, <2>11, <2>12, <2>13, <2>14, <2>15, MainFrame DEF table
<1> QED
  BY <1>2, <1>3

LEMMA PeriodResetInv ==
    ASSUME StatsInv, PeriodReset
    PROVE  StatsInv'
<1>0. PICK n \in Nodes : n = main.pos
  BY DEF PeriodReset, StatsInv, PeriodOK
<1>1. /\ UNCHANGED <<table, call, reported, view>> /\ main.step = 1 /\ mutex[n] = Main
      /\ main \in [pc : {"create", "start", "serve", "period"}, pos : 0 .. Tables + 1, step : 0 .. 1]
      /\ node[n] \in Entry /\ reported[n] \in Int
  BY <1>0 DEF PeriodReset, StatsInv, ShapeOK, PeriodOK
<1>2. /\ mutex' = [mutex EXCEPT ![n] = Nobody]
      /\ node' = [node EXCEPT ![n].max = node[n].current, ![n].min = node[n].current,
                              ![n].period = 0]
      /\ main' = [main EXCEPT !.pos = n + 1, !.step = 0]
  BY <1>0 DEF PeriodReset
<1>3. node[n].current \in Int /\ node[n].total \in Int /\ n + 1 \in 0 .. Tables + 1 /\ 0 \in Int
  <2>1. node[n].current \in Int /\ node[n].total \in Int
    BY <1>1 DEF Entry
  <2>2. n + 1 \in 0 .. Tables + 1
    BY NodesFacts
  <2> QED
    BY <2>1, <2>2
<1>4. ASSUME NEW a \in Int, NEW b \in Int, NEW d \in Int
      PROVE  [node[n] EXCEPT !.max = a, !.min = b, !.period = d] \in Entry
  BY <1>1 DEF Entry
<1>5. /\ node'[n] = [node[n] EXCEPT !.max = node[n].current, !.min = node[n].current, !.period = 0]
      /\ \A m \in Nodes : m # n => node'[m] = node[m]
  BY <1>2 DEF StatsInv, ShapeOK
<1>6. node'[n] \in Entry
  BY <1>1, <1>5, PeriodEntry
<1>7. node' \in [Nodes -> Entry]
  BY <1>2, <1>5, <1>6 DEF StatsInv, ShapeOK
<1>8. /\ node'[n].total = node[n].total /\ node'[n].peak = node[n].peak
      /\ node'[n].current = node[n].current /\ node'[n].period = 0
  BY <1>1, <1>5 DEF Entry
<1>9. /\ main'.step = 0
      /\ main' \in [pc : {"create", "start", "serve", "period"}, pos : 0 .. Tables + 1, step : 0 .. 1]
  <2>1. 0 \in 0 .. 1
    OBVIOUS
  <2> QED
    BY <1>1, <1>2, <1>3, <2>1, MainMove
<1>10. /\ mutex' \in [Nodes -> Calls \cup {Main, Nobody}]
       /\ \A m \in Nodes : m # n => mutex'[m] = mutex[m]
  BY <1>2 DEF StatsInv, ShapeOK
<1>11. ShapeOK'
  BY <1>1, <1>7, <1>9, <1>10 DEF StatsInv, ShapeOK, table
<1>12. PeriodOK'
  BY <1>9 DEF PeriodOK
<1>13. ASSUME NEW m \in Nodes PROVE SumOK(m)'
  <2>1. SumOK(m)
    BY DEF StatsInv
  <2>2. CASE m = n
    BY <2>1, <2>2, <1>0, <1>1, <1>3, <1>8, <1>9 DEF SumOK
  <2>3. CASE m # n
    BY <2>1, <2>3, <1>0, <1>1, <1>5, <1>9 DEF SumOK
  <2> QED
    BY <2>2, <2>3
<1>14. \A m \in Nodes : /\ node'[m].total = node[m].total /\ node'[m].peak = node[m].peak
                        /\ node'[m].current = node[m].current
  BY <1>5, <1>8
<1>15. \A c \in Calls, m \in Nodes : mutex[m] = c => mutex'[m] = c
  BY <1>1, <1>10, NamesDistinct
<1> QED
  BY <1>1, <1>11, <1>12, <1>13, <1>14, <1>15, MainFrame DEF table

-------------------------------------------------------------------------------
Views == [pc : {"idle", "node", "total", "current", "peak", "sametotal", "samecurrent",
                "samepeak", "print", "exit"},
          index : Nat, buffer : [total : Int, current : Int, peak : Int]]

\* Steps of baycontrol change nothing but its own state.
LEMMA ViewFrame ==
    ASSUME StatsInv, NEW v \in Views, Sees(v), ViewOK'
    PROVE  StatsInv'
<1> USE DEF Sees, table, nodes
<1>1. ShapeOK'
  BY DEF StatsInv, ShapeOK, Views
<1>2. \A c \in Calls : WorkerOK(c)' /\ \A n, k : Updates(c, n, k)' <=> Updates(c, n, k)
  BY DEF StatsInv, WorkerOK, Updates, NodeOf
<1>3. PeriodOK' /\ \A n \in Nodes : SumOK(n)' /\ CountOK(n)'
  BY <1>2 DEF StatsInv, PeriodOK, SumOK, CountOK
<1> QED
  BY <1>1, <1>2, <1>3 DEF StatsInv

LEMMA ViewType ==
    ASSUME StatsInv
    PROVE  /\ view \in Views /\ count \in 0 .. Tables + 1 /\ Tables \in Nat
           /\ \A n \in Nodes : /\ node[n].total \in Int /\ node[n].current \in Int
                               /\ node[n].peak \in Int
           /\ view.buffer.total \in Int /\ view.buffer.current \in Int /\ view.buffer.peak \in Int
<1>1. view \in Views /\ count \in 0 .. Tables + 1 /\ node \in [Nodes -> Entry] /\ Tables \in Nat
  BY NodesFacts DEF StatsInv, ShapeOK, Views
<1>2. \A n \in Nodes : node[n] \in Entry
  BY <1>1
<1>3. \A n \in Nodes : node[n].total \in Int /\ node[n].current \in Int /\ node[n].peak \in Int
  BY <1>2 DEF Entry
<1>4. view.buffer \in [total : Int, current : Int, peak : Int]
  BY <1>1 DEF Views
<1> QED
  BY <1>1, <1>3, <1>4

\* A step that only goes on.
LEMMA ViewGoes ==
    ASSUME StatsInv, NEW p \in {"node", "total", "exit", "samecurrent", "samepeak", "print"},
           Sees([view EXCEPT !.pc = p]),
           p \notin {"node", "exit"} => view.index \in Nodes,
           p \in {"samecurrent", "samepeak", "print"} =>
              LET b == view.buffer
              IN  b.current <= b.peak + 1 /\ b.current <= b.total /\ b.peak <= b.total
    PROVE  StatsInv'
<1> DEFINE v == [view EXCEPT !.pc = p]
<1>1. v \in Views /\ v.pc = p /\ v.index = view.index /\ v.buffer = view.buffer
  BY ViewType DEF Views
<1>2. view' = v
  BY DEF Sees
<1> HIDE DEF v
<1>3. ViewOK'
  BY <1>1, <1>2 DEF ViewOK, CopyOK
<1> QED
  BY <1>1, <1>3, ViewFrame DEF v

LEMMA OpenInv ==
    ASSUME StatsInv, OpenView \/ NextNode
    PROVE  StatsInv'
<1>1. CASE OpenView
  BY <1>1, ViewGoes DEF OpenView
<1>2. CASE NextNode
  <2>1. view.index \in Nat /\ (view.index < count => view.index \in Nodes)
    BY ViewType, NodesFacts DEF Views
  <2>2. CASE view.index >= count \/ node[view.index].type = "UNUSED"
    BY <1>2, <2>2, ViewGoes DEF NextNode
  <2>3. CASE ~(view.index >= count \/ node[view.index].type = "UNUSED")
    <3>1. view.index \in Nodes
      BY <2>1, <2>3, ViewType
    <3> QED
      BY <1>2, <2>3, <3>1, ViewGoes DEF NextNode
  <2> QED
    BY <2>2, <2>3
<1> QED
  BY <1>1, <1>2

LEMMA CopyInv ==
    ASSUME StatsInv, Copy
    PROVE  StatsInv'
<1> DEFINE s == node[view.index]
           b == view.buffer
<1>1. view.index \in Nodes /\ view.pc \in {"total", "current", "peak"} /\ CopyOK(b, s)
  BY DEF Copy, StatsInv, ViewOK
<1>2. /\ view \in Views /\ s.total \in Int /\ s.current \in Int /\ s.peak \in Int
      /\ b.total \in Int /\ b.current \in Int /\ b.peak \in Int
      /\ b \in [total : Int, current : Int, peak : Int]
  BY <1>1, ViewType DEF Views
<1>3. s.current <= s.total /\ s.peak <= s.total /\ s.current <= s.peak + 1
  BY <1>1 DEF StatsInv, CountOK
<1>4. PICK v \in Views :
         /\ Sees(v) /\ v.index = view.index
         /\ \/ /\ view.pc = "total" /\ v.pc = "current"
               /\ v.buffer.total = s.total /\ v.buffer.current = b.current /\ v.buffer.peak = b.peak
            \/ /\ view.pc = "current" /\ v.pc = "peak"
               /\ v.buffer.total = b.total /\ v.buffer.current = s.current /\ v.buffer.peak = b.peak
            \/ /\ view.pc = "peak" /\ v.pc = "sametotal"
               /\ v.buffer.total = b.total /\ v.buffer.current = b.current /\ v.buffer.peak = s.peak
  <2>1. CASE view.pc = "total"
    <3> DEFINE v == [view EXCEPT !.pc = "current", !.buffer.total = s.total]
    <3>1. v \in Views
      BY <1>2 DEF Views
    <3>2. /\ v.index = view.index /\ v.pc = "current"
          /\ v.buffer.total = s.total /\ v.buffer.current = b.current /\ v.buffer.peak = b.peak
      BY <1>2 DEF Views
    <3>3. Sees(v)
      BY <2>1 DEF Copy
    <3> QED
      BY <2>1, <3>1, <3>2, <3>3
  <2>2. CASE view.pc = "current"
    <3> DEFINE v == [view EXCEPT !.pc = "peak", !.buffer.current = s.current]
    <3>1. v \in Views
      BY <1>2 DEF Views
    <3>2. /\ v.index = view.index /\ v.pc = "peak"
          /\ v.buffer.total = b.total /\ v.buffer.current = s.current /\ v.buffer.peak = b.peak
      BY <1>2 DEF Views
    <3>3. Sees(v)
      BY <2>2 DEF Copy
    <3> QED
      BY <2>2, <3>1, <3>2, <3>3
  <2>3. CASE view.pc = "peak"
    <3> DEFINE v == [view EXCEPT !.pc = "sametotal", !.buffer.peak = s.peak]
    <3>1. v \in Views
      BY <1>2 DEF Views
    <3>2. /\ v.index = view.index /\ v.pc = "sametotal"
          /\ v.buffer.total = b.total /\ v.buffer.current = b.current /\ v.buffer.peak = s.peak
      BY <1>2 DEF Views
    <3>3. Sees(v)
      BY <2>3 DEF Copy
    <3> QED
      BY <2>3, <3>1, <3>2, <3>3
  <2> QED
    BY <1>1, <2>1, <2>2, <2>3
<1>5. view' = v /\ node' = node
  BY <1>4 DEF Sees, nodes
<1>6. ViewOK'
  <2>1. CASE view.pc = "total"
    BY <2>1, <1>1, <1>2, <1>4, <1>5 DEF ViewOK, CopyOK
  <2>2. CASE view.pc = "current"
    BY <2>2, <1>1, <1>2, <1>3, <1>4, <1>5 DEF ViewOK, CopyOK
  <2>3. CASE view.pc = "peak"
    BY <2>3, <1>1, <1>2, <1>3, <1>4, <1>5 DEF ViewOK, CopyOK
  <2> QED
    BY <1>1, <2>1, <2>2, <2>3
<1> QED
  BY <1>4, <1>6, ViewFrame

LEMMA CompareInv ==
    ASSUME StatsInv, Compare
    PROVE  StatsInv'
<1> DEFINE s == node[view.index]
           b == view.buffer
<1>1. /\ view.index \in Nodes /\ view.pc \in {"sametotal", "samecurrent", "samepeak"}
      /\ CopyOK(b, s)
  BY DEF Compare, StatsInv, ViewOK
<1>2. PICK p \in {"total", "samecurrent", "samepeak", "print"} :
         /\ Sees([view EXCEPT !.pc = p])
         /\ view.pc = "sametotal" /\ p # "total" => s.total = b.total
  BY DEF Compare, Same
<1>3. p # "total" => b.current <= b.peak + 1 /\ b.current <= b.total /\ b.peak <= b.total
  BY <1>1, <1>2 DEF CopyOK
<1> QED
  BY <1>1, <1>2, <1>3, ViewGoes

LEMMA PrintInv ==
    ASSUME StatsInv, PrintNode
    PROVE  StatsInv'
<1> DEFINE v == [pc |-> "node", index |-> view.index + 1,
                 buffer |-> [total |-> 0, current |-> 0, peak |-> 0]]
<1>1. v \in Views /\ v.pc = "node"
  BY ViewType DEF Views
<1>2. Sees(v) /\ view' = v
  BY DEF PrintNode, Sees
<1> HIDE DEF v
<1>3. ViewOK'
  BY <1>1, <1>2 DEF ViewOK, CopyOK
<1> QED
  BY <1>1, <1>2, <1>3, ViewFrame

-------------------------------------------------------------------------------
LEMMA StatsStep == StatsInv /\ [Next]_vars => StatsInv'
<1> SUFFICES ASSUME StatsInv, [Next]_vars PROVE StatsInv'
  OBVIOUS
<1>1. ASSUME NEW c \in Calls, CallStep(c) PROVE StatsInv'
  BY <1>1, MoveInv, ProtectInv, WorkInv DEF CallStep
<1>2. CASE UNCHANGED vars
  BY <1>2 DEF vars, StatsInv, ShapeOK, WorkerOK, PeriodOK, SumOK, CountOK, Updates, NodeOf, ViewOK,
              CopyOK
<1> QED
  BY <1>1, <1>2, CreateInv, RegisterInv, InviteInv, PeriodMoves, PeriodNodeInv, PeriodResetInv,
     OpenInv, CopyInv, CompareInv, PrintInv DEF Next

LEMMA StatsInvHolds == Spec => []StatsInv
BY StatsInit, StatsStep, PTL DEF Spec

\* Each call that statmap::update counts is in exactly one period of its node,
\* however calls and statmap::period meet.
THEOREM PeriodsSafe == Spec => []CallsReportedOnce
<1>1. StatsInv => CallsReportedOnce
  BY NamesDistinct DEF StatsInv, PeriodOK, SumOK, CallsReportedOnce
<1> QED
  BY <1>1, StatsInvHolds, PTL

\* What baycontrol stats prints without the mutex of statmap::update could have
\* been true, but for the one call that is being counted.
THEOREM SnapshotSafe == Spec => []SnapshotConsistent
<1>1. StatsInv => SnapshotConsistent
  BY DEF StatsInv, ViewOK, CopyOK, SnapshotConsistent
<1> QED
  BY <1>1, StatsInvHolds, PTL

-------------------------------------------------------------------------------
(* The values of a node fit together. *)

Releases(c, n, k) == call[c].pc \in {"active", "detach"} /\ call[c].step = k /\ NodeOf(c) = n

\* A call at stage x is in the current count of node n.
InCurrent(x, n) ==
    IF n = 0 THEN (x.pc = "assign" /\ x.step = 3) \/ (x.pc = "active" /\ x.step # 3)
    ELSE /\ stats[x.reg] = n
         /\ \/ x.pc = "attach" /\ x.step = 3
            \/ x.pc \in {"assign", "active"}
            \/ x.pc = "detach" /\ x.step # 3

\* A call at stage x may be in the total of node n.
InTotal(x, n) ==
    IF n = 0 THEN (x.pc = "assign" /\ x.step > 1) \/ x.pc \in {"active", "detach", "ended"}
    ELSE /\ stats[x.reg] = n
         /\ \/ x.pc = "attach" /\ x.step > 1
            \/ x.pc \in {"assign", "active", "detach", "ended"}

Counted(n) == {c \in Calls : InCurrent(call[c], n)}
Entered(n) == {c \in Calls : InTotal(call[c], n)}

\* The values of an entry, u2 and u3 telling whether an update of it is before
\* its second or third step, r2 and r3 the same of a release.
Ordered(s, u2, u3, r2, r3) ==
    /\ 0 <= s.min /\ s.min <= s.max /\ s.max <= s.peak
    /\ 0 <= s.pmin /\ s.pmin <= s.pmax /\ s.pmax <= s.peak
    /\ 0 <= s.period /\ s.period <= s.total /\ 0 <= s.pperiod /\ s.pperiod <= s.total
    /\ s.min <= s.current \/ r3
    /\ s.current <= s.max \/ u3
    /\ s.total > 0 /\ s.current = 0 => s.lastcall \/ u2
    /\ r2 /\ s.current = 1 => s.lastcall

Updated(n, k) == \E c \in Calls : Updates(c, n, k)
Released(n, k) == \E c \in Calls : Releases(c, n, k)

NodeOK(n) ==
    /\ Ordered(node[n], Updated(n, 2), Updated(n, 3), Released(n, 2), Released(n, 3))
    /\ 0 <= reported[n]
    /\ node[n].current = Cardinality(Counted(n))
    /\ node[n].total <= Cardinality(Entered(n))

\* Node 0 is the system's, and every node that was given away has one owner.
TableOK ==
    /\ main.pc = "create" => listed = {}
    /\ main.pc # "create" => 0 < used
    /\ \A r \in Registries : stats[r] # NoNode => r \in listed /\ 0 < stats[r] /\ stats[r] < used
    /\ \A q, r \in Registries : stats[q] = stats[r] /\ stats[r] # NoNode => q = r

\* A call that was not refused finds the registration below its limit until
\* it is counted.
LimitOK(r) ==
    stats[r] # NoNode /\ Limit[r] # 0 =>
       /\ node[stats[r]].current <= Limit[r]
       /\ \A c \in Calls : call[c].pc = "attach" /\ call[c].reg = r /\ call[c].step \in {1, 2} =>
             node[stats[r]].current < Limit[r]

OrderInv == TableOK /\ (\A n \in Nodes : NodeOK(n)) /\ \A r \in Registries : LimitOK(r)

-------------------------------------------------------------------------------
LEMMA CountedNumbers ==
    /\ \A n : /\ IsFiniteSet(Counted(n)) /\ Cardinality(Counted(n)) \in Nat
              /\ IsFiniteSet(Entered(n)) /\ Cardinality(Entered(n)) \in Nat
              /\ Cardinality(Entered(n)) <= Cardinality(Calls)
    /\ Cardinality(Calls) \in Nat
<1>1. \A n : Counted(n) \in SUBSET Calls /\ Entered(n) \in SUBSET Calls
  BY DEF Counted, Entered
<1> QED
  BY <1>1, FS_Subset, FS_CardinalityType, CallsAreFinite

LEMMA OrderInit == Init => OrderInv
<1> SUFFICES ASSUME Init PROVE OrderInv
  OBVIOUS
<1>1. \A c \in Calls : call[c].pc = "idle"
  BY DEF Init
<1>2. \A n : Counted(n) = {} /\ Entered(n) = {}
  BY <1>1 DEF Counted, Entered, InCurrent, InTotal
<1>3. Cardinality({}) = 0
  BY FS_EmptySet
<1>4. ASSUME NEW n \in Nodes PROVE NodeOK(n)
  <2>1. node[n] = Unused /\ reported[n] = 0
    BY DEF Init
  <2>2. \A k : ~Released(n, k)
    BY <1>1 DEF Released, Releases
  <2>3. Ordered(node[n], Updated(n, 2), Updated(n, 3), Released(n, 2), Released(n, 3))
    BY <2>1, <2>2 DEF Ordered, Unused
  <2> QED
    BY <2>1, <2>3, <1>2, <1>3 DEF NodeOK, Unused
<1>5. TableOK
  BY DEF Init, TableOK
<1>6. \A r \in Registries : LimitOK(r)
  BY DEF Init, LimitOK
<1> QED
  BY <1>4, <1>5, <1>6 DEF OrderInv

\* All values of a node but its type.
Alike(s, t) ==
    /\ s.lastcall = t.lastcall /\ s.total = t.total /\ s.period = t.period
    /\ s.pperiod = t.pperiod /\ s.current = t.current /\ s.peak = t.peak
    /\ s.min = t.min /\ s.max = t.max /\ s.pmin = t.pmin /\ s.pmax = t.pmax

\* A node that a step leaves alone.
LEMMA NodeFrame ==
    ASSUME NEW n \in Nodes, NodeOK(n), StatsInv, Alike(node'[n], node[n]),
           reported'[n] = reported[n], Counted(n)' = Counted(n), Entered(n) \subseteq Entered(n)',
           \A c \in Calls, k \in {2, 3} : /\ Updates(c, n, k)' <=> Updates(c, n, k)
                                          /\ Releases(c, n, k)' <=> Releases(c, n, k)
    PROVE  NodeOK(n)'
<1>1. \A k \in {2, 3} : (Updated(n, k)' <=> Updated(n, k)) /\ (Released(n, k)' <=> Released(n, k))
  BY DEF Updated, Released
<1>2. Ordered(node[n], Updated(n, 2), Updated(n, 3), Released(n, 2), Released(n, 3))'
  BY <1>1 DEF NodeOK, Ordered, Alike
<1>3. Cardinality(Entered(n)) <= Cardinality(Entered(n)')
  <2>1. Entered(n)' \in SUBSET Calls
    BY DEF Entered
  <2> QED
    BY <2>1, CallsAreFinite, FS_Subset
<1>4. Cardinality(Entered(n)) \in Nat /\ Cardinality(Entered(n)') \in Nat /\ node[n].total \in Int
  <2>1. Entered(n)' \in SUBSET Calls
    BY DEF Entered
  <2>2. Cardinality(Entered(n)') \in Nat
    BY <2>1, FS_Subset, FS_CardinalityType, CallsAreFinite
  <2>3. node[n] \in Entry
    BY DEF StatsInv, ShapeOK
  <2> QED
    BY <2>2, <2>3, CountedNumbers DEF Entry
<1>5. node'[n].total <= Cardinality(Entered(n)')
  BY <1>3, <1>4 DEF NodeOK, Alike
<1> QED
  BY <1>2, <1>5 DEF NodeOK, Alike

\* A call that goes on, or protects a node, is in the same counts.
LEMMA CallOrder ==
    ASSUME StatsInv, OrderInv, NEW c \in Calls, NEW x \in Stages,
           call' = [call EXCEPT ![c] = x], call[c].step = 0, x.step \in {0, 1},
           UNCHANGED <<table, node, main, reported>>,
           \A n \in Nodes : /\ InCurrent(x, n) <=> InCurrent(call[c], n)
                            /\ InTotal(call[c], n) => InTotal(x, n),
           x.step = 1 /\ x.pc = "attach" /\ Limit[x.reg] # 0 =>
              node[stats[x.reg]].current < Limit[x.reg]
    PROVE  OrderInv'
<1> USE DEF table
<1>1. call'[c] = x /\ \A d \in Calls : d # c => call'[d] = call[d]
  BY DEF StatsInv, ShapeOK
<1>2. ASSUME NEW n \in Nodes PROVE NodeOK(n)'
  <2>1. \A y : (InCurrent(y, n)' <=> InCurrent(y, n)) /\ (InTotal(y, n)' <=> InTotal(y, n))
    BY DEF InCurrent, InTotal
  <2>2. Counted(n)' = Counted(n) /\ Entered(n) \subseteq Entered(n)'
    <3>1. \A d \in Calls : InCurrent(call'[d], n) <=> InCurrent(call[d], n)
      BY <1>1
    <3>2. \A d \in Calls : InTotal(call[d], n) => InTotal(call'[d], n)
      BY <1>1
    <3>3. Counted(n)' = {d \in Calls : InCurrent(call'[d], n)}
      BY DEF Counted, InCurrent
    <3>4. Entered(n)' = {d \in Calls : InTotal(call'[d], n)}
      BY DEF Entered, InTotal
    <3> QED
      BY <3>1, <3>2, <3>3, <3>4 DEF Counted, Entered
  <2>3. \A d \in Calls, k \in {2, 3} : /\ Updates(d, n, k)' <=> Updates(d, n, k)
                                       /\ Releases(d, n, k)' <=> Releases(d, n, k)
    BY <1>1 DEF Updates, Releases, NodeOf
  <2> QED
    BY <2>2, <2>3, NodeFrame DEF OrderInv, Alike
<1>3. TableOK'
  BY DEF OrderInv, TableOK
<1>4. ASSUME NEW r \in Registries PROVE LimitOK(r)'
  BY <1>1 DEF OrderInv, LimitOK
<1> QED
  BY <1>2, <1>3, <1>4 DEF OrderInv

\* Where a registration is the node's, the node is not the system's.
LEMMA NodeOfRegistry ==
    ASSUME StatsInv, OrderInv, NEW c \in Calls, call[c].pc # "idle"
    PROVE  /\ call[c].reg \in Registries /\ call[c] \in Stages
           /\ stats[call[c].reg] # NoNode => stats[call[c].reg] \in Nodes /\ stats[call[c].reg] # 0
<1>1. call[c].reg \in Registries /\ stats \in [Registries -> Nodes \cup {NoNode}] /\ call[c] \in Stages
  BY DEF StatsInv, ShapeOK, WorkerOK
<1> QED
  BY <1>1 DEF OrderInv, TableOK

LEMMA InviteOrder ==
    ASSUME StatsInv, OrderInv, NEW c \in Calls, NEW r \in Registries, Invite(c, r)
    PROVE  OrderInv'
<1> DEFINE x == [call[c] EXCEPT !.pc = "attach", !.reg = r]
<1>1. call[c].pc = "idle" /\ call[c].step = 0 /\ call[c] \in Stages
  BY DEF Invite, StatsInv, WorkerOK, ShapeOK
<1>2. x \in Stages /\ x.step = 0 /\ x.pc = "attach" /\ call' = [call EXCEPT ![c] = x]
  BY <1>1 DEF Invite, StatsInv, ShapeOK, Stages, Sources
<1> HIDE DEF x
<1>3. \A n \in Nodes : /\ InCurrent(x, n) <=> InCurrent(call[c], n)
                       /\ InTotal(call[c], n) => InTotal(x, n)
  BY <1>1, <1>2 DEF InCurrent, InTotal
<1>4. UNCHANGED <<table, node, main, reported>>
  BY DEF Invite, nodes
<1>5. x.step \in {0, 1} /\ x.step # 1
  BY <1>2
<1> QED
  BY <1>1, <1>2, <1>3, <1>4, <1>5, CallOrder, Zenon

LEMMA MoveOrder ==
    ASSUME StatsInv, OrderInv, NEW c \in Calls, Unmetered(c) \/ NoTimeslot(c)
    PROVE  OrderInv'
<1>1. PICK pc \in {"assign", "ended", "detach"} :
         /\ Goes(c, pc, 0)
         /\ \/ /\ call[c].pc \in {"attach", "detach"} /\ stats[call[c].reg] = NoNode
               /\ pc = IF call[c].pc = "attach" THEN "assign" ELSE "ended"
            \/ call[c].pc = "assign" /\ call[c].step = 0 /\ pc = "detach"
  BY DEF Unmetered, NoTimeslot, NodeOf
<1> DEFINE x == [call[c] EXCEPT !.pc = pc, !.step = 0]
<1>2. call[c].pc # "idle" /\ call[c].step = 0 /\ call[c] \in Stages /\ call \in [Calls -> Stages]
  <2>1. CASE Unmetered(c)
    BY <2>1, NodesFacts DEF Unmetered, StatsInv, WorkerOK, ShapeOK
  <2> QED
    BY <2>1 DEF NoTimeslot, StatsInv, ShapeOK
<1>3. x \in Stages /\ x.step = 0 /\ x.pc = pc /\ x.reg = call[c].reg /\ call' = [call EXCEPT ![c] = x]
  <2>1. 0 \in 0 .. 3 /\ pc \in {"idle", "attach", "assign", "active", "detach", "ended"}
    OBVIOUS
  <2>2. x \in Stages
    BY <1>2, <2>1, StageMove
  <2>3. x.step = 0 /\ x.pc = pc /\ x.reg = call[c].reg
    BY <1>2 DEF Stages
  <2> QED
    BY <1>1, <1>2, <2>2, <2>3 DEF Goes
<1> HIDE DEF x
<1>4. ASSUME NEW n \in Nodes
      PROVE  /\ InCurrent(x, n) <=> InCurrent(call[c], n)
             /\ InTotal(call[c], n) => InTotal(x, n)
  BY <1>1, <1>2, <1>3, NodesFacts DEF InCurrent, InTotal
<1>5. UNCHANGED <<table, node, main, reported>>
  BY DEF Unmetered, NoTimeslot, nodes
<1> QED
  BY <1>2, <1>3, <1>4, <1>5, CallOrder

LEMMA ProtectOrder ==
    ASSUME StatsInv, OrderInv, NEW c \in Calls, Protect(c)
    PROVE  OrderInv'
<1>1. /\ call[c].pc \in {"attach", "assign", "active", "detach"} /\ call[c].step = 0
      /\ NodeOf(c) # NoNode /\ UNCHANGED <<table, node, main, reported>>
      /\ call[c] \in Stages /\ call \in [Calls -> Stages]
  BY DEF Protect, StatsInv, ShapeOK
<1>2. CASE Refused(c)
  <2> DEFINE y == [call[c] EXCEPT !.pc = "ended", !.step = 0]
  <2>1. /\ y \in Stages /\ y.pc = "ended" /\ y.step = 0 /\ y.reg = call[c].reg
        /\ call' = [call EXCEPT ![c] = y] /\ call[c].pc = "attach"
    BY <1>1, <1>2 DEF Protect, Goes, Refused, Stages
  <2> HIDE DEF y
  <2>2. \A n \in Nodes : /\ InCurrent(y, n) <=> InCurrent(call[c], n)
                         /\ InTotal(call[c], n) => InTotal(y, n)
    BY <1>1, <2>1 DEF InCurrent, InTotal
  <2> QED
    BY <1>1, <2>1, <2>2, CallOrder
<1>3. CASE ~Refused(c)
  <2> DEFINE z == [call[c] EXCEPT !.step = 1]
  <2>1. /\ z \in Stages /\ z.step = 1 /\ z.reg = call[c].reg /\ z.pc = call[c].pc
        /\ call' = [call EXCEPT ![c] = z]
    BY <1>1, <1>3 DEF Protect, Goes, Stages
  <2> HIDE DEF z
  <2>2. \A n \in Nodes : /\ InCurrent(z, n) <=> InCurrent(call[c], n)
                         /\ InTotal(call[c], n) => InTotal(z, n)
    BY <1>1, <2>1 DEF InCurrent, InTotal
  <2>3. ASSUME z.pc = "attach", Limit[z.reg] # 0 PROVE node[stats[z.reg]].current < Limit[z.reg]
    <3>1. NodeOf(c) = stats[z.reg] /\ call[c].pc = "attach"
      BY <2>1, <2>3 DEF NodeOf
    <3>2. z.reg \in Registries /\ stats[z.reg] \in Nodes
      BY <1>1, <2>1, <3>1, NodeOfRegistry
    <3>3. ~(Limit[z.reg] <= node[stats[z.reg]].current)
      BY <1>3, <2>1, <2>3, <3>1 DEF Refused
    <3>4. Limit[z.reg] \in Int /\ node[stats[z.reg]] \in Entry
      BY <3>2, LimitsAreCounts DEF StatsInv, ShapeOK
    <3> QED
      BY <3>3, <3>4 DEF Entry
  <2> QED
    BY <1>1, <2>1, <2>2, <2>3, CallOrder
<1> QED
  BY <1>2, <1>3

-------------------------------------------------------------------------------
\* Steps of the other threads leave the calls where they are.
LEMMA SameCalls ==
    ASSUME StatsInv, UNCHANGED call, \A r \in listed : stats'[r] = stats[r]
    PROVE  /\ \A n : Counted(n)' = Counted(n) /\ Entered(n)' = Entered(n)
           /\ \A c \in Calls : \A n, k : k # 0 => /\ Updates(c, n, k)' <=> Updates(c, n, k)
                                                  /\ Releases(c, n, k)' <=> Releases(c, n, k)
<1>1. \A c \in Calls : call[c].pc # "idle" => stats'[call[c].reg] = stats[call[c].reg]
  BY DEF StatsInv, WorkerOK
<1>2. \A c \in Calls : \A n : /\ InCurrent(call[c], n)' <=> InCurrent(call[c], n)
                              /\ InTotal(call[c], n)' <=> InTotal(call[c], n)
  BY <1>1 DEF InCurrent, InTotal
<1>3. \A n : Counted(n)' = Counted(n) /\ Entered(n)' = Entered(n)
  BY <1>2 DEF Counted, Entered
<1>4. \A c \in Calls : call[c].pc # "idle" => NodeOf(c)' = NodeOf(c)
  BY <1>1 DEF NodeOf
<1>5. \A c \in Calls : \A n, k : k # 0 => /\ Updates(c, n, k)' <=> Updates(c, n, k)
                                          /\ Releases(c, n, k)' <=> Releases(c, n, k)
  BY <1>4 DEF Updates, Releases
<1> QED
  BY <1>3, <1>5

LEMMA MainOrder ==
    ASSUME StatsInv, OrderInv, TableOK', UNCHANGED <<call, reported>>,
           \A n \in Nodes : Alike(node'[n], node[n]),
           \A r \in listed : stats'[r] = stats[r],
           \A r \in Registries : stats'[r] # stats[r] =>
              r \notin listed /\ (stats'[r] # NoNode => node'[stats'[r]].current = 0)
    PROVE  OrderInv'
<1>1. ASSUME NEW n \in Nodes PROVE NodeOK(n)'
  <2>1. Counted(n)' = Counted(n) /\ Entered(n) \subseteq Entered(n)'
    BY SameCalls
  <2>2. \A c \in Calls, k \in {2, 3} : /\ Updates(c, n, k)' <=> Updates(c, n, k)
                                       /\ Releases(c, n, k)' <=> Releases(c, n, k)
    BY SameCalls
  <2> QED
    BY <2>1, <2>2, NodeFrame DEF OrderInv
<1>2. ASSUME NEW r \in Registries PROVE LimitOK(r)'
  <2>1. CASE stats'[r] = stats[r]
    <3>1. stats[r] \in Nodes \cup {NoNode}
      BY DEF StatsInv, ShapeOK
    <3> QED
      BY <2>1, <3>1 DEF LimitOK, OrderInv, Alike
  <2>2. CASE stats'[r] # stats[r]
    <3>1. \A c \in Calls : call[c].pc = "attach" => call[c].reg # r
      BY <2>2 DEF StatsInv, WorkerOK
    <3>2. Limit[r] \in Nat
      BY LimitsAreCounts
    <3> QED
      BY <2>2, <3>1, <3>2 DEF LimitOK
  <2> QED
    BY <2>1, <2>2
<1> QED
  BY <1>1, <1>2 DEF OrderInv

\* No call is counted in a node that has no owner.
LEMMA UnownedNode ==
    ASSUME StatsInv, OrderInv, NEW n \in Nodes, n >= used, 0 < used
    PROVE  node[n].current = 0
<1>1. ASSUME NEW c \in Calls, InCurrent(call[c], n) PROVE FALSE
  <2>1. n \in Int /\ used \in Int /\ n # 0 /\ NoNode # n
    BY NodesFacts DEF StatsInv, ShapeOK
  <2>2. call[c].pc # "idle" /\ stats[call[c].reg] = n
    BY <1>1, <2>1 DEF InCurrent
  <2>3. call[c].reg \in Registries
    BY <2>2, NodeOfRegistry
  <2> QED
    BY <2>1, <2>2, <2>3 DEF OrderInv, TableOK
<1>2. Counted(n) = {}
  BY <1>1 DEF Counted
<1> QED
  BY <1>2, FS_EmptySet DEF OrderInv, NodeOK

LEMMA TypeAlike ==
    ASSUME StatsInv, NEW n \in Nodes, NEW k, node' = [node EXCEPT ![n].type = k]
    PROVE  \A m \in Nodes : Alike(node'[m], node[m])
<1>1. node[n] \in Entry /\ node \in [Nodes -> Entry]
  BY DEF StatsInv, ShapeOK
<1>2. node'[n] = [node[n] EXCEPT !.type = k] /\ \A m \in Nodes : m # n => node'[m] = node[m]
  BY <1>1
<1>3. Alike(node'[n], node[n])
  BY <1>1, <1>2 DEF Entry, Alike
<1> QED
  BY <1>2, <1>3 DEF Alike

LEMMA CreateOrder ==
    ASSUME StatsInv, OrderInv, Create
    PROVE  OrderInv'
<1>1. \A m \in Nodes : Alike(node'[m], node[m])
  BY NodesFacts, TypeAlike DEF Create
<1>2. main.pc = "create" /\ main'.pc = "start" /\ used' = 1 /\ UNCHANGED <<stats, listed>>
  BY DEF Create, StatsInv, ShapeOK
<1>3. TableOK'
  BY <1>2 DEF OrderInv, TableOK
<1> QED
  BY <1>1, <1>2, <1>3, MainOrder DEF Create

LEMMA RegisterOrder ==
    ASSUME StatsInv, OrderInv, NEW r \in Registries, Register(r)
    PROVE  OrderInv'
<1>1. /\ UNCHANGED <<count, call, main, reported>> /\ main.pc = "start" /\ 0 < used
      /\ r \notin listed /\ listed' = listed \cup {r} /\ stats[r] = NoNode
      /\ stats \in [Registries -> Nodes \cup {NoNode}] /\ listed \subseteq Registries
      /\ count \in 0 .. Tables + 1 /\ used \in 0 .. Tables + 1 /\ used \in Nat
  BY NodesFacts DEF Register, StatsInv, ShapeOK, OrderInv, TableOK
<1>2. CASE count = 0 \/ used >= count
  <2>1. UNCHANGED <<used, node>> /\ stats' = [stats EXCEPT ![r] = NoNode]
    BY <1>2 DEF Register, GetRegistry
  <2>2. stats' = stats
    BY <1>1, <2>1
  <2>3. TableOK'
    BY <1>1, <2>1, <2>2 DEF OrderInv, TableOK
  <2> QED
    BY <1>1, <2>1, <2>2, <2>3, MainOrder DEF Alike
<1>3. CASE ~(count = 0 \/ used >= count)
  <2>1. /\ used' = used + 1 /\ node' = [node EXCEPT ![used].type = "REGISTRY"]
        /\ stats' = [stats EXCEPT ![r] = used]
    BY <1>3 DEF Register, GetRegistry
  <2>2. used \in Nodes /\ used # NoNode
    BY <1>1, <1>3, NodesFacts
  <2>3. \A m \in Nodes : Alike(node'[m], node[m])
    BY <2>1, <2>2, TypeAlike
  <2>4. stats'[r] = used /\ \A q \in Registries : q # r => stats'[q] = stats[q]
    BY <1>1, <2>1
  <2>5. \A q \in Registries : stats[q] # NoNode => stats[q] \in Nat /\ 0 < stats[q] /\ stats[q] < used
    BY <1>1, NodesFacts DEF OrderInv, TableOK
  <2>6. TableOK'
    <3>1. \A q \in Registries : stats'[q] # NoNode =>
             q \in listed' /\ 0 < stats'[q] /\ stats'[q] < used'
      BY <1>1, <2>1, <2>4, <2>5 DEF OrderInv, TableOK
    <3>2. ASSUME NEW p \in Registries, NEW q \in Registries, stats'[p] = stats'[q],
                 stats'[q] # NoNode
          PROVE  p = q
      BY <3>2, <1>1, <2>2, <2>4, <2>5 DEF OrderInv, TableOK
    <3> QED
      BY <1>1, <2>1, <3>1, <3>2 DEF TableOK
  <2>7. node'[used].current = 0
    <3>1. node[used].current = 0
      BY <1>1, <2>2, UnownedNode
    <3> QED
      BY <3>1, <2>2, <2>3 DEF Alike
  <2>8. \A q \in Registries : stats'[q] # stats[q] => q = r
    BY <2>4
  <2>9. \A q \in listed : stats'[q] = stats[q]
    BY <1>1, <2>4
  <2> QED
    BY <1>1, <2>3, <2>4, <2>6, <2>7, <2>8, <2>9, MainOrder
<1> QED
  BY <1>2, <1>3

\* Steps that leave the calls and the nodes alone.
LEMMA IdleOrder ==
    ASSUME StatsInv, OrderInv, UNCHANGED <<table, node, call, reported>>,
           main'.pc = "create" <=> main.pc = "create"
    PROVE  OrderInv'
<1>1. TableOK'
  BY DEF OrderInv, TableOK, table
<1>2. \A n \in Nodes : Alike(node'[n], node[n])
  BY DEF Alike
<1>3. UNCHANGED <<call, reported>> /\ stats' = stats
  BY DEF table
<1> QED
  BY <1>1, <1>2, <1>3, MainOrder

LEMMA MovesOrder ==
    ASSUME StatsInv, OrderInv, Serve \/ BeginPeriod \/ EndPeriod
    PROVE  OrderInv'
<1>1. /\ UNCHANGED <<table, node, call, reported>>
      /\ main.pc \in {"start", "serve", "period"} /\ main'.pc \in {"serve", "period"}
  <2>1. main \in [pc : {"create", "start", "serve", "period"}, pos : 0 .. Tables + 1, step : 0 .. 1]
    BY DEF StatsInv, ShapeOK
  <2>2. CASE Serve
    BY <2>1, <2>2 DEF Serve, nodes
  <2>3. CASE BeginPeriod
    BY <2>1, <2>3 DEF BeginPeriod, nodes
  <2>4. CASE EndPeriod
    <3>1. main' = [main EXCEPT !.pc = "serve", !.pos = 0] /\ main.pc = "period"
      BY <2>4 DEF EndPeriod
    <3>2. main'.pc = "serve"
      BY <2>1, <3>1
    <3> QED
      BY <2>4, <3>1, <3>2 DEF EndPeriod, nodes
  <2> QED
    BY <2>2, <2>3, <2>4
<1> QED
  BY <1>1, IdleOrder

LEMMA ViewOrder ==
    ASSUME StatsInv, OrderInv, OpenView \/ NextNode \/ Copy \/ Compare \/ PrintNode
    PROVE  OrderInv'
<1>1. UNCHANGED <<table, node, call, reported, main>>
  BY DEF OpenView, NextNode, Copy, Compare, PrintNode, Sees, nodes
<1> QED
  BY <1>1, IdleOrder

-------------------------------------------------------------------------------
(* The period command. *)

\* Nobody updates a node that no call protects.
LEMMA FreeNode ==
    ASSUME StatsInv, NEW n \in Nodes, mutex[n] \notin Calls
    PROVE  \A k : k # 0 => ~Updated(n, k) /\ ~Released(n, k)
BY DEF StatsInv, WorkerOK, Updated, Released, Updates, Releases

LEMMA EntryValues ==
    ASSUME NEW s \in Entry
    PROVE  /\ s.total \in Int /\ s.period \in Int /\ s.pperiod \in Int /\ s.current \in Int
           /\ s.peak \in Int /\ s.min \in Int /\ s.max \in Int /\ s.pmin \in Int /\ s.pmax \in Int
           /\ s.lastcall \in BOOLEAN
BY DEF Entry

\* A step of statmap::period on node n.
LEMMA PeriodOrder ==
    ASSUME StatsInv, OrderInv, NEW n \in Nodes, mutex[n] \notin Calls,
           UNCHANGED <<table, call>>, main'.pc = main.pc,
           \A m \in Nodes : m # n => node'[m] = node[m] /\ reported'[m] = reported[m],
           node'[n].current = node[n].current, node'[n].total = node[n].total,
           Ordered(node[n], FALSE, FALSE, FALSE, FALSE) =>
              Ordered(node'[n], FALSE, FALSE, FALSE, FALSE),
           0 <= reported'[n]
    PROVE  OrderInv'
<1>1. \A k : k # 0 => ~Updated(n, k) /\ ~Released(n, k)
  BY FreeNode
<1>2. \A k : k # 0 => ~Updated(n, k)' /\ ~Released(n, k)'
  BY <1>1, SameCalls DEF Updated, Released, table
<1>3. Counted(n)' = Counted(n) /\ Entered(n)' = Entered(n)
  BY SameCalls DEF table
<1>4. NodeOK(n)'
  <2>1. NodeOK(n) /\ Ordered(node[n], FALSE, FALSE, FALSE, FALSE)
    BY <1>1 DEF OrderInv, NodeOK, Ordered
  <2>2. Ordered(node[n], Updated(n, 2), Updated(n, 3), Released(n, 2), Released(n, 3))'
    BY <1>2, <2>1 DEF Ordered
  <2> QED
    BY <1>3, <2>1, <2>2 DEF NodeOK
<1>5. ASSUME NEW m \in Nodes PROVE NodeOK(m)'
  <2>1. CASE m # n
    <3>1. Alike(node'[m], node[m]) /\ reported'[m] = reported[m] /\ NodeOK(m)
      BY <2>1 DEF Alike, OrderInv
    <3>2. /\ Counted(m)' = Counted(m) /\ Entered(m)' = Entered(m)
          /\ \A c \in Calls, k \in {2, 3} : /\ Updates(c, m, k)' <=> Updates(c, m, k)
                                            /\ Releases(c, m, k)' <=> Releases(c, m, k)
      BY SameCalls DEF table
    <3> QED
      BY <3>1, <3>2, NodeFrame
  <2> QED
    BY <1>4, <2>1
<1>6. TableOK'
  BY DEF OrderInv, TableOK, table
<1>7. \A r \in Registries : LimitOK(r)'
  <2>1. \A r \in Registries : stats[r] # NoNode => node'[stats[r]].current = node[stats[r]].current
    BY DEF StatsInv, ShapeOK
  <2> QED
    BY <2>1 DEF OrderInv, LimitOK, table
<1> QED
  BY <1>5, <1>6, <1>7 DEF OrderInv

LEMMA PeriodNodeOrder ==
    ASSUME StatsInv, OrderInv, PeriodNode
    PROVE  OrderInv'
<1>0. PICK n \in Nodes : n = main.pos
  BY NodesFacts DEF PeriodNode, StatsInv, ShapeOK
<1>1. /\ UNCHANGED <<table, call>> /\ main.pc = "period" /\ main'.pc = "period" /\ main.step = 0
      /\ node \in [Nodes -> Entry] /\ reported \in [Nodes -> Int]
  BY DEF PeriodNode, StatsInv, ShapeOK
<1>2. CASE node[n].type = "UNUSED"
  <2>1. UNCHANGED <<node, reported>>
    BY <1>0, <1>2 DEF PeriodNode, nodes
  <2> QED
    BY <1>1, <2>1, IdleOrder
<1>3. CASE node[n].type # "UNUSED"
  <2> DEFINE s == node[n]
             t == node'[n]
  <2>1. /\ mutex[n] = Nobody /\ reported'[n] = reported[n] + s.period
        /\ \A m \in Nodes : m # n => reported'[m] = reported[m]
        /\ node' = [node EXCEPT ![n].pperiod = node[n].period,
                                ![n].pmax = node[n].max, ![n].pmin = node[n].min]
    BY <1>0, <1>1, <1>3 DEF PeriodNode, PeriodProtect
  <2>2. /\ t = [s EXCEPT !.pperiod = s.period, !.pmax = s.max, !.pmin = s.min]
        /\ \A m \in Nodes : m # n => node'[m] = node[m]
        /\ s \in Entry
    BY <1>1, <2>1
  <2>3. /\ t.lastcall = s.lastcall /\ t.total = s.total /\ t.period = s.period
        /\ t.pperiod = s.period /\ t.current = s.current /\ t.peak = s.peak
        /\ t.min = s.min /\ t.max = s.max /\ t.pmin = s.min /\ t.pmax = s.max
    BY <2>2 DEF Entry
  <2>4. s.total = reported[n] + s.period /\ reported[n] \in Int
    BY <1>1 DEF StatsInv, SumOK
  <2>5. NodeOK(n) /\ s = node[n] /\ t = node'[n] /\ mutex[n] \notin Calls
    BY <2>1, NamesDistinct DEF OrderInv
  <2> HIDE DEF s, t
  <2>6. 0 <= reported[n] /\ 0 <= s.period
    BY <2>5 DEF NodeOK, Ordered
  <2>7. Ordered(s, FALSE, FALSE, FALSE, FALSE) => Ordered(t, FALSE, FALSE, FALSE, FALSE)
    BY <2>2, <2>3, <2>4, <2>6, EntryValues DEF Ordered
  <2>8. 0 <= reported'[n]
    BY <2>1, <2>2, <2>4, <2>6, EntryValues
  <2>9. /\ node'[n].current = node[n].current /\ node'[n].total = node[n].total
        /\ Ordered(node[n], FALSE, FALSE, FALSE, FALSE) =>
              Ordered(node'[n], FALSE, FALSE, FALSE, FALSE)
        /\ \A m \in Nodes : m # n => node'[m] = node[m] /\ reported'[m] = reported[m]
        /\ main'.pc = main.pc
    BY <1>1, <2>1, <2>2, <2>3, <2>5, <2>7
  <2> QED
    BY <1>1, <2>5, <2>8, <2>9, PeriodOrder
<1> QED
  BY <1>2, <1>3

LEMMA PeriodResetOrder ==
    ASSUME StatsInv, OrderInv, PeriodReset
    PROVE  OrderInv'
<1>0. PICK n \in Nodes : n = main.pos
  BY DEF PeriodReset, StatsInv, PeriodOK
<1> DEFINE s == node[n]
           t == node'[n]
<1>1. /\ UNCHANGED <<table, call, reported>> /\ mutex[n] = Main /\ main'.pc = main.pc
      /\ node \in [Nodes -> Entry] /\ s \in Entry
      /\ node' = [node EXCEPT ![n].max = node[n].current, ![n].min = node[n].current,
                              ![n].period = 0]
  <2>1. main \in [pc : {"create", "start", "serve", "period"}, pos : 0 .. Tables + 1, step : 0 .. 1]
    BY DEF StatsInv, ShapeOK
  <2>2. main' = [main EXCEPT !.pos = n + 1, !.step = 0]
    BY <1>0 DEF PeriodReset
  <2>3. main'.pc = main.pc
    BY <2>1, <2>2
  <2> QED
    BY <1>0, <2>3 DEF PeriodReset, StatsInv, ShapeOK, PeriodOK
<1>2. /\ t = [s EXCEPT !.max = s.current, !.min = s.current, !.period = 0]
      /\ \A m \in Nodes : m # n => node'[m] = node[m]
  BY <1>1
<1>3. /\ t.lastcall = s.lastcall /\ t.total = s.total /\ t.period = 0
      /\ t.pperiod = s.pperiod /\ t.current = s.current /\ t.peak = s.peak
      /\ t.min = s.current /\ t.max = s.current /\ t.pmin = s.pmin /\ t.pmax = s.pmax
  BY <1>1, <1>2 DEF Entry
<1>4. mutex[n] \notin Calls /\ NodeOK(n) /\ CountOK(n) /\ s = node[n] /\ t = node'[n]
  BY <1>1, NamesDistinct DEF OrderInv, StatsInv
<1> HIDE DEF s, t
<1>5. s.current <= s.peak
  <2>1. \A c \in Calls : ~Updates(c, n, 3)
    BY <1>4, FreeNode DEF Updated
  <2> QED
    BY <1>4, <2>1 DEF CountOK
<1>6. 0 <= s.current /\ 0 <= reported[n]
  BY <1>4, CountedNumbers DEF NodeOK
<1>7. Ordered(s, FALSE, FALSE, FALSE, FALSE) => Ordered(t, FALSE, FALSE, FALSE, FALSE)
  BY <1>1, <1>3, <1>5, <1>6, EntryValues DEF Ordered
<1>8. /\ node'[n].current = node[n].current /\ node'[n].total = node[n].total
      /\ Ordered(node[n], FALSE, FALSE, FALSE, FALSE) =>
            Ordered(node'[n], FALSE, FALSE, FALSE, FALSE)
      /\ \A m \in Nodes : m # n => node'[m] = node[m] /\ reported'[m] = reported[m]
      /\ 0 <= reported'[n]
  BY <1>1, <1>2, <1>3, <1>4, <1>6, <1>7
<1> QED
  BY <1>1, <1>4, <1>8, PeriodOrder

-------------------------------------------------------------------------------
(* The calls' work. *)

\* What each step of an update leaves of the order of the values.
LEMMA UpdateOrder ==
    ASSUME NEW s \in Entry, 0 <= s.current
    PROVE  /\ Ordered(s, FALSE, FALSE, FALSE, FALSE) =>
                 Ordered(Update(s, 1), TRUE, FALSE, FALSE, FALSE)
           /\ Ordered(s, TRUE, FALSE, FALSE, FALSE) =>
                 Ordered(Update(s, 2), FALSE, TRUE, FALSE, FALSE)
           /\ Ordered(s, FALSE, TRUE, FALSE, FALSE) =>
                 Ordered(Update(s, 3), FALSE, FALSE, FALSE, FALSE)
<1>1. LET t == Update(s, 1)
      IN  /\ t.lastcall = s.lastcall /\ t.total = s.total + 1 /\ t.period = s.period + 1
          /\ t.pperiod = s.pperiod /\ t.current = s.current /\ t.peak = s.peak
          /\ t.min = s.min /\ t.max = s.max /\ t.pmin = s.pmin /\ t.pmax = s.pmax
  <2>1. Update(s, 1) = [s EXCEPT !.period = @ + 1, !.total = @ + 1]
    BY DEF Update
  <2> QED
    BY <2>1 DEF Entry
<1>2. LET t == Update(s, 2)
      IN  /\ t.lastcall = s.lastcall /\ t.total = s.total /\ t.period = s.period
          /\ t.pperiod = s.pperiod /\ t.current = s.current + 1 /\ t.peak = s.peak
          /\ t.min = s.min /\ t.max = s.max /\ t.pmin = s.pmin /\ t.pmax = s.pmax
  <2>1. Update(s, 2) = [s EXCEPT !.current = @ + 1]
    BY DEF Update
  <2> QED
    BY <2>1 DEF Entry
<1>3. LET t == Update(s, 3)
      IN  /\ t.lastcall = s.lastcall /\ t.total = s.total /\ t.period = s.period
          /\ t.pperiod = s.pperiod /\ t.current = s.current
          /\ t.peak = IF s.current > s.peak THEN s.current ELSE s.peak
          /\ t.max = IF s.current > s.max THEN s.current ELSE s.max
          /\ t.min = s.min /\ t.pmin = s.pmin /\ t.pmax = s.pmax
  <2>1. Update(s, 3) = [s EXCEPT !.peak = IF s.current > @ THEN s.current ELSE @,
                                 !.max = IF s.current > @ THEN s.current ELSE @]
    BY DEF Update
  <2> QED
    BY <2>1 DEF Entry
<1> DEFINE t1 == Update(s, 1)
           t2 == Update(s, 2)
           t3 == Update(s, 3)
<1> HIDE DEF t1, t2, t3
<1>4. Ordered(s, FALSE, FALSE, FALSE, FALSE) => Ordered(t1, TRUE, FALSE, FALSE, FALSE)
  BY <1>1, EntryValues DEF Ordered, t1
<1>5. Ordered(s, TRUE, FALSE, FALSE, FALSE) => Ordered(t2, FALSE, TRUE, FALSE, FALSE)
  BY <1>2, EntryValues DEF Ordered, t2
<1>6. Ordered(s, FALSE, TRUE, FALSE, FALSE) => Ordered(t3, FALSE, FALSE, FALSE, FALSE)
  BY <1>3, EntryValues DEF Ordered, t3
<1> QED
  BY <1>4, <1>5, <1>6 DEF t1, t2, t3

\* And of a release.
LEMMA ReleaseOrder ==
    ASSUME NEW s \in Entry, 0 <= s.current
    PROVE  /\ Ordered(s, FALSE, FALSE, FALSE, FALSE) =>
                 Ordered(Release(s, 1), FALSE, FALSE, TRUE, FALSE)
           /\ Ordered(s, FALSE, FALSE, TRUE, FALSE) =>
                 Ordered(Release(s, 2), FALSE, FALSE, FALSE, TRUE)
           /\ Ordered(s, FALSE, FALSE, FALSE, TRUE) =>
                 Ordered(Release(s, 3), FALSE, FALSE, FALSE, FALSE)
           /\ Release(s, 1).current = s.current /\ Release(s, 3).current = s.current
           /\ Release(s, 2).current = s.current - 1
<1>1. LET t == Release(s, 1)
      IN  /\ t.lastcall = (s.lastcall \/ s.current = 1) /\ t.total = s.total /\ t.period = s.period
          /\ t.pperiod = s.pperiod /\ t.current = s.current /\ t.peak = s.peak
          /\ t.min = s.min /\ t.max = s.max /\ t.pmin = s.pmin /\ t.pmax = s.pmax
  <2>1. Release(s, 1) = [s EXCEPT !.lastcall = @ \/ s.current = 1]
    BY DEF Release
  <2> QED
    BY <2>1 DEF Entry
<1>2. LET t == Release(s, 2)
      IN  /\ t.lastcall = s.lastcall /\ t.total = s.total /\ t.period = s.period
          /\ t.pperiod = s.pperiod /\ t.current = s.current - 1 /\ t.peak = s.peak
          /\ t.min = s.min /\ t.max = s.max /\ t.pmin = s.pmin /\ t.pmax = s.pmax
  <2>1. Release(s, 2) = [s EXCEPT !.current = @ - 1]
    BY DEF Release
  <2> QED
    BY <2>1 DEF Entry
<1>3. LET t == Release(s, 3)
      IN  /\ t.lastcall = s.lastcall /\ t.total = s.total /\ t.period = s.period
          /\ t.pperiod = s.pperiod /\ t.current = s.current /\ t.peak = s.peak
          /\ t.min = (IF s.current < s.min THEN s.current ELSE s.min)
          /\ t.max = s.max /\ t.pmin = s.pmin /\ t.pmax = s.pmax
  <2>1. Release(s, 3) = [s EXCEPT !.min = IF s.current < @ THEN s.current ELSE @]
    BY DEF Release
  <2> QED
    BY <2>1 DEF Entry
<1> DEFINE t1 == Release(s, 1)
           t2 == Release(s, 2)
           t3 == Release(s, 3)
<1> HIDE DEF t1, t2, t3
<1>4. Ordered(s, FALSE, FALSE, FALSE, FALSE) => Ordered(t1, FALSE, FALSE, TRUE, FALSE)
  BY <1>1, EntryValues DEF Ordered, t1
<1>5. Ordered(s, FALSE, FALSE, TRUE, FALSE) => Ordered(t2, FALSE, FALSE, FALSE, TRUE)
  BY <1>2, EntryValues DEF Ordered, t2
<1>6. Ordered(s, FALSE, FALSE, FALSE, TRUE) => Ordered(t3, FALSE, FALSE, FALSE, FALSE)
  BY <1>3, EntryValues DEF Ordered, t3
<1> QED
  BY <1>1, <1>2, <1>3, <1>4, <1>5, <1>6 DEF t1, t2, t3

\* A call enters and leaves the counts of the node it works on, in the steps
\* that change them, and stays in those of its other node.
LEMMA WorkCounts ==
    ASSUME StatsInv, OrderInv, NEW c \in Calls, NEW n \in Nodes, NEW k \in 1 .. 3,
           n = NodeOf(c), k = call[c].step, NEW y,
           y.reg = call[c].reg,
           call[c].pc \in {"attach", "assign", "active", "detach"},
           k # 3 => y.pc = call[c].pc /\ y.step = k + 1,
           k = 3 => y.pc = After(call[c].pc) /\ y.step = 0
    PROVE  LET x == call[c]
               up == x.pc \in {"attach", "assign"}
           IN  /\ \A m \in Nodes : m # n => /\ InCurrent(y, m) <=> InCurrent(x, m)
                                            /\ InTotal(x, m) => InTotal(y, m)
               /\ k # 2 => (InCurrent(y, n) <=> InCurrent(x, n))
               /\ k = 2 => (InCurrent(x, n) <=> ~up) /\ (InCurrent(y, n) <=> up)
               /\ k = 1 /\ up => ~InTotal(x, n) /\ InTotal(y, n)
               /\ InTotal(x, n) => InTotal(y, n)
<1> DEFINE x == call[c]
<1>1. x.reg = y.reg /\ k = x.step /\ (k = 1 \/ k = 2 \/ k = 3)
  OBVIOUS
<1>2. CASE x.pc = "attach"
  <2>1. stats[x.reg] = n /\ n # 0
    BY <1>2, NodeOfRegistry, NodesFacts DEF NodeOf
  <2>2. After(x.pc) = "assign"
    BY <1>2 DEF After
  <2> QED
    BY <1>1, <1>2, <2>1, <2>2 DEF InCurrent, InTotal
<1>3. CASE x.pc = "assign"
  <2>1. n = 0
    BY <1>3 DEF NodeOf
  <2>2. After(x.pc) = "active"
    BY <1>3 DEF After
  <2> QED
    BY <1>1, <1>3, <2>1, <2>2 DEF InCurrent, InTotal
<1>4. CASE x.pc = "active"
  <2>1. n = 0
    BY <1>4 DEF NodeOf
  <2>2. After(x.pc) = "detach"
    BY <1>4 DEF After
  <2> QED
    BY <1>1, <1>4, <2>1, <2>2 DEF InCurrent, InTotal
<1>5. CASE x.pc = "detach"
  <2>1. stats[x.reg] = n /\ n # 0
    BY <1>5, NodeOfRegistry, NodesFacts DEF NodeOf
  <2>2. After(x.pc) = "ended"
    BY <1>5 DEF After
  <2> QED
    BY <1>1, <1>5, <2>1, <2>2 DEF InCurrent, InTotal
<1> QED
  BY <1>2, <1>3, <1>4, <1>5

LEMMA WorkOrder ==
    ASSUME StatsInv, OrderInv, NEW c \in Calls, Work(c)
    PROVE  OrderInv'
<1> USE DEF table
<1>0. PICK n \in Nodes, k \in 1 .. 3 : n = NodeOf(c) /\ k = call[c].step
  BY DEF Work, StatsInv, ShapeOK, WorkerOK, Stages
<1> DEFINE s == node[n]
           t == node'[n]
           x == call[c]
           y == call'[c]
           up == call[c].pc \in {"attach", "assign"}
<1>1. /\ x.pc \in {"attach", "assign", "active", "detach"} /\ mutex[n] = c
      /\ s \in Entry /\ call[c] \in Stages /\ call \in [Calls -> Stages]
      /\ node \in [Nodes -> Entry]
  BY <1>0 DEF Work, StatsInv, ShapeOK, WorkerOK
<1>2. /\ UNCHANGED <<table, main, reported>>
      /\ t = (IF up THEN Update(s, k) ELSE Release(s, k))
      /\ \A m \in Nodes : m # n => node'[m] = node[m]
  BY <1>0, <1>1 DEF Work
<1>3. /\ \A d \in Calls : d # c => call'[d] = call[d]
      /\ y.reg = x.reg
      /\ k # 3 => y.pc = x.pc /\ y.step = k + 1
      /\ k = 3 => y.pc = After(x.pc) /\ y.step = 0
  <2>1. CASE k = 3
    <3>1. call' = [call EXCEPT ![c].pc = After(x.pc), ![c].step = 0]
      BY <1>0, <2>1 DEF Work, Goes
    <3> QED
      BY <1>1, <2>1, <3>1 DEF Stages
  <2>2. CASE k # 3
    <3>1. call' = [call EXCEPT ![c].pc = x.pc, ![c].step = k + 1]
      BY <1>0, <2>2 DEF Work, Goes
    <3> QED
      BY <1>1, <2>2, <3>1 DEF Stages
  <2> QED
    BY <2>1, <2>2
<1>4. /\ \A m \in Nodes : m # n => /\ InCurrent(y, m) <=> InCurrent(x, m)
                                   /\ InTotal(x, m) => InTotal(y, m)
      /\ k # 2 => (InCurrent(y, n) <=> InCurrent(x, n))
      /\ k = 2 => (InCurrent(x, n) <=> ~up) /\ (InCurrent(y, n) <=> up)
      /\ k = 1 /\ up => ~InTotal(x, n) /\ InTotal(y, n)
      /\ InTotal(x, n) => InTotal(y, n)
  BY <1>0, <1>1, <1>3, WorkCounts
<1>5. \A m \in Nodes : /\ Counted(m)' = {d \in Calls : InCurrent(call'[d], m)}
                       /\ Entered(m)' = {d \in Calls : InTotal(call'[d], m)}
  BY <1>2 DEF Counted, Entered, InCurrent, InTotal
<1>6. \A d \in Calls : d # c /\ call[d].step # 0 => NodeOf(d) # n
  BY <1>0, <1>1 DEF StatsInv, WorkerOK
<1>7. \A d \in Calls : d # c => NodeOf(d)' = NodeOf(d)
  BY <1>2, <1>3 DEF NodeOf
<1>8. k # 3 => NodeOf(c)' = n
  BY <1>0, <1>2, <1>3 DEF NodeOf
<1>9. /\ n = NodeOf(c) /\ k = x.step /\ x = call[c] /\ y = call'[c] /\ s = node[n] /\ t = node'[n]
      /\ up <=> x.pc \in {"attach", "assign"}
      /\ k = 1 \/ k = 2 \/ k = 3
  BY <1>0
<1> HIDE DEF s, t, x, y, up
<1>10. ASSUME NEW m \in Nodes, m # n PROVE NodeOK(m)'
  <2>1. NodeOK(m) /\ Alike(node'[m], node[m]) /\ reported'[m] = reported[m]
    BY <1>2, <1>10 DEF OrderInv, Alike
  <2>2. \A d \in Calls : /\ InCurrent(call'[d], m) <=> InCurrent(call[d], m)
                         /\ InTotal(call[d], m) => InTotal(call'[d], m)
    BY <1>3, <1>4, <1>9, <1>10
  <2>3. Counted(m)' = Counted(m) /\ Entered(m) \subseteq Entered(m)'
    BY <1>5, <2>2 DEF Counted, Entered
  <2>4. ASSUME NEW d \in Calls, NEW j \in {2, 3}
        PROVE  /\ Updates(d, m, j)' <=> Updates(d, m, j)
               /\ Releases(d, m, j)' <=> Releases(d, m, j)
    <3>1. CASE d # c
      BY <3>1, <1>3, <1>7 DEF Updates, Releases
    <3>2. CASE d = c
      <4>1. ~Updates(c, m, j) /\ ~Releases(c, m, j)
        BY <1>9, <1>10 DEF Updates, Releases
      <4>2. ~Updates(c, m, j)' /\ ~Releases(c, m, j)'
        BY <1>3, <1>8, <1>9, <1>10 DEF Updates, Releases
      <4> QED
        BY <3>2, <4>1, <4>2
    <3> QED
      BY <3>1, <3>2
  <2> QED
    BY <2>1, <2>3, <2>4, NodeFrame
<1>11. \A j \in {2, 3} : /\ Updated(n, j) <=> (up /\ k = j)
                         /\ Released(n, j) <=> (~up /\ k = j)
                         /\ Updated(n, j)' <=> (up /\ k + 1 = j)
                         /\ Released(n, j)' <=> (~up /\ k + 1 = j)
  <2> SUFFICES ASSUME NEW j \in {2, 3}
               PROVE  /\ Updated(n, j) <=> (up /\ k = j)
                      /\ Released(n, j) <=> (~up /\ k = j)
                      /\ Updated(n, j)' <=> (up /\ k + 1 = j)
                      /\ Released(n, j)' <=> (~up /\ k + 1 = j)
    OBVIOUS
  <2>1. \A d \in Calls : d # c => ~Updates(d, n, j) /\ ~Releases(d, n, j)
    BY <1>6 DEF Updates, Releases
  <2>2. \A d \in Calls : d # c => ~Updates(d, n, j)' /\ ~Releases(d, n, j)'
    BY <1>3, <1>6, <1>7 DEF Updates, Releases
  <2>3. (Updates(c, n, j) <=> (up /\ k = j)) /\ (Releases(c, n, j) <=> (~up /\ k = j))
    BY <1>1, <1>9 DEF Updates, Releases
  <2>4. (Updates(c, n, j)' <=> (up /\ k + 1 = j)) /\ (Releases(c, n, j)' <=> (~up /\ k + 1 = j))
    BY <1>1, <1>3, <1>8, <1>9 DEF Updates, Releases
  <2> QED
    BY <2>1, <2>2, <2>3, <2>4 DEF Updated, Released
<1>12. NodeOK(n) /\ s.current = Cardinality(Counted(n)) /\ s.current \in Nat
  BY <1>9, CountedNumbers DEF OrderInv, NodeOK
<1>13. Ordered(node[n], Updated(n, 2), Updated(n, 3), Released(n, 2), Released(n, 3))'
  <2>1. Ordered(s, up /\ k = 2, up /\ k = 3, ~up /\ k = 2, ~up /\ k = 3)
    BY <1>9, <1>11, <1>12 DEF NodeOK, Ordered
  <2>2. Ordered(t, up /\ k = 1, up /\ k = 2, ~up /\ k = 1, ~up /\ k = 2)
    <3>0. s \in Entry /\ 0 <= s.current
      BY <1>1, <1>12
    <3>1. CASE up
      <4>1. CASE k = 1
        <5>1. t = Update(s, 1)
          BY <1>2, <3>1, <4>1
        <5>2. Ordered(s, FALSE, FALSE, FALSE, FALSE)
          BY <2>1, <3>1, <4>1 DEF Ordered
        <5>3. Ordered(t, TRUE, FALSE, FALSE, FALSE)
          BY <5>1, <5>2, <3>0, UpdateOrder
        <5> QED
          BY <5>3, <3>1, <4>1 DEF Ordered
      <4>2. CASE k = 2
        <5>1. t = Update(s, 2)
          BY <1>2, <3>1, <4>2
        <5>2. Ordered(s, TRUE, FALSE, FALSE, FALSE)
          BY <2>1, <3>1, <4>2 DEF Ordered
        <5>3. Ordered(t, FALSE, TRUE, FALSE, FALSE)
          BY <5>1, <5>2, <3>0, UpdateOrder
        <5> QED
          BY <5>3, <3>1, <4>2 DEF Ordered
      <4>3. CASE k = 3
        <5>1. t = Update(s, 3)
          BY <1>2, <3>1, <4>3
        <5>2. Ordered(s, FALSE, TRUE, FALSE, FALSE)
          BY <2>1, <3>1, <4>3 DEF Ordered
        <5>3. Ordered(t, FALSE, FALSE, FALSE, FALSE)
          BY <5>1, <5>2, <3>0, UpdateOrder
        <5> QED
          BY <5>3, <3>1, <4>3 DEF Ordered
      <4> QED
        BY <1>9, <4>1, <4>2, <4>3
    <3>2. CASE ~up
      <4>1. CASE k = 1
        <5>1. t = Release(s, 1)
          BY <1>2, <3>2, <4>1
        <5>2. Ordered(s, FALSE, FALSE, FALSE, FALSE)
          BY <2>1, <3>2, <4>1 DEF Ordered
        <5>3. Ordered(t, FALSE, FALSE, TRUE, FALSE)
          BY <5>1, <5>2, <3>0, ReleaseOrder
        <5> QED
          BY <5>3, <3>2, <4>1 DEF Ordered
      <4>2. CASE k = 2
        <5>1. t = Release(s, 2)
          BY <1>2, <3>2, <4>2
        <5>2. Ordered(s, FALSE, FALSE, TRUE, FALSE)
          BY <2>1, <3>2, <4>2 DEF Ordered
        <5>3. Ordered(t, FALSE, FALSE, FALSE, TRUE)
          BY <5>1, <5>2, <3>0, ReleaseOrder
        <5> QED
          BY <5>3, <3>2, <4>2 DEF Ordered
      <4>3. CASE k = 3
        <5>1. t = Release(s, 3)
          BY <1>2, <3>2, <4>3
        <5>2. Ordered(s, FALSE, FALSE, FALSE, TRUE)
          BY <2>1, <3>2, <4>3 DEF Ordered
        <5>3. Ordered(t, FALSE, FALSE, FALSE, FALSE)
          BY <5>1, <5>2, <3>0, ReleaseOrder
        <5> QED
          BY <5>3, <3>2, <4>3 DEF Ordered
      <4> QED
        BY <1>9, <4>1, <4>2, <4>3
    <3> QED
      BY <3>1, <3>2
  <2> QED
    BY <2>2, <1>9, <1>11 DEF Ordered
<1>14. /\ up /\ k = 2 => t.current = s.current + 1
       /\ ~up /\ k = 2 => t.current = s.current - 1
       /\ k # 2 => t.current = s.current
       /\ up /\ k = 1 => t.total = s.total + 1
       /\ ~(up /\ k = 1) => t.total = s.total
       /\ s.total \in Int
  <2>1. CASE up
    BY <2>1, <1>1, <1>2, <1>9, UpdateFacts, EntryValues
  <2>2. CASE ~up
    <3>1. 0 <= s.current
      BY <1>12
    <3>2. /\ Release(s, 1).current = s.current /\ Release(s, 3).current = s.current
          /\ Release(s, 2).current = s.current - 1
      BY <1>1, <3>1, ReleaseOrder
    <3>3. t = Release(s, k) /\ t.total = s.total
      BY <2>2, <1>1, <1>2, UpdateFacts
    <3> QED
      BY <2>2, <3>2, <3>3, <1>1, <1>9, EntryValues
  <2> QED
    BY <2>1, <2>2
<1>15. t.current = Cardinality(Counted(n)')
  <2>1. \A d \in Calls : d # c => (InCurrent(call'[d], n) <=> InCurrent(call[d], n))
    BY <1>3
  <2>2. IsFiniteSet(Counted(n)) /\ (c \in Counted(n) <=> InCurrent(x, n))
    BY <1>9, CountedNumbers DEF Counted
  <2>3. CASE k = 2 /\ up
    <3>1. c \notin Counted(n) /\ Counted(n)' = Counted(n) \cup {c}
      BY <2>1, <2>2, <2>3, <1>4, <1>5, <1>9 DEF Counted
    <3> QED
      BY <2>2, <2>3, <3>1, <1>12, <1>14, FS_AddElement
  <2>4. CASE k = 2 /\ ~up
    <3>1. c \in Counted(n) /\ Counted(n)' = Counted(n) \ {c}
      BY <2>1, <2>2, <2>4, <1>4, <1>5, <1>9 DEF Counted
    <3> QED
      BY <2>2, <2>4, <3>1, <1>12, <1>14, FS_RemoveElement
  <2>5. CASE k # 2
    <3>1. Counted(n)' = Counted(n)
      BY <2>1, <2>5, <1>4, <1>5, <1>9 DEF Counted
    <3> QED
      BY <2>5, <3>1, <1>12, <1>14
  <2> QED
    BY <2>3, <2>4, <2>5
<1>16. t.total <= Cardinality(Entered(n)')
  <2>1. \A d \in Calls : d # c => (InTotal(call'[d], n) <=> InTotal(call[d], n))
    BY <1>3
  <2>2. /\ IsFiniteSet(Entered(n)) /\ (c \in Entered(n) <=> InTotal(x, n))
        /\ Cardinality(Entered(n)) \in Nat /\ s.total <= Cardinality(Entered(n))
    BY <1>9, <1>12, CountedNumbers DEF Entered, NodeOK
  <2>3. CASE k = 1 /\ up
    <3>1. c \notin Entered(n) /\ Entered(n)' = Entered(n) \cup {c}
      BY <2>1, <2>2, <2>3, <1>4, <1>5, <1>9 DEF Entered
    <3>2. Cardinality(Entered(n)') = Cardinality(Entered(n)) + 1
      BY <2>2, <3>1, FS_AddElement
    <3> QED
      BY <2>2, <2>3, <3>2, <1>14
  <2>4. CASE ~(k = 1 /\ up)
    <3>1. Entered(n) \subseteq Entered(n)' /\ Entered(n)' \in SUBSET Calls
      BY <2>1, <1>4, <1>5, <1>9 DEF Entered
    <3>2. IsFiniteSet(Entered(n)')
      BY <3>1, CallsAreFinite, FS_Subset
    <3>3. Cardinality(Entered(n)) <= Cardinality(Entered(n)') /\ Cardinality(Entered(n)') \in Nat
      BY <3>1, <3>2, FS_Subset, FS_CardinalityType
    <3> QED
      BY <2>2, <2>4, <3>3, <1>14
  <2> QED
    BY <2>3, <2>4
<1>17. NodeOK(n)'
  BY <1>2, <1>9, <1>12, <1>13, <1>15, <1>16 DEF NodeOK
<1>18. TableOK'
  BY <1>2 DEF OrderInv, TableOK
<1>19. ASSUME NEW r \in Registries PROVE LimitOK(r)'
  <2> SUFFICES ASSUME stats[r] # NoNode, Limit[r] # 0
               PROVE  /\ node'[stats[r]].current <= Limit[r]
                      /\ \A d \in Calls : call'[d].pc = "attach" /\ call'[d].reg = r
                                          /\ call'[d].step \in {1, 2} =>
                             node'[stats[r]].current < Limit[r]
    BY <1>2 DEF LimitOK
  <2>1. /\ node[stats[r]].current <= Limit[r]
        /\ \A d \in Calls : call[d].pc = "attach" /\ call[d].reg = r /\ call[d].step \in {1, 2} =>
              node[stats[r]].current < Limit[r]
    BY DEF OrderInv, LimitOK
  <2>2. stats[r] \in Nodes /\ stats[r] # 0 /\ Limit[r] \in Nat
    BY LimitsAreCounts, NodesFacts DEF StatsInv, ShapeOK, OrderInv, TableOK
  <2>3. \A q \in Registries : stats[q] = stats[r] => q = r
    BY DEF OrderInv, TableOK
  <2>4. CASE stats[r] # n
    <3>1. ~(y.pc = "attach" /\ y.reg = r /\ y.step \in {1, 2})
      BY <1>1, <1>3, <1>9, <2>4 DEF NodeOf, After
    <3> QED
      BY <2>1, <2>2, <2>4, <3>1, <1>2, <1>3, <1>9
  <2>5. CASE stats[r] = n
    <3>1. \A d \in Calls : call[d].pc = "attach" /\ call[d].reg = r /\ call[d].step # 0 => d = c
      BY <2>5, <1>6 DEF NodeOf
    <3>2. up => x.pc = "attach" /\ x.reg = r
      <4>1. up => x.pc = "attach" /\ stats[x.reg] = n
        BY <1>9, <2>2, <2>5 DEF NodeOf
      <4>2. x.reg \in Registries
        BY <1>1, <1>9, NodeOfRegistry
      <4> QED
        BY <4>1, <4>2, <2>3, <2>5
    <3>3. \A d \in Calls : call'[d].pc = "attach" /\ call'[d].reg = r /\ call'[d].step \in {1, 2} =>
             d = c /\ up /\ k = 1
      <4>1. ASSUME y.pc = "attach", y.step \in {1, 2} PROVE up /\ k = 1
        BY <4>1, <1>1, <1>3, <1>9 DEF After
      <4> QED
        BY <4>1, <3>1, <1>3, <1>9
    <3>4. up /\ k \in {1, 2} => s.current < Limit[r]
      BY <2>1, <2>5, <3>2, <1>9
    <3>5. t.current <= Limit[r] /\ (up /\ k = 1 => t.current < Limit[r])
      BY <2>1, <2>2, <2>5, <3>4, <1>9, <1>12, <1>14
    <3> QED
      BY <2>5, <3>3, <3>5, <1>9
  <2> QED
    BY <2>4, <2>5
<1> QED
  BY <1>10, <1>17, <1>18, <1>19 DEF OrderInv

-------------------------------------------------------------------------------
LEMMA OrderStep == StatsInv /\ OrderInv /\ [Next]_vars => OrderInv'
<1> SUFFICES ASSUME StatsInv, OrderInv, [Next]_vars PROVE OrderInv'
  OBVIOUS
<1>1. ASSUME NEW c \in Calls, CallStep(c) PROVE OrderInv'
  BY <1>1, MoveOrder, ProtectOrder, WorkOrder DEF CallStep
<1>2. CASE UNCHANGED vars
  BY <1>2, IdleOrder DEF vars, table
<1> QED
  BY <1>1, <1>2, CreateOrder, RegisterOrder, InviteOrder, MovesOrder, PeriodNodeOrder,
     PeriodResetOrder, ViewOrder DEF Next

LEMMA OrderInvHolds == Spec => []OrderInv
BY OrderInit, OrderStep, StatsInvHolds, PTL DEF Spec

\* The values of a node fit together whenever statmap::update, statmap::release
\* and statmap::period leave its mutex, a registration is never past its limit,
\* and no node has two owners.
THEOREM OrderSafe == Spec => []NodeOrdered
<1>1. StatsInv /\ OrderInv => NodeOrdered
  <2> SUFFICES ASSUME StatsInv, OrderInv PROVE NodeOrdered
    OBVIOUS
  <2>1. ASSUME NEW n \in Nodes, mutex[n] = Nobody
        PROVE  LET s == node[n]
               IN  /\ s.min <= s.current /\ s.current <= s.max /\ s.max <= s.peak
                   /\ s.pmin <= s.pmax /\ s.pmax <= s.peak
                   /\ s.total > 0 /\ s.current = 0 => s.lastcall
    <3>1. \A k : k # 0 => ~Updated(n, k) /\ ~Released(n, k)
      BY <2>1, FreeNode, NamesDistinct
    <3>2. NodeOK(n)
      BY DEF OrderInv
    <3> QED
      BY <3>1, <3>2 DEF NodeOK, Ordered
  <2>2. ASSUME NEW r \in Registries, stats[r] # NoNode
        PROVE  /\ Limit[r] # 0 => node[stats[r]].current <= Limit[r]
               /\ stats[r] # 0 /\ \A q \in Registries \ {r} : stats[q] # stats[r]
    BY <2>2 DEF OrderInv, TableOK, LimitOK
  <2> QED
    BY <2>1, <2>2 DEF NodeOrdered
<1> QED
  BY <1>1, StatsInvHolds, OrderInvHolds, PTL

-------------------------------------------------------------------------------
(* The values are within the bounds of their types. *)

\* No value of a node is negative, and none is more than the calls there are.
LEMMA NodeBounds ==
    ASSUME StatsInv, OrderInv, NEW n \in Nodes
    PROVE  node[n] \in statmap /\ reported[n] \in Counts
<1> DEFINE s == node[n]
           N == Cardinality(Calls)
<1>1. s \in Entry /\ reported[n] \in Int /\ N \in Nat
  BY CountedNumbers DEF StatsInv, ShapeOK
<1>2. s.current \in Nat /\ s.total <= N
  <2>1. /\ s.current = Cardinality(Counted(n)) /\ s.total <= Cardinality(Entered(n))
    BY DEF OrderInv, NodeOK
  <2> QED
    BY <1>1, <2>1, CountedNumbers, EntryValues
<1>3. /\ 0 <= s.min /\ s.min <= s.max /\ s.max <= s.peak
      /\ 0 <= s.pmin /\ s.pmin <= s.pmax /\ s.pmax <= s.peak
      /\ 0 <= s.period /\ s.period <= s.total /\ 0 <= s.pperiod /\ s.pperiod <= s.total
      /\ 0 <= reported[n]
  BY DEF OrderInv, NodeOK, Ordered
<1>4. s.current <= s.total /\ s.peak <= s.total
  BY DEF StatsInv, CountOK
<1>5. s.period <= N /\ reported[n] <= N
  <2>1. SumOK(n)
    BY DEF StatsInv
  <2>2. s.total = reported[n] + s.period \/ s.total = reported[n]
    BY <2>1, <1>1, EntryValues DEF SumOK
  <2> QED
    BY <2>2, <1>1, <1>2, <1>3, EntryValues
<1>6. Counts = 0 .. N
  BY DEF Counts
<1> HIDE DEF N
<1>7. /\ s.total \in 0 .. N /\ s.period \in 0 .. N /\ s.pperiod \in 0 .. N /\ s.current \in 0 .. N
      /\ s.peak \in 0 .. N /\ s.min \in 0 .. N /\ s.max \in 0 .. N /\ s.pmin \in 0 .. N
      /\ s.pmax \in 0 .. N
  BY <1>1, <1>2, <1>3, <1>4, <1>5, EntryValues
<1> QED
  BY <1>1, <1>3, <1>5, <1>6, <1>7 DEF Entry, statmap

BoundsOK == periods \in 0 .. MaxPeriods /\ view.index \in 0 .. Tables + 1 /\ view.buffer \in Buffer

LEMMA BoundsInit == Init => BoundsOK
<1> SUFFICES ASSUME Init PROVE BoundsOK
  OBVIOUS
<1>1. 0 \in Counts
  BY CountedNumbers DEF Counts
<1> QED
  BY <1>1, TablesIsCount DEF Init, BoundsOK, Buffer

LEMMA BoundsStep == StatsInv /\ OrderInv /\ BoundsOK /\ [Next]_vars => BoundsOK'
<1> SUFFICES ASSUME StatsInv, OrderInv, BoundsOK, [Next]_vars PROVE BoundsOK'
  OBVIOUS
<1>1. /\ view \in Views /\ 0 \in Counts /\ view.buffer \in Buffer /\ periods \in 0 .. MaxPeriods
      /\ view.index \in 0 .. Tables + 1
  BY ViewType, CountedNumbers DEF BoundsOK, Counts
<1>2. CASE BeginPeriod
  BY <1>1, <1>2, TablesIsCount DEF BeginPeriod, BoundsOK
<1>3. CASE Copy
  <2> DEFINE s == node[view.index]
  <2>1. view.index \in Nodes
    BY <1>3 DEF Copy, StatsInv, ViewOK
  <2>2. s.total \in Counts /\ s.current \in Counts /\ s.peak \in Counts
    BY <2>1, NodeBounds DEF statmap
  <2>3. ASSUME NEW a \in Counts
        PROVE  /\ [view.buffer EXCEPT !.total = a] \in Buffer
               /\ [view.buffer EXCEPT !.current = a] \in Buffer
               /\ [view.buffer EXCEPT !.peak = a] \in Buffer
    BY <1>1 DEF Buffer
  <2>4. periods' = periods
    BY <1>3 DEF Copy, Sees
  <2>5. CASE view.pc = "total"
    <3>1. view' = [view EXCEPT !.pc = "current", !.buffer.total = s.total]
      BY <1>3, <2>5 DEF Copy, Sees
    <3>2. view'.index = view.index /\ view'.buffer = [view.buffer EXCEPT !.total = s.total]
      BY <1>1, <3>1 DEF Views
    <3> QED
      BY <1>1, <2>2, <2>3, <2>4, <3>2 DEF BoundsOK
  <2>6. CASE view.pc = "current"
    <3>1. view' = [view EXCEPT !.pc = "peak", !.buffer.current = s.current]
      BY <1>3, <2>6 DEF Copy, Sees
    <3>2. view'.index = view.index /\ view'.buffer = [view.buffer EXCEPT !.current = s.current]
      BY <1>1, <3>1 DEF Views
    <3> QED
      BY <1>1, <2>2, <2>3, <2>4, <3>2 DEF BoundsOK
  <2>7. CASE view.pc = "peak"
    <3>1. view' = [view EXCEPT !.pc = "sametotal", !.buffer.peak = s.peak]
      BY <1>3, <2>7 DEF Copy, Sees
    <3>2. view'.index = view.index /\ view'.buffer = [view.buffer EXCEPT !.peak = s.peak]
      BY <1>1, <3>1 DEF Views
    <3> QED
      BY <1>1, <2>2, <2>3, <2>4, <3>2 DEF BoundsOK
  <2> QED
    BY <1>3, <2>5, <2>6, <2>7 DEF Copy
<1>4. CASE PrintNode
  <2>1. view.index \in Nodes
    BY <1>4 DEF PrintNode, StatsInv, ViewOK
  <2> QED
    BY <1>1, <1>4, <2>1, NodesFacts DEF PrintNode, Sees, BoundsOK, Buffer
<1>5. CASE OpenView \/ NextNode \/ Compare
  <2>1. PICK p : view' = [view EXCEPT !.pc = p] /\ periods' = periods
    BY <1>5 DEF OpenView, NextNode, Compare, Sees
  <2>2. view'.index = view.index /\ view'.buffer = view.buffer
    BY <1>1, <2>1 DEF Views
  <2> QED
    BY <1>1, <2>1, <2>2 DEF BoundsOK
<1>6. CASE UNCHANGED <<view, periods>>
  BY <1>6 DEF BoundsOK
<1>7. ASSUME NEW c \in Calls, CallStep(c) \/ \E r \in Registries : Invite(c, r)
      PROVE  UNCHANGED <<view, periods>>
  BY <1>7 DEF CallStep, Unmetered, NoTimeslot, Protect, Work, Invite
<1>8. ASSUME Create \/ Serve \/ (\E r \in Registries : Register(r)) \/ PeriodNode \/ PeriodReset
             \/ EndPeriod \/ UNCHANGED vars
      PROVE  UNCHANGED <<view, periods>>
  BY <1>8 DEF Create, Serve, Register, PeriodNode, PeriodReset, EndPeriod, vars
<1> QED
  BY <1>2, <1>3, <1>4, <1>5, <1>6, <1>7, <1>8 DEF Next

\* The type invariant of the table: no counter goes below zero or above the
\* number of calls, whatever the interleaving of statmap::update,
\* statmap::release and statmap::period.
THEOREM StatsTypeSafe == Spec => []TypeOK
<1>1. StatsInv /\ OrderInv /\ BoundsOK => TypeOK
  <2> SUFFICES ASSUME StatsInv, OrderInv, BoundsOK PROVE TypeOK
    OBVIOUS
  <2>1. node \in [Nodes -> statmap] /\ reported \in [Nodes -> Counts]
    BY NodeBounds DEF StatsInv, ShapeOK
  <2>2. call \in [Calls -> [pc : {"idle", "attach", "assign", "active", "detach", "ended"},
                            step : 0 .. 3, reg : Registries]]
    <3>1. Sources = Registries
      BY SomeRegistry DEF Sources
    <3> QED
      BY <3>1 DEF StatsInv, ShapeOK, Stages
  <2>3. view \in [pc : {"idle", "node", "total", "current", "peak", "sametotal", "samecurrent",
                        "samepeak", "print", "exit"},
                  index : 0 .. Tables + 1, buffer : Buffer]
    BY DEF StatsInv, ShapeOK, BoundsOK
  <2> QED
    BY <2>1, <2>2, <2>3 DEF StatsInv, ShapeOK, BoundsOK, TypeOK
<1>2. Spec => []BoundsOK
  BY BoundsInit, BoundsStep, StatsInvHolds, OrderInvHolds, PTL DEF Spec
<1> QED
  BY <1>1, <1>2, StatsInvHolds, OrderInvHolds, PTL
===============================================================================
