--------------------------- MODULE BackgroundProofs ---------------------------
(***************************************************************************)
(* Proofs about Background, for any slots, threads and timeouts.           *)
(***************************************************************************)
EXTENDS Background, TLAPS

LEMMA LessType ==
    ASSUME NEW t \in 0 .. Inf
    PROVE  /\ Less(t) \in 0 .. Inf
           /\ Less(t) # Inf <=> t # Inf
           /\ t # Inf => Less(t) <= t /\ t <= Less(t) + 1
           /\ t # Inf /\ t # 0 => t = Less(t) + 1
BY TimeoutsAssumption DEF Less

LEMMA Ranges == 0 \in 0 .. Inf /\ Inf \in 0 .. Inf /\ 0 \in 0 .. MaxSlack
BY TimeoutsAssumption, SlackAssumption

LEMMA InitTypeOK == Init => TypeOK
BY Ranges DEF Init, TypeOK

LEMMA StepTypeOK == TypeOK /\ [Next]_vars => TypeOK'
<1> SUFFICES ASSUME TypeOK, [Next]_vars PROVE TypeOK'
  OBVIOUS
<1> USE DEF TypeOK
<1>1. CASE UNCHANGED vars
  BY <1>1 DEF vars
<1>2. CASE Start \/ NotifySelf \/ EndScan \/ Automatic \/ Exit
  BY <1>2, Ranges DEF Start, NotifySelf, EndScan, Automatic, Exit
<1>3. CASE Top
  BY <1>3, Ranges DEF Top, BeginScan
<1>4. CASE Wake
  BY <1>4, Ranges DEF Wake, BeginScan
<1>5. ASSUME NEW s \in Slots, Visit(s) PROVE TypeOK'
  <2>1. CASE timer[s] = 0
    <3>1. PICK d \in Timeouts \cup {Inf} :
             timer' = [timer EXCEPT ![s] = d] /\ pc' = IF d = Inf THEN "scan" ELSE "notify"
      BY <1>5, <2>1 DEF Visit
    <3>2. d \in 0 .. Inf
      BY TimeoutsAssumption
    <3> QED
      BY <1>5, <2>1, <3>1, <3>2 DEF Visit
  <2>2. CASE timer[s] # 0
    BY <1>5, <2>2 DEF Visit
  <2> QED
    BY <2>1, <2>2
<1>6. ASSUME NEW a \in Armers, TakeEvent(a) \/ Notify(a) \/ EndEvent(a) PROVE TypeOK'
  <2>1. arming' \in [Armers -> Slots \cup {NoSlot}] /\ handling' \in SUBSET Armers
    BY <1>6 DEF TakeEvent, Notify, EndEvent
  <2> QED
    BY <1>6, <2>1 DEF TakeEvent, Notify, EndEvent
<1>7. ASSUME NEW a \in Armers, NEW s \in Slots, NEW d \in Timeouts, Arm(a, s, d) PROVE TypeOK'
  <2>1. d \in 0 .. Inf
    BY TimeoutsAssumption
  <2> QED
    BY <1>7, <2>1 DEF Arm
<1>8. ASSUME NEW s \in Slots, Disarm(s) PROVE TypeOK'
  BY <1>8, Ranges DEF Disarm
<1>9. CASE Shutdown \/ ShutdownNotify \/ ShutdownReturns
  BY <1>9 DEF Shutdown, ShutdownNotify, ShutdownReturns
<1>10. CASE Tick
  <2>1. timer' \in [Slots -> 0 .. Inf] /\ expires' \in 0 .. Inf
    BY <1>10, LessType DEF Tick
  <2>2. slack' \in 0 .. MaxSlack
    BY <1>10, SlackAssumption DEF Tick
  <2> QED
    BY <1>10, <2>1, <2>2 DEF Tick
<1> QED
  BY <1>1, <1>2, <1>3, <1>4, <1>5, <1>6, <1>7, <1>8, <1>9, <1>10 DEF Next, Run

\* The variables of the background thread and of shutdown() keep their types
\* and ranges: no timer leaves 0 .. Timer::inf.
THEOREM BackgroundTypeCorrect == Spec => []TypeOK
BY InitTypeOK, StepTypeOK, PTL DEF Spec

-------------------------------------------------------------------------------
\* Before the thread has started, no scan is planned.
StartOK == pc = "start" => expires = Inf

TimerInv == TypeOK /\ StartOK /\ NoTimerOverlooked

\* A step that arms no slot, moves no timer and takes no signal, and that
\* neither begins nor ends a scan, overlooks nothing.
LEMMA NoticedFrame ==
    ASSUME NoTimerOverlooked, signalled => signalled', pc' = pc, tovisit' = tovisit,
           timeout' = timeout, expires' = expires, slack' = slack,
           \A s \in Slots : timer'[s] \in {timer[s], Inf},
           \A a \in Armers : arming[a] \in Slots => arming'[a] = arming[a] \/ signalled'
    PROVE  NoTimerOverlooked'
<1> SUFFICES ASSUME NEW s \in Slots, timer'[s] # Inf PROVE Noticed(s)'
  BY DEF NoTimerOverlooked
<1>1. timer'[s] = timer[s] /\ Noticed(s)
  BY DEF NoTimerOverlooked
<1>2. CASE \E a \in Armers : arming[a] = s
  BY <1>2 DEF Noticed
<1>3. CASE ~ \E a \in Armers : arming[a] = s
  BY <1>1, <1>3 DEF Noticed, Planned, Scanning
<1> QED
  BY <1>2, <1>3

LEMMA BeginScanInv == ASSUME TimerInv, BeginScan PROVE NoTimerOverlooked'
BY DEF TimerInv, BeginScan, NoTimerOverlooked, Noticed, Scanning

\* The thread's own steps.
LEMMA RunInv == ASSUME TimerInv, Run PROVE NoTimerOverlooked'
<1> USE DEF TimerInv
<1>1. CASE Start
  <2>1. /\ expires = Inf /\ timer' = timer /\ signalled' = signalled /\ arming' = arming
        /\ pc = "start" /\ pc' = "top"
    BY <1>1 DEF Start, StartOK
  <2> QED
    BY <2>1 DEF NoTimerOverlooked, Noticed, Planned, Scanning
<1>2. CASE Top
  <2>1. CASE BeginScan
    BY <2>1, BeginScanInv
  <2>2. CASE ~BeginScan
    <3>1. /\ pc = "top" /\ pc' \in {"wait", "exit"} /\ timer' = timer /\ expires' = expires
          /\ signalled' = signalled /\ arming' = arming /\ slack' = slack
      BY <1>2, <2>2 DEF Top
    <3> QED
      BY <3>1 DEF NoTimerOverlooked, Noticed, Planned, Scanning
  <2> QED
    BY <2>1, <2>2
<1>3. CASE Wake
  <2>1. CASE BeginScan
    BY <2>1, BeginScanInv
  <2>2. CASE ~BeginScan
    <3>1. /\ pc = "wait" /\ pc' = "automatic" /\ timer' = timer /\ expires' = expires
          /\ ~signalled /\ arming' = arming /\ slack' = slack
      BY <1>3, <2>2 DEF Wake
    <3> QED
      BY <3>1 DEF NoTimerOverlooked, Noticed, Planned, Scanning
  <2> QED
    BY <2>1, <2>2
<1>4. ASSUME NEW u \in Slots, Visit(u) PROVE NoTimerOverlooked'
  <2> SUFFICES ASSUME NEW s \in Slots, timer'[s] # Inf PROVE Noticed(s)'
    BY DEF NoTimerOverlooked
  <2>0. /\ pc = "scan" /\ tovisit' = tovisit \ {u} /\ signalled' = signalled
        /\ arming' = arming /\ slack' = slack
    BY <1>4 DEF Visit
  <2>1. CASE pc' = "notify"
    BY <2>1 DEF Noticed
  <2>2. CASE pc' # "notify" /\ timer[u] = 0
    <3>1. pc' = "scan" /\ timer'[u] = Inf /\ timeout' = timeout
          /\ \A x \in Slots : x # u => timer'[x] = timer[x]
      BY <1>4, <2>2 DEF Visit, TypeOK
    <3>2. s # u /\ timer'[s] = timer[s] /\ Noticed(s)
      BY <3>1 DEF NoTimerOverlooked
    <3> QED
      BY <3>1, <3>2, <2>0 DEF Noticed, Planned, Scanning
  <2>3. CASE timer[u] # 0
    <3>1. /\ pc' = "scan" /\ timer' = timer
          /\ timeout' = IF timer[u] < timeout THEN timer[u] ELSE timeout
      BY <1>4, <2>3, <2>0 DEF Visit
    <3>2. /\ timer[s] \in 0 .. Inf /\ timer[u] \in 0 .. Inf /\ timeout \in 0 .. Inf
          /\ slack \in Nat /\ Inf \in Nat /\ timer[s] # Inf
      BY <3>1, TimeoutsAssumption, SlackAssumption DEF TypeOK
    <3>3. Noticed(s)
      BY <3>1 DEF NoTimerOverlooked
    <3>4. CASE s = u
      <4>1. timeout' # Inf /\ timeout' <= timer[s] + slack
        BY <3>1, <3>2, <3>4
      <4> QED
        BY <4>1, <3>1, <2>0 DEF Noticed, Planned, Scanning
    <3>5. CASE s # u
      <4>1. Planned(s, timeout) => timeout' # Inf /\ timeout' <= timer[s] + slack
        BY <3>1, <3>2 DEF Planned
      <4> QED
        BY <4>1, <3>1, <3>3, <3>5, <2>0 DEF Noticed, Planned, Scanning
    <3> QED
      BY <3>4, <3>5
  <2> QED
    BY <2>1, <2>2, <2>3
<1>5. CASE NotifySelf
  BY <1>5 DEF NotifySelf, NoTimerOverlooked, Noticed
<1>6. CASE EndScan
  <2>1. /\ pc = "scan" /\ pc' = "automatic" /\ tovisit = {} /\ expires' = timeout
        /\ timer' = timer /\ signalled' = signalled /\ arming' = arming /\ slack' = slack
    BY <1>6 DEF EndScan
  <2> QED
    BY <2>1 DEF NoTimerOverlooked, Noticed, Planned, Scanning
<1>7. CASE Automatic
  <2>1. /\ pc = "automatic" /\ pc' = "top" /\ expires' = expires
        /\ timer' = timer /\ signalled' = signalled /\ arming' = arming /\ slack' = slack
    BY <1>7 DEF Automatic
  <2> QED
    BY <2>1 DEF NoTimerOverlooked, Noticed, Planned, Scanning
<1>8. CASE Exit
  BY <1>8 DEF Exit, NoTimerOverlooked, Noticed
<1> QED
  BY <1>1, <1>2, <1>3, <1>4, <1>5, <1>6, <1>7, <1>8 DEF Run

LEMMA TickInv == ASSUME TimerInv, Tick PROVE NoTimerOverlooked'
<1> USE DEF TimerInv
<1> SUFFICES ASSUME NEW s \in Slots, timer'[s] # Inf PROVE Noticed(s)'
  BY DEF NoTimerOverlooked
<1>1. /\ timer'[s] = Less(timer[s]) /\ expires' = Less(expires) /\ pc' = pc
      /\ tovisit' = tovisit /\ timeout' = timeout /\ signalled' = signalled
      /\ arming' = arming /\ slack' = IF Scanning THEN slack + 1 ELSE slack
  BY DEF Tick
<1>2. /\ timer[s] \in 0 .. Inf /\ expires \in 0 .. Inf /\ timeout \in 0 .. Inf
      /\ slack \in Nat /\ Inf \in Nat
  BY TimeoutsAssumption, SlackAssumption DEF TypeOK
<1>3. timer[s] # Inf /\ Noticed(s)
  BY <1>1, <1>2, LessType DEF NoTimerOverlooked
<1>4. timer[s] <= timer'[s] + 1 /\ timer'[s] \in 0 .. Inf
  BY <1>1, <1>2, <1>3, LessType
<1>5. CASE Scanning /\ Planned(s, timeout)
  <2>1. timeout' # Inf /\ timeout' <= timer'[s] + slack'
    BY <1>1, <1>2, <1>4, <1>5 DEF Planned
  <2> QED
    BY <2>1, <1>1, <1>5 DEF Noticed, Planned, Scanning
<1>6. CASE ~Scanning /\ Planned(s, expires)
  <2>1. expires # Inf /\ expires <= timer[s] + slack
    BY <1>6 DEF Planned
  <2>2. expires' # Inf /\ expires' \in 0 .. Inf /\ expires' <= expires
        /\ (expires # 0 => expires = expires' + 1)
    BY <2>1, <1>1, <1>2, LessType
  <2>3. expires' <= timer'[s] + slack
    <3>1. CASE expires = 0
      BY <3>1, <2>2, <1>2, <1>4
    <3>2. CASE expires # 0
      BY <3>2, <2>1, <2>2, <1>2, <1>4
    <3> QED
      BY <3>1, <3>2
  <2> QED
    BY <2>2, <2>3, <1>1, <1>6 DEF Noticed, Planned, Scanning
<1> QED
  BY <1>1, <1>3, <1>5, <1>6 DEF Noticed, Scanning

LEMMA StepTimerInv == TimerInv /\ [Next]_vars => TimerInv'
<1> SUFFICES ASSUME TimerInv, [Next]_vars PROVE TimerInv'
  OBVIOUS
<1>1. TypeOK'
  BY StepTypeOK DEF TimerInv
<1>2. StartOK'
  <2>1. CASE Run
    BY <2>1 DEF Run, Start, Top, Wake, BeginScan, Visit, NotifySelf, EndScan, Automatic, Exit,
                StartOK
  <2>2. CASE Tick
    BY <2>2 DEF Tick, StartOK, TimerInv, Less
  <2>3. CASE ~Run /\ ~Tick
    <3>1. pc' = pc /\ expires' = expires
      BY <2>3 DEF Next, vars, TakeEvent, Notify, EndEvent, Arm, Disarm, Shutdown,
                  ShutdownNotify, ShutdownReturns
    <3> QED
      BY <3>1 DEF StartOK, TimerInv
  <2> QED
    BY <2>1, <2>2, <2>3
<1>3. NoTimerOverlooked'
  <2> USE DEF TimerInv
  <2>1. CASE Run
    BY <2>1, RunInv
  <2>2. CASE Tick
    BY <2>2, TickInv
  <2>3. ASSUME NEW a \in Armers, NEW s \in Slots, NEW d \in Timeouts, Arm(a, s, d)
        PROVE  NoTimerOverlooked'
    <3> SUFFICES ASSUME NEW x \in Slots, timer'[x] # Inf PROVE Noticed(x)'
      BY DEF NoTimerOverlooked
    <3>1. /\ arming[a] = NoSlot /\ arming'[a] = s
          /\ \A b \in Armers : b # a => arming'[b] = arming[b]
          /\ \A y \in Slots : y # s => timer'[y] = timer[y]
      BY <2>3 DEF Arm, TypeOK
    <3>2. CASE x = s
      BY <3>1, <3>2 DEF Noticed
    <3>3. CASE x # s
      <4>1. timer'[x] = timer[x] /\ Noticed(x)
        BY <3>1, <3>3 DEF NoTimerOverlooked
      <4>2. \A b \in Armers : arming[b] = x => arming'[b] = x
        BY <3>1, BackgroundSlotsAssumption
      <4>3. /\ signalled' = signalled /\ pc' = pc /\ tovisit' = tovisit /\ timeout' = timeout
            /\ expires' = expires /\ slack' = slack
        BY <2>3 DEF Arm
      <4> QED
        BY <4>1, <4>2, <4>3 DEF Noticed, Planned, Scanning
    <3> QED
      BY <3>2, <3>3
  <2>4. ASSUME NEW s \in Slots, Disarm(s) PROVE NoTimerOverlooked'
    <3>1. \A x \in Slots : timer'[x] \in {timer[x], Inf}
      BY <2>4 DEF Disarm, TypeOK
    <3> QED
      BY <2>4, <3>1, NoticedFrame DEF Disarm
  <2>5. ASSUME NEW a \in Armers, TakeEvent(a) \/ Notify(a) \/ EndEvent(a)
        PROVE  NoTimerOverlooked'
    BY <2>5, NoticedFrame DEF TakeEvent, Notify, EndEvent
  <2>6. CASE Shutdown \/ ShutdownNotify \/ ShutdownReturns
    BY <2>6, NoticedFrame DEF Shutdown, ShutdownNotify, ShutdownReturns
  <2>7. CASE UNCHANGED vars
    BY <2>7, NoticedFrame DEF vars
  <2> QED
    BY <2>1, <2>2, <2>3, <2>4, <2>5, <2>6, <2>7 DEF Next
<1> QED
  BY <1>1, <1>2, <1>3 DEF TimerInv

\* For any number of slots, threads and timeouts, the background loop never
\* sleeps past the timer of a slot by more than the time its last scan took.
THEOREM TimersSafe == Spec => []NoTimerOverlooked
<1>1. Init => TimerInv
  BY InitTypeOK DEF Init, TimerInv, StartOK, NoTimerOverlooked
<1>2. TimerInv => NoTimerOverlooked
  BY DEF TimerInv
<1> QED
  BY <1>1, <1>2, StepTimerInv, PTL DEF Spec
===============================================================================
