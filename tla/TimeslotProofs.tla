---------------------------- MODULE TimeslotProofs ----------------------------
(***************************************************************************)
(* Proofs about Timeslot, for every number of slots, calls, registrations  *)
(* and hash chains.                                                        *)
(***************************************************************************)
EXTENDS Timeslot, FiniteSetTheorems, TLAPS

-------------------------------------------------------------------------------
(* Type correctness, for any number of contexts. *)

\* A thread that works on an event has the local variables that the code
\* uses there: a call id, and a slot that is not NULL.
LocalsOK ==
    \A t \in Threads :
        /\ thr[t].pc \in {"assign", "unattach", "admit", "incoming", "arm", "post"}
              => thr[t].cid \in Cids
        /\ thr[t].pc \in {"admit", "incoming", "arm", "post", "relist"}
              => thr[t].ts \in Slots

TypeInv == TypeOK /\ LocalsOK

\* A hash path computed from a call id is one of the chains.
LEMMA PathType == ASSUME NEW c \in Cids \cup {0}
                  PROVE  c % TIMESLOT_INDEX_SIZE \in Paths
BY CidsAssumption, IndexAssumption DEF Paths

\* What Timeslot::get returns is NULL or a slot whose call is in progress and
\* has the call id asked for, on the chain of that id.
LEMMA LookupResult ==
    ASSUME TypeOK, NEW c \in Cids, NEW s \in Lookup(c), s # NoSlot
    PROVE  /\ s \in Slots
           /\ slot[s].started
           /\ slot[s].cid = c
<1>1. c % TIMESLOT_INDEX_SIZE \in Paths
  BY PathType
<1>2. assigned[c % TIMESLOT_INDEX_SIZE] \subseteq Slots
  BY <1>1 DEF TypeOK
<1>3. PICK u \in Matches(c) : s = IF slot[u].started THEN u ELSE NoSlot
  BY DEF Lookup
<1> QED
  BY <1>2, <1>3 DEF Matches

\* The methods of a slot keep its members in their types.
LEMMA MethodTypes ==
    ASSUME NEW m \in SlotType
    PROVE  /\ Drop(m) \in SlotType
           /\ Disconnect(m) \in SlotType
           /\ Hangup(m) \in SlotType
           /\ Release(m) \in SlotType
           /\ \A c \in Cids : Trying(m, c) \in SlotType
           /\ \A c \in Cids, r \in Registries \cup {NoRegistry} :
                 Allocate(m, c, r) \in SlotType
<1> USE DEF SlotType, Handlers, Timers
<1>1. Drop(m) \in SlotType
  BY DEF Drop
<1>2. Disconnect(m) \in SlotType
  BY DEF Disconnect
<1>3. Hangup(m) \in SlotType
  BY <1>1 DEF Hangup
<1>4. SetIdle(Drop(m)) \in SlotType
  BY <1>1 DEF SetIdle
<1>5. Release(m) \in SlotType
  <2> DEFINE n == SetIdle(Drop(m))
  <2>1. n \in SlotType /\ n.stops + 1 \in Nat
    BY <1>4
  <2> HIDE DEF n
  <2>2. [n EXCEPT !.registry = NoRegistry, !.stops = n.stops + 1] \in SlotType
    BY <2>1
  <2> QED
    BY <2>2 DEF Release, n
<1>6. \A c \in Cids : Trying(m, c) \in SlotType
  BY DEF Trying
<1>7. ASSUME NEW c \in Cids, NEW r \in Registries \cup {NoRegistry}
      PROVE  Allocate(m, c, r) \in SlotType
  <2>1. /\ m.sequence + 1 \in Nat
        /\ (IF m.handler = "idle" THEN "release" ELSE m.handler) \in Handlers
    OBVIOUS
  <2> QED
    BY <2>1 DEF Allocate
<1> QED
  BY <1>1, <1>2, <1>3, <1>5, <1>6, <1>7

LEMMA InitTypeInv == Init => TypeInv
<1> SUFFICES ASSUME Init PROVE TypeInv
  OBVIOUS
<1>1. NewSlot \in SlotType
  BY DEF NewSlot, SlotType, Handlers, Timers
<1>2. ReadyThread \in ThreadType
  BY IndexAssumption DEF ReadyThread, ThreadType, Paths
<1>3. TypeOK
  BY <1>1, <1>2 DEF Init, TypeOK, CallStates
<1>4. LocalsOK
  BY DEF Init, LocalsOK, ReadyThread
<1> QED
  BY <1>3, <1>4 DEF TypeInv

\* Every step keeps the types and the threads' local variables.
LEMMA StepTypeInv == TypeInv /\ [Next]_vars => TypeInv'
<1> SUFFICES ASSUME TypeInv, [Next]_vars PROVE TypeInv'
  OBVIOUS
<1> USE DEF TypeInv
<1>r. ReadyThread \in ThreadType /\ ReadyThread.pc = "ready"
  BY IndexAssumption DEF ReadyThread, ThreadType, Paths
<1>b. Background \in Threads /\ Contexts \subseteq Threads
  BY DEF Threads
<1>0. ASSUME NEW t \in Threads, NEW v \in ThreadType,
             thr' = [thr EXCEPT ![t] = v],
             v.pc \in {"assign", "unattach", "admit", "incoming", "arm", "post"}
                => v.cid \in Cids,
             v.pc \in {"admit", "incoming", "arm", "post", "relist"} => v.ts \in Slots
      PROVE  thr' \in [Threads -> ThreadType] /\ LocalsOK'
  BY <1>0 DEF TypeOK, LocalsOK
<1>d. ASSUME NEW t \in Threads, Done(t)
      PROVE  thr' \in [Threads -> ThreadType] /\ LocalsOK'
  BY <1>d, <1>0, <1>r DEF Done
<1>a. ASSUME NEW c \in Cids PROVE Answered(c) \in [Cids -> Nat]
  BY DEF Answered, TypeOK
<1>f. ASSUME NEW s \in Slots PROVE Declined(s) \in [Cids -> Nat]
  <2>1. slot[s].tid \in Cids \cup {-1}
    BY DEF TypeOK, SlotType
  <2> QED
    BY <2>1 DEF Declined, TypeOK
<1>m. ASSUME NEW s \in Slots, NEW m \in SlotType, slot' = [slot EXCEPT ![s] = m]
      PROVE  slot' \in [Slots -> SlotType]
  BY <1>m DEF TypeOK
<1>x. ASSUME NEW r \in Registries \cup {NoRegistry}
      PROVE  Detach(r) \in [Registries -> Int] /\ Attach(r) \in [Registries -> Int]
  BY RegistriesAssumption DEF TypeOK, Detach, Attach
<1>rel. ASSUME NEW t \in Threads, NEW s \in Slots, ReleaseSlot(t, s)
        PROVE  TypeInv'
  <2>1. slot[s] \in SlotType /\ slot[s].cid \in Cids \cup {0}
        /\ slot[s].registry \in Registries \cup {NoRegistry}
    BY DEF TypeOK, SlotType
  <2>2. slot' \in [Slots -> SlotType]
    BY <2>1, <1>m, <1>rel, MethodTypes DEF ReleaseSlot
  <2>3. finals' \in [Cids -> Nat] /\ regActive' \in [Registries -> Int]
    BY <2>1, <1>rel, <1>f, <1>x DEF ReleaseSlot
  <2>4. thr' \in [Threads -> ThreadType] /\ LocalsOK'
    <3> DEFINE p == slot[s].cid % TIMESLOT_INDEX_SIZE
               v == [thr[t] EXCEPT !.pc = "relist", !.ts = s, !.path = p]
    <3>1. p \in Paths
      BY <2>1, PathType
    <3>2. thr[t] \in ThreadType
      BY DEF TypeOK
    <3>3. v \in ThreadType /\ v.pc = "relist" /\ v.ts = s
      BY <3>1, <3>2 DEF ThreadType
    <3>4. thr' = [thr EXCEPT ![t] = v]
      BY <1>rel DEF ReleaseSlot
    <3> QED
      BY <3>3, <3>4, <1>0
  <2> QED
    BY <2>2, <2>3, <2>4, <1>rel DEF ReleaseSlot, TypeOK
<1>1. ASSUME NEW t \in Threads, ThreadStep(t) PROVE TypeInv'
  <2>t. /\ thr[t] \in ThreadType
        /\ thr[t].registry \in Registries \cup {NoRegistry}
        /\ thr[t].path \in Paths
    BY DEF TypeOK, ThreadType
  <2>1. CASE \E s \in Slots : Assign(t, s)
    <3>1. PICK s \in Slots : Assign(t, s)
      BY <2>1
    <3>2. thr[t].cid \in Cids /\ slot[s] \in SlotType
      BY <3>1 DEF TypeOK, LocalsOK, Assign
    <3>3. slot' \in [Slots -> SlotType]
      BY <3>1, <3>2, <2>t, <1>m, MethodTypes DEF Assign
    <3>4. thr' \in [Threads -> ThreadType] /\ LocalsOK'
      <4> DEFINE v == [thr[t] EXCEPT !.pc = "admit", !.ts = s]
      <4>1. v \in ThreadType /\ v.pc = "admit" /\ v.ts = s /\ v.cid = thr[t].cid
        BY <2>t DEF ThreadType
      <4>2. thr' = [thr EXCEPT ![t] = v]
        BY <3>1 DEF Assign
      <4> QED
        BY <4>1, <4>2, <3>2, <1>0
    <3>5. assigned' \in [Paths -> SUBSET Slots]
      <4>1. thr[t].cid % TIMESLOT_INDEX_SIZE \in Paths
        BY <3>2, PathType
      <4> QED
        BY <3>1, <4>1 DEF Assign, TypeOK
    <3> QED
      BY <3>1, <3>2, <3>3, <3>4, <3>5 DEF Assign, TypeOK
  <2>2. CASE AssignFails(t)
    <3> DEFINE v == [thr[t] EXCEPT !.pc = "unattach"]
    <3>1. v \in ThreadType /\ v.pc = "unattach" /\ v.cid = thr[t].cid
      BY <2>t DEF ThreadType
    <3>2. thr[t].cid \in Cids /\ thr' = [thr EXCEPT ![t] = v]
      BY <2>2 DEF AssignFails, LocalsOK
    <3>3. thr' \in [Threads -> ThreadType] /\ LocalsOK'
      BY <3>1, <3>2, <1>0
    <3> QED
      BY <3>3, <2>2 DEF AssignFails, TypeOK
  <2>3. CASE Unattach(t)
    <3>1. thr[t].cid \in Cids
      BY <2>3 DEF Unattach, LocalsOK
    <3> QED
      BY <3>1, <2>3, <2>t, <1>d, <1>a, <1>x DEF Unattach, TypeOK
  <2>4. CASE Challenge(t)
    <3>1. thr[t].cid \in Cids
      BY <2>4 DEF Challenge, LocalsOK
    <3> QED
      BY <3>1, <2>4, <1>d, <1>a DEF Challenge, TypeOK
  <2>5. CASE StartIncoming(t)
    <3>1. thr[t].cid \in Cids /\ thr[t].ts \in Slots
      BY <2>5 DEF StartIncoming, LocalsOK
    <3>2. slot' \in [Slots -> SlotType]
      <4>1. slot[thr[t].ts] \in SlotType
        BY <3>1 DEF TypeOK
      <4> QED
        BY <2>5, <3>1, <4>1, <1>m, MethodTypes DEF StartIncoming
    <3> DEFINE v == [thr[t] EXCEPT !.pc = "incoming"]
    <3>3. v \in ThreadType /\ v.pc = "incoming" /\ v.cid = thr[t].cid /\ v.ts = thr[t].ts
      BY <2>t DEF ThreadType
    <3>4. thr' = [thr EXCEPT ![t] = v]
      BY <2>5 DEF StartIncoming
    <3>5. thr' \in [Threads -> ThreadType] /\ LocalsOK'
      BY <3>1, <3>3, <3>4, <1>0
    <3> QED
      BY <3>2, <3>5, <2>5 DEF StartIncoming, TypeOK
  <2>6. CASE RefuseIncoming(t)
    <3>1. thr[t].cid \in Cids
      BY <2>6 DEF RefuseIncoming, LocalsOK
    <3> QED
      BY <3>1, <2>6, <1>d, <1>a DEF RefuseIncoming, TypeOK
  <2>7. CASE SetScripting(t)
    <3>1. thr[t].cid \in Cids /\ thr[t].ts \in Slots
      BY <2>7 DEF SetScripting, LocalsOK
    <3>2. slot' \in [Slots -> SlotType]
      <4> DEFINE m == [slot[thr[t].ts] EXCEPT !.handler = "script"]
      <4>1. slot[thr[t].ts] \in SlotType
        BY <3>1 DEF TypeOK
      <4>2. m \in SlotType
        BY <4>1 DEF SlotType, Handlers
      <4> QED
        BY <2>7, <3>1, <4>2, <1>m DEF SetScripting
    <3> DEFINE v == [thr[t] EXCEPT !.pc = "arm"]
    <3>3. v \in ThreadType /\ v.pc = "arm" /\ v.cid = thr[t].cid /\ v.ts = thr[t].ts
      BY <2>t DEF ThreadType
    <3>4. thr' = [thr EXCEPT ![t] = v]
      BY <2>7 DEF SetScripting
    <3>5. thr' \in [Threads -> ThreadType] /\ LocalsOK'
      BY <3>1, <3>3, <3>4, <1>0
    <3> QED
      BY <3>2, <3>5, <2>7 DEF SetScripting, TypeOK
  <2>8. CASE ArmStepping(t)
    <3>1. thr[t].ts \in Slots
      BY <2>8 DEF ArmStepping, LocalsOK
    <3>2. slot' \in [Slots -> SlotType]
      <4> DEFINE m == [slot[thr[t].ts] EXCEPT !.timer = "step"]
      <4>1. slot[thr[t].ts] \in SlotType
        BY <3>1 DEF TypeOK
      <4>2. m \in SlotType
        BY <4>1 DEF SlotType, Timers
      <4> QED
        BY <2>8, <3>1, <4>2, <1>m DEF ArmStepping
    <3> QED
      BY <3>2, <2>8, <1>d DEF ArmStepping, TypeOK
  <2>9. CASE PostDrop(t)
    <3>1. thr[t].ts \in Slots /\ slot[thr[t].ts] \in SlotType
      BY <2>9 DEF PostDrop, LocalsOK, TypeOK
    <3>2. slot' \in [Slots -> SlotType]
      <4>1. Disconnect(slot[thr[t].ts]) \in SlotType
        BY <3>1, MethodTypes
      <4> QED
        BY <2>9, <3>1, <4>1, <1>m DEF PostDrop, TypeOK
    <3> QED
      BY <3>2, <2>9, <1>d DEF PostDrop, TypeOK
  <2>10. CASE PostRelease(t)
    <3>1. thr[t].ts \in Slots /\ ReleaseSlot(t, thr[t].ts)
      BY <2>10 DEF PostRelease, LocalsOK
    <3> QED
      BY <3>1, <1>rel
  <2>11. CASE PostReleaseRejected(t)
    BY <2>11, <1>d DEF PostReleaseRejected, TypeOK
  <2>12. CASE Relist(t)
    <3>1. thr[t].ts \in Slots
      BY <2>12 DEF Relist, LocalsOK
    <3> QED
      BY <3>1, <2>12, <2>t, <1>d DEF Relist, TypeOK
  <2> QED
    BY <1>1, <2>1, <2>2, <2>3, <2>4, <2>5, <2>6, <2>7, <2>8, <2>9, <2>10, <2>11,
       <2>12 DEF ThreadStep
<1>2. ASSUME NEW t \in Contexts, NEW c \in Cids, NextEvent(t, c) PROVE TypeInv'
  <2>t. t \in Threads /\ thr[t] \in ThreadType
    BY <1>b DEF TypeOK
  <2>1. CASE RefuseInvite(t, c)
    BY <2>1, <1>a DEF RefuseInvite, NewCall, TypeOK, CallStates, LocalsOK
  <2>2. CASE \E r \in Registries : Invite(t, c, r)
    <3>1. PICK r \in Registries : Invite(t, c, r)
      BY <2>2
    <3>2. call' \in [Cids -> CallStates]
      BY <3>1 DEF Invite, NewCall, TypeOK, CallStates
    <3>3. CASE CanAttach(r)
      <4> DEFINE v == [thr[t] EXCEPT !.pc = "assign", !.cid = c, !.registry = r]
      <4>1. v \in ThreadType /\ v.pc = "assign" /\ v.cid = c
        BY <2>t DEF ThreadType
      <4>2. thr' = [thr EXCEPT ![t] = v]
        BY <3>1, <3>3 DEF Invite
      <4>3. thr' \in [Threads -> ThreadType] /\ LocalsOK'
        BY <2>t, <4>1, <4>2, <1>0
      <4> QED
        BY <3>1, <3>2, <3>3, <4>3, <1>x DEF Invite, NewCall, TypeOK
    <3>4. CASE ~CanAttach(r)
      BY <3>1, <3>2, <3>4, <1>a DEF Invite, NewCall, TypeOK, LocalsOK
    <3> QED
      BY <3>3, <3>4
  <2>3. ASSUME NEW e \in {"DROP", "RELEASE"}, Fetch(t, c, e),
               call' \in [Cids -> CallStates]
        PROVE  TypeInv'
    <3>1. PICK s \in Lookup(c) :
             thr' = IF s = NoSlot THEN thr
                    ELSE [thr EXCEPT ![t].pc = "post", ![t].cid = c,
                                     ![t].event = e, ![t].ts = s]
      BY <2>3 DEF Fetch
    <3>2. CASE s = NoSlot
      BY <3>1, <3>2, <2>3 DEF Fetch, TypeOK, LocalsOK
    <3>3. CASE s # NoSlot
      <4>1. s \in Slots
        BY <3>3, LookupResult
      <4> DEFINE v == [thr[t] EXCEPT !.pc = "post", !.cid = c, !.event = e, !.ts = s]
      <4>2. v \in ThreadType /\ v.pc = "post" /\ v.cid = c /\ v.ts = s
        BY <2>t, <4>1 DEF ThreadType
      <4>3. thr' = [thr EXCEPT ![t] = v]
        BY <3>1, <3>3
      <4>4. thr' \in [Threads -> ThreadType] /\ LocalsOK'
        BY <2>t, <4>1, <4>2, <4>3, <1>0
      <4> QED
        BY <4>4, <2>3 DEF Fetch, TypeOK
    <3> QED
      BY <3>2, <3>3
  <2>4. CASE CallClosed(t, c)
    BY <2>4, <2>3 DEF CallClosed, TypeOK, CallStates
  <2>5. CASE ByeMessage(t, c)
    BY <2>5, <2>3 DEF ByeMessage, TypeOK
  <2>6. CASE CallReleased(t, c)
    BY <2>6, <2>3 DEF CallReleased, TypeOK, CallStates
  <2> QED
    BY <1>2, <2>1, <2>2, <2>4, <2>5, <2>6 DEF NextEvent
<1>3. ASSUME NEW s \in Slots, Timeout(s) \/ ControlHangup(s) PROVE TypeInv'
  <2>s. slot[s] \in SlotType
    BY DEF TypeOK
  <2>1. CASE StepScript(s)
    <3>1. [slot[s] EXCEPT !.timer = "step"] \in SlotType
      BY <2>s DEF SlotType, Timers
    <3> QED
      BY <2>1, <3>1, <1>m DEF StepScript, TypeOK, LocalsOK
  <2>2. CASE EndScript(s)
    BY <2>2, <2>s, <1>m, <1>f, MethodTypes DEF EndScript, TypeOK, LocalsOK
  <2>3. CASE TimeoutRelease(s)
    BY <2>3, <1>b, <1>rel DEF TimeoutRelease
  <2>4. CASE ControlHangup(s)
    BY <2>4, <2>s, <1>m, <1>f, MethodTypes DEF ControlHangup, TypeOK, LocalsOK
  <2> QED
    BY <1>3, <2>1, <2>2, <2>3, <2>4 DEF Timeout
<1>4. CASE UNCHANGED vars
  BY <1>4 DEF vars, TypeOK, LocalsOK
<1> QED
  BY <1>1, <1>2, <1>3, <1>4 DEF Next

\* Every variable keeps its type, and no thread ever works with a NULL slot
\* or without a call id, for any number of SIP contexts.
THEOREM TypeCorrect == Spec => []TypeOK
<1>1. Spec => []TypeInv
  BY InitTypeInv, StepTypeInv, PTL DEF Spec
<1>2. TypeInv => TypeOK
  BY DEF TypeInv
<1> QED
  BY <1>1, <1>2, PTL

-------------------------------------------------------------------------------
(***************************************************************************)
(* The lists, the billing records and the delivery of events, for a server *)
(* with one SIP context.                                                   *)
(***************************************************************************)

\* A slot without a call is as the constructor left it, but for its call id
\* and its billing records; one with a call is on no free list.
SlotsOK ==
    \A s \in Slots :
        /\ ~slot[s].started =>
              /\ slot[s].handler = "idle"
              /\ slot[s].timer = "inf"
              /\ slot[s].registry = NoRegistry
        /\ slot[s].started =>
              /\ slot[s].handler # "idle"
              /\ s \notin timeslots
              /\ slot[s].registry \in Registries
              /\ slot[s].cid \in served
        /\ slot[s].sequence = slot[s].stops + (IF slot[s].started THEN 1 ELSE 0)

\* A slot is on the hash chain of its call id until it is free.
ChainsOK ==
    \A s \in Slots, p \in Paths :
        s \in assigned[p] <=> s \notin timeslots /\ p = slot[s].cid % TIMESLOT_INDEX_SIZE

\* What a thread knows of the slot it works on.  No other thread takes the
\* slot away while the call is being admitted: its timer is not armed, or is
\* armed for longer than incoming() takes.
ThreadOK(t) ==
    /\ thr[t].pc = "relist" =>
          /\ ~slot[thr[t].ts].started
          /\ thr[t].ts \notin timeslots
          /\ thr[t].path = slot[thr[t].ts].cid % TIMESLOT_INDEX_SIZE
    /\ thr[t].pc \in {"admit", "incoming", "arm"} => Carries(thr[t].ts, thr[t].cid)
    /\ thr[t].pc = "admit" => slot[thr[t].ts].timer = "inf"
    /\ thr[t].pc \in {"admit", "incoming"} => slot[thr[t].ts].handler = "release"
    /\ thr[t].pc \in {"incoming", "arm"} => slot[thr[t].ts].timer # "step"
    /\ thr[t].pc \in {"assign", "unattach"} =>
          /\ thr[t].cid \notin served
          /\ call[thr[t].cid] # "none"
          /\ thr[t].registry \in Registries
    /\ thr[t].pc = "post" =>
          (slot[thr[t].ts].started => slot[thr[t].ts].cid = thr[t].cid)
    /\ t = Background => thr[t].pc \in {"ready", "relist"}

ThreadsOK == \A t \in Threads : ThreadOK(t)

\* A slot that is neither busy nor free is being returned, by one thread.
ReturnsOK ==
    /\ \A s \in Slots : ~slot[s].started /\ s \notin timeslots
          => \E t \in Threads : Relisting(t, s)
    /\ \A t, u \in Threads :
          thr[t].pc = "relist" /\ thr[u].pc = "relist" /\ thr[t].ts = thr[u].ts => t = u

\* A call has one slot, and is known to the library.
CallsOK ==
    /\ \A s, u \in Slots :
          slot[s].started /\ slot[u].started /\ slot[s].cid = slot[u].cid => s = u
    /\ \A c \in served : call[c] # "none"

PoolInv == SlotsOK /\ ChainsOK /\ ThreadsOK /\ ReturnsOK /\ CallsOK

Inv == TypeInv /\ PoolInv

OneContext == \A t, u \in Contexts : t = u

\* The members that each method changes, and those it leaves alone.
LEMMA MethodMembers ==
    ASSUME NEW m \in SlotType
    PROVE  /\ /\ Release(m).handler = "idle"
              /\ ~Release(m).started
              /\ Release(m).timer = "inf"
              /\ Release(m).registry = NoRegistry
              /\ Release(m).cid = m.cid
              /\ Release(m).sequence = m.sequence
              /\ Release(m).stops = m.stops + 1
           /\ \A h \in {Hangup(m), Disconnect(m)} :
                 /\ h.handler = "release"
                 /\ h.started = m.started
                 /\ h.timer = "inf"
                 /\ h.registry = m.registry
                 /\ h.cid = m.cid
                 /\ h.sequence = m.sequence
                 /\ h.stops = m.stops
           /\ \A c \in Cids :
                 /\ Trying(m, c).handler = m.handler
                 /\ Trying(m, c).started = m.started
                 /\ Trying(m, c).timer = "trying"
                 /\ Trying(m, c).registry = m.registry
                 /\ Trying(m, c).cid = m.cid
                 /\ Trying(m, c).sequence = m.sequence
                 /\ Trying(m, c).stops = m.stops
           /\ \A c \in Cids, r \in Registries :
                 /\ Allocate(m, c, r).handler
                       = IF m.handler = "idle" THEN "release" ELSE m.handler
                 /\ Allocate(m, c, r).started
                 /\ Allocate(m, c, r).timer = m.timer
                 /\ Allocate(m, c, r).registry = r
                 /\ Allocate(m, c, r).cid = c
                 /\ Allocate(m, c, r).sequence = m.sequence + 1
                 /\ Allocate(m, c, r).stops = m.stops
BY DEF SlotType, Release, SetIdle, Drop, Hangup, Disconnect, Trying, Allocate

LEMMA InitPoolInv == Init => PoolInv
<1> SUFFICES ASSUME Init PROVE PoolInv
  OBVIOUS
<1>1. SlotsOK
  BY DEF Init, SlotsOK, NewSlot
<1>2. ChainsOK
  BY DEF Init, ChainsOK
<1>3. ThreadsOK
  BY DEF Init, ThreadsOK, ThreadOK, ReadyThread
<1>4. ReturnsOK
  BY DEF Init, ReturnsOK, ReadyThread
<1>5. CallsOK
  BY DEF Init, CallsOK, NewSlot
<1> QED
  BY <1>1, <1>2, <1>3, <1>4, <1>5 DEF PoolInv

\* A thread that does not move knows what it knew, if the slot it works on is
\* left alone and nobody serves the call it is about to serve.
LEMMA ThreadFrame ==
    ASSUME TypeInv, NEW u \in Threads, ThreadOK(u), thr'[u] = thr[u],
           thr[u].pc \in {"admit", "incoming", "arm", "post", "relist"} =>
              /\ slot'[thr[u].ts] = slot[thr[u].ts]
              /\ thr[u].ts \in timeslots' => thr[u].ts \in timeslots,
           thr[u].pc \in {"assign", "unattach"} =>
              /\ thr[u].cid \in served' => thr[u].cid \in served
              /\ call[thr[u].cid] # "none" => call'[thr[u].cid] # "none"
    PROVE  ThreadOK(u)'
<1>1. thr[u].pc = "relist" =>
         /\ ~slot'[thr'[u].ts].started
         /\ thr'[u].ts \notin timeslots'
         /\ thr'[u].path = slot'[thr'[u].ts].cid % TIMESLOT_INDEX_SIZE
  BY DEF ThreadOK
<1>2. thr[u].pc \in {"admit", "incoming", "arm"} => Carries(thr[u].ts, thr[u].cid)'
  BY DEF ThreadOK, Carries
<1>3. /\ thr[u].pc = "admit" => slot'[thr'[u].ts].timer = "inf"
      /\ thr[u].pc \in {"admit", "incoming"} => slot'[thr'[u].ts].handler = "release"
      /\ thr[u].pc \in {"incoming", "arm"} => slot'[thr'[u].ts].timer # "step"
      /\ thr[u].pc = "post" =>
            (slot'[thr'[u].ts].started => slot'[thr'[u].ts].cid = thr'[u].cid)
  BY DEF ThreadOK
<1>4. thr[u].pc \in {"assign", "unattach"} =>
         /\ thr'[u].cid \notin served'
         /\ call'[thr'[u].cid] # "none"
         /\ thr'[u].registry \in Registries
  BY DEF ThreadOK
<1>5. u = Background => thr'[u].pc \in {"ready", "relist"}
  BY DEF ThreadOK
<1> QED
  BY <1>1, <1>2, <1>3, <1>4, <1>5 DEF ThreadOK, Carries

\* The step that returns a slot under its mutex, by thread t.
LEMMA ReleaseSlotPoolInv ==
    ASSUME OneContext, Inv, NEW t \in Threads, NEW s \in Slots, ReleaseSlot(t, s),
           slot[s].handler # "idle",
           thr[t].pc \in {"ready", "post"},
           \A u \in Threads : thr[u].pc \in {"admit", "incoming", "arm"} => thr[u].ts # s
    PROVE  PoolInv'
<1> USE DEF Inv, TypeInv, PoolInv
<1>1. slot[s] \in SlotType /\ thr[t] \in ThreadType
  BY DEF TypeOK
<1>2. slot[s].started
  BY DEF SlotsOK
<1>3. timeslots' = timeslots /\ assigned' = assigned /\ call' = call /\ served' = served
  BY DEF ReleaseSlot
<1>4. /\ slot'[s].handler = "idle" /\ ~slot'[s].started /\ slot'[s].timer = "inf"
      /\ slot'[s].registry = NoRegistry /\ slot'[s].cid = slot[s].cid
      /\ slot'[s].sequence = slot[s].sequence /\ slot'[s].stops = slot[s].stops + 1
      /\ \A u \in Slots : u # s => slot'[u] = slot[u]
  BY <1>1, MethodMembers DEF TypeOK, ReleaseSlot
<1>5. /\ thr'[t].pc = "relist" /\ thr'[t].ts = s
      /\ thr'[t].path = slot[s].cid % TIMESLOT_INDEX_SIZE
      /\ \A u \in Threads : u # t => thr'[u] = thr[u]
  BY <1>1 DEF TypeOK, ThreadType, ReleaseSlot
<1>6. s \notin timeslots
  BY <1>2 DEF SlotsOK
<1>7. SlotsOK'
  <2>1. slot[s].sequence = slot[s].stops + 1 /\ slot[s].stops \in Nat
    BY <1>1, <1>2 DEF SlotsOK, SlotType
  <2> QED
    BY <1>3, <1>4, <2>1 DEF SlotsOK
<1>8. ChainsOK'
  BY <1>3, <1>4 DEF ChainsOK
<1>9. ThreadsOK'
  <2> SUFFICES ASSUME NEW u \in Threads PROVE ThreadOK(u)'
    BY DEF ThreadsOK
  <2>0. ThreadOK(u)
    BY DEF ThreadsOK
  <2>1. CASE u = t
    BY <2>0, <2>1, <1>3, <1>4, <1>5, <1>6 DEF ThreadOK, Carries
  <2>2. CASE u # t /\ thr[u].ts # s
    <3>1. thr[u].pc \in {"admit", "incoming", "arm", "post", "relist"}
             => slot'[thr[u].ts] = slot[thr[u].ts]
      BY <2>2, <1>4 DEF LocalsOK
    <3> QED
      BY <3>1, <2>0, <2>2, <1>3, <1>5, ThreadFrame
  <2>3. CASE u # t /\ thr[u].ts = s
    <3>1. thr[u].pc \notin {"admit", "incoming", "arm", "relist"} /\ thr'[u] = thr[u]
      BY <2>0, <2>3, <1>2, <1>5 DEF ThreadOK
    <3>2. CASE thr[u].pc = "post"
      BY <3>1, <3>2, <2>0, <2>3, <1>4 DEF ThreadOK
    <3>3. CASE thr[u].pc # "post"
      BY <3>1, <3>3, <2>0, <1>3, ThreadFrame
    <3> QED
      BY <3>2, <3>3
  <2> QED
    BY <2>1, <2>2, <2>3
<1>10. ReturnsOK'
  <2>1. ASSUME NEW u \in Slots, ~slot'[u].started, u \notin timeslots'
        PROVE  \E v \in Threads : Relisting(v, u)'
    <3>1. CASE u = s
      BY <3>1, <1>5 DEF Relisting
    <3>2. CASE u # s
      <4>1. PICK v \in Threads : Relisting(v, u)
        BY <2>1, <3>2, <1>3, <1>4 DEF ReturnsOK
      <4>2. v # t
        BY <4>1 DEF Relisting
      <4> QED
        BY <4>1, <4>2, <1>5 DEF Relisting
    <3> QED
      BY <3>1, <3>2
  <2>2. ASSUME NEW u \in Threads, thr[u].pc = "relist" PROVE thr[u].ts # s
    BY <2>2, <1>2 DEF ThreadsOK, ThreadOK
  <2>3. ASSUME NEW u \in Threads, NEW v \in Threads, thr'[u].pc = "relist",
               thr'[v].pc = "relist", thr'[u].ts = thr'[v].ts
        PROVE  u = v
    BY <2>2, <2>3, <1>5 DEF ReturnsOK
  <2> QED
    BY <2>1, <2>3 DEF ReturnsOK
<1>11. CallsOK'
  BY <1>3, <1>4 DEF CallsOK
<1> QED
  BY <1>7, <1>8, <1>9, <1>10, <1>11

\* A step that neither starts nor ends a call, nor touches the lists.
LEMMA SameCallFrame ==
    ASSUME PoolInv,
           \A s \in Slots :
              /\ slot'[s].started = slot[s].started
              /\ slot'[s].cid = slot[s].cid
              /\ slot'[s].registry = slot[s].registry
              /\ slot'[s].sequence = slot[s].sequence
              /\ slot'[s].stops = slot[s].stops
              /\ slot[s].started => slot'[s].handler # "idle"
              /\ ~slot[s].started => slot'[s] = slot[s],
           timeslots' = timeslots, assigned' = assigned, served' = served,
           \A c \in Cids : call[c] # "none" => call'[c] # "none",
           served \subseteq Cids
    PROVE  SlotsOK' /\ ChainsOK' /\ CallsOK'
<1> USE DEF PoolInv
<1>1. SlotsOK'
  BY DEF SlotsOK
<1>2. ChainsOK'
  BY DEF ChainsOK
<1>3. CallsOK'
  BY DEF CallsOK
<1> QED
  BY <1>1, <1>2, <1>3

\* A step in which no thread starts or ends returning a slot.
LEMMA ReturnsFrame ==
    ASSUME PoolInv, timeslots' = timeslots,
           \A s \in Slots : slot'[s].started = slot[s].started,
           \A t \in Threads : thr'[t].pc = "relist" <=> thr[t].pc = "relist",
           \A t \in Threads : thr[t].pc = "relist" => thr'[t].ts = thr[t].ts
    PROVE  ReturnsOK'
BY DEF PoolInv, ReturnsOK, Relisting

\* With one context, a context's thread that works on a call is alone: the
\* other threads are the background thread, ready or returning another slot.
LEMMA Alone ==
    ASSUME OneContext, PoolInv, NEW t \in Contexts, NEW u \in Threads, u # t
    PROVE  thr[u].pc \in {"ready", "relist"}
BY DEF OneContext, Threads, PoolInv, ThreadsOK, ThreadOK

\* A step of one context's thread that changes its own slot at most, where
\* that slot has a call: the background thread knows what it knew.
LEMMA OthersFrame ==
    ASSUME OneContext, Inv, NEW t \in Contexts, NEW s \in Slots,
           slot[s].started,
           timeslots' = timeslots,
           \A x \in Slots : x # s => slot'[x] = slot[x],
           NEW u \in Threads, u # t, thr'[u] = thr[u]
    PROVE  ThreadOK(u)'
<1> USE DEF Inv, TypeInv, PoolInv
<1>1. ThreadOK(u)
  BY DEF ThreadsOK
<1>2. thr[u].pc \in {"ready", "relist"}
  BY Alone
<1>3. thr[u].pc = "relist" => thr[u].ts \in Slots /\ thr[u].ts # s
  BY <1>1 DEF ThreadOK, LocalsOK
<1>4. thr[u].pc = "relist" => slot'[thr[u].ts] = slot[thr[u].ts]
  BY <1>3
<1> QED
  BY <1>1, <1>2, <1>4, ThreadFrame

\* The same when no slot changes.
LEMMA OthersFrameNoSlot ==
    ASSUME OneContext, Inv, NEW t \in Contexts, slot' = slot, timeslots' = timeslots,
           NEW u \in Threads, u # t, thr'[u] = thr[u]
    PROVE  ThreadOK(u)'
<1> USE DEF Inv, PoolInv
<1>1. ThreadOK(u)
  BY DEF ThreadsOK
<1>2. thr[u].pc \in {"ready", "relist"}
  BY Alone
<1> QED
  BY <1>1, <1>2, ThreadFrame

\* A thread that is ready for the next event knows nothing of any slot.
LEMMA ReadyOK == ASSUME NEW t \in Threads, thr'[t].pc = "ready" PROVE ThreadOK(t)'
BY DEF ThreadOK

\* The steps of thread::invite and Timeslot::post by the thread of a context.
LEMMA ContextStepPoolInv ==
    ASSUME OneContext, Inv, NEW t \in Contexts, ThreadStep(t), ~Relist(t)
    PROVE  PoolInv'
<1> USE DEF Inv, TypeInv
<1>t. t \in Threads /\ thr[t] \in ThreadType /\ ThreadOK(t) /\ t # Background
  BY ContextsAssumption DEF Threads, TypeOK, PoolInv, ThreadsOK
<1>c. served \subseteq Cids
  BY DEF TypeOK
<1>d. ASSUME Done(t)
      PROVE  /\ thr'[t].pc = "ready"
             /\ \A u \in Threads : u # t => thr'[u] = thr[u]
  BY <1>d, <1>t DEF Done, ReadyThread, TypeOK
<1>n. ASSUME Done(t), slot' = slot, timeslots' = timeslots, assigned' = assigned,
             served' = served, call' = call, thr[t].pc # "relist"
      PROVE  PoolInv'
  <2>1. SlotsOK' /\ ChainsOK' /\ CallsOK'
    BY <1>n, <1>c, SameCallFrame DEF PoolInv, SlotsOK
  <2>2. ReturnsOK'
    BY <1>n, <1>d, ReturnsFrame
  <2>3. ThreadsOK'
    BY <1>n, <1>d, <1>t, ReadyOK, OthersFrameNoSlot DEF ThreadsOK
  <2> QED
    BY <2>1, <2>2, <2>3 DEF PoolInv
<1>1. CASE \E s \in Slots : Assign(t, s)
  <2>1. PICK s \in Slots : Assign(t, s)
    BY <1>1
  <2> DEFINE c == thr[t].cid
             r == thr[t].registry
  <2>2. /\ c \in Cids /\ c \notin served /\ call[c] # "none" /\ r \in Registries
        /\ thr[t].pc = "assign"
    BY <2>1, <1>t DEF Assign, ThreadOK, LocalsOK
  <2>3. s \in timeslots /\ ~slot[s].started /\ slot[s] \in SlotType
    BY <2>1 DEF Assign, PoolInv, SlotsOK, TypeOK
  <2>4. /\ slot[s].handler = "idle" /\ slot[s].timer = "inf"
        /\ slot[s].sequence = slot[s].stops /\ slot[s].stops \in Nat
    BY <2>3 DEF PoolInv, SlotsOK, SlotType
  <2>5. /\ slot'[s].handler = "release" /\ slot'[s].started /\ slot'[s].timer = "inf"
        /\ slot'[s].registry = r /\ slot'[s].cid = c
        /\ slot'[s].sequence = slot'[s].stops + 1
        /\ \A x \in Slots : x # s => slot'[x] = slot[x]
    <3>1. slot'[s] = Allocate(slot[s], c, r) /\ \A x \in Slots : x # s => slot'[x] = slot[x]
      BY <2>1 DEF Assign, TypeOK
    <3> QED
      BY <3>1, <2>2, <2>3, <2>4, MethodMembers
  <2>6. /\ thr'[t].pc = "admit" /\ thr'[t].ts = s /\ thr'[t].cid = c
        /\ \A u \in Threads : u # t => thr'[u] = thr[u]
    BY <2>1, <1>t DEF Assign, TypeOK, ThreadType
  <2>7. /\ timeslots' = timeslots \ {s} /\ call' = call /\ served' = served \cup {c}
    BY <2>1 DEF Assign
  <2>8. \A p \in Paths :
           assigned'[p] = IF p = c % TIMESLOT_INDEX_SIZE
                          THEN assigned[p] \cup {s} ELSE assigned[p]
    BY <2>1 DEF Assign, TypeOK
  <2> HIDE DEF c, r
  <2>9. SlotsOK'
    <3>1. c \in served' /\ served \subseteq served' /\ s \notin timeslots'
      BY <2>7
    <3>2. \A x \in Slots : x \notin timeslots => x \notin timeslots'
      BY <2>7
    <3> QED
      BY <3>1, <3>2, <2>2, <2>5 DEF PoolInv, SlotsOK
  <2>10. ChainsOK'
    <3> SUFFICES ASSUME NEW x \in Slots, NEW p \in Paths
                 PROVE  x \in assigned'[p] <=>
                        x \notin timeslots' /\ p = slot'[x].cid % TIMESLOT_INDEX_SIZE
      BY DEF ChainsOK
    <3>1. x \in assigned[p] <=> x \notin timeslots /\ p = slot[x].cid % TIMESLOT_INDEX_SIZE
      BY DEF PoolInv, ChainsOK
    <3>2. CASE x = s
      BY <3>1, <3>2, <2>3, <2>5, <2>7, <2>8
    <3>3. CASE x # s
      BY <3>1, <3>3, <2>5, <2>7, <2>8
    <3> QED
      BY <3>2, <3>3
  <2>11. ThreadsOK'
    <3>1. ThreadOK(t)'
      BY <2>5, <2>6, <1>t DEF ThreadOK, Carries
    <3>2. ASSUME NEW u \in Threads, u # t PROVE ThreadOK(u)'
      <4>1. ThreadOK(u) /\ thr[u].pc \in {"ready", "relist"}
        BY <3>2, Alone DEF PoolInv, ThreadsOK
      <4>2. thr[u].pc = "relist" => thr[u].ts \in Slots /\ thr[u].ts # s
        BY <4>1, <2>3 DEF ThreadOK, LocalsOK
      <4>3. thr[u].pc = "relist" => slot'[thr[u].ts] = slot[thr[u].ts]
        BY <4>2, <2>5
      <4> QED
        BY <3>2, <4>1, <4>3, <2>6, <2>7, ThreadFrame
    <3> QED
      BY <3>1, <3>2 DEF ThreadsOK
  <2>12. ReturnsOK'
    <3>1. ASSUME NEW x \in Slots, ~slot'[x].started, x \notin timeslots'
          PROVE  \E v \in Threads : Relisting(v, x)'
      <4>1. x # s /\ ~slot[x].started /\ x \notin timeslots
        BY <3>1, <2>5, <2>7
      <4>2. PICK v \in Threads : Relisting(v, x)
        BY <4>1 DEF PoolInv, ReturnsOK
      <4> QED
        BY <4>2, <2>2, <2>6 DEF Relisting
    <3>2. ASSUME NEW u \in Threads, NEW v \in Threads, thr'[u].pc = "relist",
                 thr'[v].pc = "relist", thr'[u].ts = thr'[v].ts
          PROVE  u = v
      BY <3>2, <2>6 DEF PoolInv, ReturnsOK
    <3> QED
      BY <3>1, <3>2 DEF ReturnsOK
  <2>13. CallsOK'
    <3>1. \A x \in Slots : slot[x].started => slot[x].cid # c
      BY <2>2 DEF PoolInv, SlotsOK
    <3> QED
      BY <3>1, <2>2, <2>5, <2>7 DEF PoolInv, CallsOK
  <2> QED
    BY <2>9, <2>10, <2>11, <2>12, <2>13 DEF PoolInv
<1>2. CASE AssignFails(t)
  <2>1. /\ thr[t].pc = "assign" /\ thr'[t].pc = "unattach"
        /\ thr'[t].cid = thr[t].cid /\ thr'[t].registry = thr[t].registry
        /\ \A u \in Threads : u # t => thr'[u] = thr[u]
    BY <1>2, <1>t DEF AssignFails, TypeOK, ThreadType
  <2>2. /\ slot' = slot /\ timeslots' = timeslots /\ assigned' = assigned
        /\ served' = served /\ call' = call
    BY <1>2 DEF AssignFails
  <2>3. SlotsOK' /\ ChainsOK' /\ CallsOK'
    BY <2>2, <1>c, SameCallFrame DEF PoolInv, SlotsOK
  <2>4. ReturnsOK'
    BY <2>1, <2>2, ReturnsFrame
  <2>5. ThreadOK(t)'
    BY <2>1, <2>2, <1>t DEF ThreadOK
  <2>6. ThreadsOK'
    BY <2>1, <2>2, <2>5, OthersFrameNoSlot DEF ThreadsOK
  <2> QED
    BY <2>3, <2>4, <2>6 DEF PoolInv
<1>3. CASE Unattach(t)
  BY <1>3, <1>n DEF Unattach
<1>4. CASE Challenge(t)
  BY <1>4, <1>n DEF Challenge
<1>6. CASE RefuseIncoming(t)
  BY <1>6, <1>n DEF RefuseIncoming
<1>11. CASE PostReleaseRejected(t)
  BY <1>11, <1>n DEF PostReleaseRejected
<1> DEFINE s == thr[t].ts
<1>s. ASSUME s \in Slots, slot[s].started,
             timeslots' = timeslots, assigned' = assigned, served' = served, call' = call,
             \A x \in Slots : x # s => slot'[x] = slot[x],
             slot'[s].started = slot[s].started, slot'[s].cid = slot[s].cid,
             slot'[s].registry = slot[s].registry,
             slot'[s].sequence = slot[s].sequence, slot'[s].stops = slot[s].stops,
             slot'[s].handler # "idle",
             thr[t].pc # "relist", thr'[t].pc # "relist",
             \A u \in Threads : u # t => thr'[u] = thr[u],
             ThreadOK(t)'
      PROVE  PoolInv'
  <2> HIDE DEF s
  <2>1. \A x \in Slots : slot'[x].started = slot[x].started
    BY <1>s
  <2>2. SlotsOK' /\ ChainsOK' /\ CallsOK'
    <3>1. ASSUME NEW x \in Slots
          PROVE  /\ slot'[x].started = slot[x].started
                 /\ slot'[x].cid = slot[x].cid
                 /\ slot'[x].registry = slot[x].registry
                 /\ slot'[x].sequence = slot[x].sequence
                 /\ slot'[x].stops = slot[x].stops
                 /\ slot[x].started => slot'[x].handler # "idle"
                 /\ ~slot[x].started => slot'[x] = slot[x]
      <4>1. CASE x = s
        BY <4>1, <1>s
      <4>2. CASE x # s
        BY <4>2, <1>s DEF PoolInv, SlotsOK
      <4> QED
        BY <4>1, <4>2
    <3> QED
      BY <3>1, <1>s, <1>c, SameCallFrame
  <2>3. ReturnsOK'
    <3>1. \A u \in Threads : thr'[u].pc = "relist" <=> thr[u].pc = "relist"
      BY <1>s
    <3>2. \A u \in Threads : thr[u].pc = "relist" => thr'[u].ts = thr[u].ts
      BY <1>s
    <3> QED
      BY <1>s, <2>1, <3>1, <3>2, ReturnsFrame
  <2>4. ThreadsOK'
    BY <1>s, OthersFrame DEF ThreadsOK
  <2> QED
    BY <2>2, <2>3, <2>4 DEF PoolInv
<1>5. CASE StartIncoming(t)
  <2>1. s \in Slots /\ thr[t].cid \in Cids /\ thr[t].pc = "admit"
    BY <1>5, <1>t DEF StartIncoming, LocalsOK
  <2>2. slot[s] \in SlotType /\ Carries(s, thr[t].cid) /\ slot[s].handler = "release"
    BY <2>1, <1>t DEF TypeOK, ThreadOK
  <2>3. slot'[s] = Trying(slot[s], thr[t].cid) /\ \A x \in Slots : x # s => slot'[x] = slot[x]
    BY <1>5, <2>1 DEF StartIncoming, TypeOK
  <2>4. /\ slot'[s].handler = "release" /\ slot'[s].started = slot[s].started
        /\ slot'[s].timer = "trying" /\ slot'[s].registry = slot[s].registry
        /\ slot'[s].cid = slot[s].cid /\ slot'[s].sequence = slot[s].sequence
        /\ slot'[s].stops = slot[s].stops
    BY <2>1, <2>2, <2>3, MethodMembers
  <2>5. /\ thr'[t].pc = "incoming" /\ thr'[t].ts = s /\ thr'[t].cid = thr[t].cid
        /\ \A u \in Threads : u # t => thr'[u] = thr[u]
    BY <1>5, <1>t DEF StartIncoming, TypeOK, ThreadType
  <2>6. ThreadOK(t)'
    BY <2>2, <2>4, <2>5, <1>t DEF ThreadOK, Carries
  <2>7. timeslots' = timeslots /\ assigned' = assigned /\ served' = served /\ call' = call
    BY <1>5 DEF StartIncoming
  <2> QED
    BY <2>1, <2>2, <2>3, <2>4, <2>5, <2>6, <2>7, <1>s DEF Carries
<1>7. CASE SetScripting(t)
  <2>1. s \in Slots /\ thr[t].pc = "incoming"
    BY <1>7, <1>t DEF SetScripting, LocalsOK
  <2>2. slot[s] \in SlotType /\ Carries(s, thr[t].cid) /\ slot[s].timer # "step"
    BY <2>1, <1>t DEF TypeOK, ThreadOK
  <2>3. /\ slot'[s] = [slot[s] EXCEPT !.handler = "script"]
        /\ \A x \in Slots : x # s => slot'[x] = slot[x]
    BY <1>7, <2>1 DEF SetScripting, TypeOK
  <2>4. /\ slot'[s].handler = "script" /\ slot'[s].started = slot[s].started
        /\ slot'[s].timer = slot[s].timer /\ slot'[s].registry = slot[s].registry
        /\ slot'[s].cid = slot[s].cid /\ slot'[s].sequence = slot[s].sequence
        /\ slot'[s].stops = slot[s].stops
    BY <2>2, <2>3 DEF SlotType
  <2>5. /\ thr'[t].pc = "arm" /\ thr'[t].ts = s /\ thr'[t].cid = thr[t].cid
        /\ \A u \in Threads : u # t => thr'[u] = thr[u]
    BY <1>7, <1>t DEF SetScripting, TypeOK, ThreadType
  <2>6. ThreadOK(t)'
    BY <2>2, <2>4, <2>5, <1>t DEF ThreadOK, Carries
  <2>7. timeslots' = timeslots /\ assigned' = assigned /\ served' = served /\ call' = call
    BY <1>7 DEF SetScripting
  <2> QED
    BY <2>1, <2>2, <2>3, <2>4, <2>5, <2>6, <2>7, <1>s DEF Carries
<1>8. CASE ArmStepping(t)
  <2>1. s \in Slots /\ thr[t].pc = "arm"
    BY <1>8, <1>t DEF ArmStepping, LocalsOK
  <2>2. slot[s] \in SlotType /\ slot[s].started /\ slot[s].handler # "idle"
    BY <2>1, <1>t DEF TypeOK, ThreadOK, Carries, PoolInv, SlotsOK
  <2>3. /\ slot'[s] = [slot[s] EXCEPT !.timer = "step"]
        /\ \A x \in Slots : x # s => slot'[x] = slot[x]
    BY <1>8, <2>1 DEF ArmStepping, TypeOK
  <2>4. /\ slot'[s].handler = slot[s].handler /\ slot'[s].started = slot[s].started
        /\ slot'[s].registry = slot[s].registry
        /\ slot'[s].cid = slot[s].cid /\ slot'[s].sequence = slot[s].sequence
        /\ slot'[s].stops = slot[s].stops
    BY <2>2, <2>3 DEF SlotType
  <2>5. thr'[t].pc = "ready" /\ \A u \in Threads : u # t => thr'[u] = thr[u]
    BY <1>8, <1>d DEF ArmStepping
  <2>6. timeslots' = timeslots /\ assigned' = assigned /\ served' = served /\ call' = call
    BY <1>8 DEF ArmStepping
  <2> QED
    BY <2>1, <2>2, <2>3, <2>4, <2>5, <2>6, <1>t, <1>s, ReadyOK
<1>9. CASE PostDrop(t)
  <2>0. /\ s \in Slots /\ thr[t].pc = "post" /\ Done(t)
        /\ timeslots' = timeslots /\ assigned' = assigned /\ served' = served /\ call' = call
    BY <1>9, <1>t DEF PostDrop, LocalsOK
  <2>1. CASE Dispatch(slot[s].handler, "DROP") # "disconnect"
    <3>1. slot' = slot
      BY <1>9, <2>1 DEF PostDrop
    <3> QED
      BY <3>1, <2>0, <1>n
  <2>2. CASE Dispatch(slot[s].handler, "DROP") = "disconnect"
    <3>1. slot[s].handler = "script" /\ slot[s] \in SlotType
      BY <2>0, <2>2 DEF Dispatch, TypeOK
    <3>2. slot[s].started
      BY <3>1, <2>0 DEF PoolInv, SlotsOK
    <3>3. slot'[s] = Disconnect(slot[s]) /\ \A x \in Slots : x # s => slot'[x] = slot[x]
      BY <1>9, <2>0, <2>2 DEF PostDrop, TypeOK
    <3>4. /\ slot'[s].handler = "release" /\ slot'[s].started = slot[s].started
          /\ slot'[s].registry = slot[s].registry
          /\ slot'[s].cid = slot[s].cid /\ slot'[s].sequence = slot[s].sequence
          /\ slot'[s].stops = slot[s].stops
      BY <3>1, <3>3, MethodMembers
    <3>5. thr'[t].pc = "ready" /\ \A u \in Threads : u # t => thr'[u] = thr[u]
      BY <2>0, <1>d
    <3> QED
      BY <3>2, <3>3, <3>4, <3>5, <2>0, <1>t, <1>s, ReadyOK
  <2> QED
    BY <2>1, <2>2
<1>10. CASE PostRelease(t)
  <2>1. s \in Slots /\ ReleaseSlot(t, s) /\ thr[t].pc = "post"
    BY <1>10, <1>t DEF PostRelease, LocalsOK
  <2>2. slot[s].handler # "idle"
    BY <1>10 DEF PostRelease, Dispatch
  <2>3. \A u \in Threads : thr[u].pc \in {"admit", "incoming", "arm"} => thr[u].ts # s
    BY <2>1, Alone
  <2> QED
    BY <2>1, <2>2, <2>3, <1>t, ReleaseSlotPoolInv
<1> QED
  BY <1>1, <1>2, <1>3, <1>4, <1>5, <1>6, <1>7, <1>8, <1>9, <1>10, <1>11 DEF ThreadStep

\* The step that puts a slot back on the free list, by either thread.
LEMMA RelistPoolInv ==
    ASSUME Inv, NEW t \in Threads, Relist(t)
    PROVE  PoolInv'
<1> USE DEF Inv, TypeInv
<1> DEFINE s == thr[t].ts
           q == thr[t].path
<1>1. thr[t].pc = "relist" /\ s \in Slots /\ q \in Paths /\ ThreadOK(t)
  BY DEF Relist, LocalsOK, TypeOK, ThreadType, PoolInv, ThreadsOK
<1>2. ~slot[s].started /\ s \notin timeslots /\ q = slot[s].cid % TIMESLOT_INDEX_SIZE
  BY <1>1 DEF ThreadOK
<1>3. /\ slot' = slot /\ call' = call /\ served' = served
      /\ timeslots' = timeslots \cup {s}
      /\ \A p \in Paths : assigned'[p] = IF p = q THEN assigned[p] \ {s} ELSE assigned[p]
      /\ thr'[t].pc = "ready" /\ \A u \in Threads : u # t => thr'[u] = thr[u]
  BY <1>1 DEF Relist, Done, ReadyThread, TypeOK
<1>4. \A u \in Threads : u # t /\ thr[u].pc = "relist" => thr[u].ts # s
  BY <1>1 DEF PoolInv, ReturnsOK
<1> HIDE DEF s, q
<1>5. SlotsOK'
  BY <1>2, <1>3 DEF PoolInv, SlotsOK
<1>6. ChainsOK'
  <2> SUFFICES ASSUME NEW x \in Slots, NEW p \in Paths
               PROVE  x \in assigned'[p] <=>
                      x \notin timeslots' /\ p = slot'[x].cid % TIMESLOT_INDEX_SIZE
    BY DEF ChainsOK
  <2>1. x \in assigned[p] <=> x \notin timeslots /\ p = slot[x].cid % TIMESLOT_INDEX_SIZE
    BY DEF PoolInv, ChainsOK
  <2>2. CASE x = s
    BY <2>1, <2>2, <1>2, <1>3
  <2>3. CASE x # s
    BY <2>1, <2>3, <1>3
  <2> QED
    BY <2>2, <2>3
<1>7. ThreadsOK'
  <2>1. ASSUME NEW u \in Threads, u # t PROVE ThreadOK(u)'
    <3>1. ThreadOK(u) /\ thr'[u] = thr[u]
      BY <2>1, <1>3 DEF PoolInv, ThreadsOK
    <3>2. CASE thr[u].pc = "relist"
      BY <3>1, <3>2, <2>1, <1>3, <1>4, ThreadFrame
    <3>3. CASE thr[u].pc # "relist"
      BY <3>1, <3>3, <1>3 DEF ThreadOK, Carries
    <3> QED
      BY <3>2, <3>3
  <2> QED
    BY <2>1, <1>3, ReadyOK DEF ThreadsOK
<1>8. ReturnsOK'
  <2>1. ASSUME NEW x \in Slots, ~slot'[x].started, x \notin timeslots'
        PROVE  \E v \in Threads : Relisting(v, x)'
    <3>1. x # s /\ ~slot[x].started /\ x \notin timeslots
      BY <2>1, <1>3
    <3>2. PICK v \in Threads : Relisting(v, x)
      BY <3>1 DEF PoolInv, ReturnsOK
    <3>3. v # t
      BY <3>1, <3>2 DEF Relisting, s
    <3> QED
      BY <3>2, <3>3, <1>3 DEF Relisting
  <2>2. ASSUME NEW u \in Threads, NEW v \in Threads, thr'[u].pc = "relist",
               thr'[v].pc = "relist", thr'[u].ts = thr'[v].ts
        PROVE  u = v
    BY <2>2, <1>3 DEF PoolInv, ReturnsOK
  <2> QED
    BY <2>1, <2>2 DEF ReturnsOK
<1>9. CallsOK'
  BY <1>3 DEF PoolInv, CallsOK
<1> QED
  BY <1>5, <1>6, <1>7, <1>8, <1>9 DEF PoolInv

\* The events that the library hands to the thread of a context.
LEMMA EventPoolInv ==
    ASSUME OneContext, Inv, NEW t \in Contexts, NEW c \in Cids, NextEvent(t, c)
    PROVE  PoolInv'
<1> USE DEF Inv, TypeInv
<1>t. t \in Threads /\ thr[t] \in ThreadType /\ ThreadOK(t) /\ t # Background
  BY ContextsAssumption DEF Threads, TypeOK, PoolInv, ThreadsOK
<1>c. served \subseteq Cids
  BY DEF TypeOK
<1>p. thr[t].pc = "ready"
  BY DEF NextEvent, RefuseInvite, Invite, NewCall, CallClosed, ByeMessage, CallReleased, Fetch
<1>u. /\ slot' = slot /\ timeslots' = timeslots /\ assigned' = assigned /\ served' = served
  BY DEF NextEvent, RefuseInvite, Invite, NewCall, CallClosed, ByeMessage, CallReleased, Fetch
<1>k. \A d \in Cids : call[d] # "none" => call'[d] # "none"
  BY DEF NextEvent, RefuseInvite, Invite, NewCall, CallClosed, ByeMessage, CallReleased,
         TypeOK
<1>f. ASSUME thr'[t].pc # "relist", \A u \in Threads : u # t => thr'[u] = thr[u],
             ThreadOK(t)'
      PROVE  PoolInv'
  <2>1. SlotsOK' /\ ChainsOK' /\ CallsOK'
    BY <1>u, <1>k, <1>c, SameCallFrame DEF PoolInv, SlotsOK
  <2>2. ReturnsOK'
    <3>1. \A u \in Threads : thr'[u].pc = "relist" <=> thr[u].pc = "relist"
      BY <1>f, <1>p
    <3>2. \A u \in Threads : thr[u].pc = "relist" => thr'[u].ts = thr[u].ts
      BY <1>f, <1>p
    <3> QED
      BY <3>1, <3>2, <1>u, ReturnsFrame
  <2>3. ThreadsOK'
    BY <1>f, <1>u, OthersFrameNoSlot DEF ThreadsOK
  <2> QED
    BY <2>1, <2>2, <2>3 DEF PoolInv
<1>1. CASE thr' = thr
  BY <1>1, <1>f, <1>p, <1>t, ReadyOK
<1>2. ASSUME NEW r \in Registries, Invite(t, c, r), CanAttach(r) PROVE PoolInv'
  <2>1. /\ thr'[t].pc = "assign" /\ thr'[t].cid = c /\ thr'[t].registry = r
        /\ \A u \in Threads : u # t => thr'[u] = thr[u]
    BY <1>2, <1>t DEF Invite, TypeOK, ThreadType
  <2>2. call[c] = "none" /\ call'[c] = "live"
    BY <1>2 DEF Invite, NewCall, TypeOK
  <2>3. c \notin served'
    BY <2>2, <1>u DEF PoolInv, CallsOK
  <2>4. ThreadOK(t)'
    BY <2>1, <2>2, <2>3, <1>t DEF ThreadOK
  <2> QED
    BY <2>1, <2>4, <1>f
<1>3. ASSUME NEW e \in {"DROP", "RELEASE"}, Fetch(t, c, e) PROVE PoolInv'
  <2>1. PICK s \in Lookup(c) :
           thr' = IF s = NoSlot THEN thr
                  ELSE [thr EXCEPT ![t].pc = "post", ![t].cid = c,
                                   ![t].event = e, ![t].ts = s]
    BY <1>3 DEF Fetch
  <2>2. CASE s = NoSlot
    BY <2>1, <2>2, <1>1
  <2>3. CASE s # NoSlot
    <3>1. s \in Slots /\ slot[s].cid = c
      BY <2>3, LookupResult
    <3>2. /\ thr'[t].pc = "post" /\ thr'[t].cid = c /\ thr'[t].ts = s
          /\ \A u \in Threads : u # t => thr'[u] = thr[u]
      BY <2>1, <2>3, <1>t DEF TypeOK, ThreadType
    <3>3. ThreadOK(t)'
      BY <3>1, <3>2, <1>t, <1>u DEF ThreadOK
    <3> QED
      BY <3>2, <3>3, <1>f
  <2> QED
    BY <2>2, <2>3
<1> QED
  BY <1>1, <1>2, <1>3 DEF NextEvent, RefuseInvite, Invite, CallClosed, ByeMessage,
                          CallReleased

\* A timer that has run out, and a hangup by the operator.
LEMMA TimeoutPoolInv ==
    ASSUME OneContext, Inv, NEW s \in Slots, Timeout(s) \/ ControlHangup(s)
    PROVE  PoolInv'
<1> USE DEF Inv, TypeInv
<1>s. slot[s] \in SlotType /\ Background \in Threads /\ served \subseteq Cids
  BY DEF TypeOK, Threads
<1>1. ASSUME slot[s].handler = "script",
             slot'[s].handler # "idle", slot'[s].started = slot[s].started,
             slot'[s].cid = slot[s].cid, slot'[s].registry = slot[s].registry,
             slot'[s].sequence = slot[s].sequence, slot'[s].stops = slot[s].stops,
             \A u \in Threads : thr[u].pc = "arm" /\ thr[u].ts = s
                => slot'[s].timer # "step",
             \A x \in Slots : x # s => slot'[x] = slot[x],
             thr' = thr, timeslots' = timeslots, assigned' = assigned,
             served' = served, call' = call
      PROVE  PoolInv'
  <2>1. slot[s].started
    BY <1>1 DEF PoolInv, SlotsOK
  <2>2. ASSUME NEW x \in Slots
        PROVE  /\ slot'[x].started = slot[x].started
               /\ slot'[x].cid = slot[x].cid
               /\ slot'[x].registry = slot[x].registry
               /\ slot'[x].sequence = slot[x].sequence
               /\ slot'[x].stops = slot[x].stops
               /\ slot[x].started => slot'[x].handler # "idle"
               /\ ~slot[x].started => slot'[x] = slot[x]
    <3>1. CASE x = s
      BY <3>1, <1>1, <2>1
    <3>2. CASE x # s
      BY <3>2, <1>1 DEF PoolInv, SlotsOK
    <3> QED
      BY <3>1, <3>2
  <2>3. SlotsOK' /\ ChainsOK' /\ CallsOK'
    BY <2>2, <1>1, <1>s, SameCallFrame
  <2>4. ReturnsOK'
    BY <2>2, <1>1, ReturnsFrame
  <2>5. ASSUME NEW u \in Threads PROVE ThreadOK(u)'
    <3>0. ThreadOK(u)
      BY DEF PoolInv, ThreadsOK
    <3>1. CASE thr[u].ts = s
      <4>1. thr[u].pc \notin {"admit", "incoming", "relist"}
        BY <3>0, <3>1, <2>1, <1>1 DEF ThreadOK
      <4>2. CASE thr[u].pc = "arm"
        BY <4>2, <3>0, <3>1, <1>1 DEF ThreadOK, Carries
      <4>3. CASE thr[u].pc = "post"
        BY <4>3, <3>0, <3>1, <1>1 DEF ThreadOK
      <4>4. CASE thr[u].pc \notin {"arm", "post"}
        BY <4>1, <4>4, <3>0, <1>1, ThreadFrame
      <4> QED
        BY <4>2, <4>3, <4>4
    <3>2. CASE thr[u].ts # s
      <4>1. thr[u].pc \in {"admit", "incoming", "arm", "post", "relist"}
               => slot'[thr[u].ts] = slot[thr[u].ts]
        BY <3>2, <1>1 DEF LocalsOK
      <4> QED
        BY <4>1, <3>0, <1>1, ThreadFrame
    <3> QED
      BY <3>1, <3>2
  <2> QED
    BY <2>3, <2>4, <2>5 DEF PoolInv, ThreadsOK
<1>2. CASE StepScript(s)
  <2>1. slot[s].handler = "script" /\ slot[s].timer # "inf"
        /\ (slot[s].timer = "trying" => ~InIncoming(s))
    BY <1>2 DEF StepScript, Expired, Dispatch
  <2>2. ASSUME NEW u \in Threads, thr[u].pc = "arm", thr[u].ts = s PROVE FALSE
    <3>1. slot[s].timer = "trying"
      BY <2>1, <2>2, <1>s DEF PoolInv, ThreadsOK, ThreadOK, SlotType, Timers
    <3>2. u \in Contexts
      BY <2>2 DEF PoolInv, ThreadsOK, ThreadOK, Threads
    <3> QED
      BY <2>1, <2>2, <3>1, <3>2 DEF InIncoming
  <2>3. /\ slot'[s] = [slot[s] EXCEPT !.timer = "step"]
        /\ \A x \in Slots : x # s => slot'[x] = slot[x]
    BY <1>2 DEF StepScript, TypeOK
  <2>4. /\ slot'[s].handler = "script" /\ slot'[s].started = slot[s].started
        /\ slot'[s].cid = slot[s].cid /\ slot'[s].registry = slot[s].registry
        /\ slot'[s].sequence = slot[s].sequence /\ slot'[s].stops = slot[s].stops
    BY <2>1, <2>3, <1>s DEF SlotType
  <2>5. /\ thr' = thr /\ timeslots' = timeslots /\ assigned' = assigned
        /\ served' = served /\ call' = call
    BY <1>2 DEF StepScript
  <2> QED
    BY <2>1, <2>2, <2>3, <2>4, <2>5, <1>1
<1>3. CASE EndScript(s) \/ ControlHangup(s)
  <2>1. slot[s].handler = "script"
    BY <1>3 DEF EndScript, ControlHangup, Expired, Dispatch
  <2>2. slot'[s] = Hangup(slot[s]) /\ \A x \in Slots : x # s => slot'[x] = slot[x]
    BY <1>3 DEF EndScript, ControlHangup, TypeOK
  <2>3. /\ slot'[s].handler = "release" /\ slot'[s].started = slot[s].started
        /\ slot'[s].cid = slot[s].cid /\ slot'[s].registry = slot[s].registry
        /\ slot'[s].sequence = slot[s].sequence /\ slot'[s].stops = slot[s].stops
        /\ slot'[s].timer = "inf"
    BY <2>2, <1>s, MethodMembers
  <2>4. /\ thr' = thr /\ timeslots' = timeslots /\ assigned' = assigned
        /\ served' = served /\ call' = call
    BY <1>3 DEF EndScript, ControlHangup
  <2> QED
    BY <2>1, <2>2, <2>3, <2>4, <1>1
<1>4. CASE TimeoutRelease(s)
  <2>1. /\ ReleaseSlot(Background, s) /\ thr[Background].pc = "ready"
        /\ slot[s].handler # "idle" /\ slot[s].handler # "script" /\ slot[s].timer # "inf"
        /\ slot[s].timer = "trying" => ~InIncoming(s)
    BY <1>4 DEF TimeoutRelease, Expired, Dispatch
  <2>2. ASSUME NEW u \in Threads, thr[u].pc \in {"admit", "incoming", "arm"}, thr[u].ts = s
        PROVE  FALSE
    <3>1. u \in Contexts /\ thr[u].pc \in {"incoming", "arm"}
      BY <2>1, <2>2 DEF PoolInv, ThreadsOK, ThreadOK, Threads
    <3>2. slot[s].timer = "trying"
      BY <2>1, <2>2, <3>1, <1>s DEF PoolInv, ThreadsOK, ThreadOK, SlotType, Timers
    <3> QED
      BY <2>1, <2>2, <3>1, <3>2 DEF InIncoming
  <2> QED
    BY <2>1, <2>2, <1>s, ReleaseSlotPoolInv
<1> QED
  BY <1>2, <1>3, <1>4 DEF Timeout

LEMMA StepPoolInv == OneContext /\ Inv /\ [Next]_vars => PoolInv'
<1> SUFFICES ASSUME OneContext, Inv, [Next]_vars PROVE PoolInv'
  OBVIOUS
<1>1. CASE UNCHANGED vars
  BY <1>1 DEF vars, Inv, PoolInv, SlotsOK, ChainsOK, ThreadsOK, ThreadOK, ReturnsOK,
              CallsOK, Relisting, Carries
<1>2. ASSUME NEW t \in Threads, ThreadStep(t) PROVE PoolInv'
  <2>1. CASE Relist(t)
    BY <2>1, RelistPoolInv
  <2>2. CASE ~Relist(t) /\ t \in Contexts
    BY <2>2, <1>2, ContextStepPoolInv
  <2>3. CASE ~Relist(t) /\ t = Background
    <3>1. thr[t].pc \in {"ready", "relist"}
      BY <2>3 DEF Inv, PoolInv, ThreadsOK, ThreadOK, Threads
    <3> QED
      BY <3>1, <2>3, <1>2 DEF ThreadStep, Assign, AssignFails, Unattach, Challenge,
         StartIncoming, RefuseIncoming, SetScripting, ArmStepping, PostDrop, PostRelease,
         PostReleaseRejected
  <2> QED
    BY <2>1, <2>2, <2>3 DEF Threads
<1> QED
  BY <1>1, <1>2, EventPoolInv, TimeoutPoolInv DEF Next

\* With one SIP context, the inductive invariant holds throughout.
LEMMA PoolInvariant == ASSUME OneContext PROVE Spec => []Inv
<1>1. Init => Inv
  BY InitTypeInv, InitPoolInv DEF Inv
<1>2. Inv /\ [Next]_vars => Inv'
  BY StepTypeInv, StepPoolInv DEF Inv
<1> QED
  BY <1>1, <1>2, PTL DEF Spec

\* With one SIP context, whatever the number of slots and calls: slots on the
\* free list are clean, slots with a call are found by Timeslot::get, and no
\* slot is lost or returned twice.
THEOREM ListsSafe ==
    ASSUME OneContext
    PROVE  Spec => [](FreeListClean /\ BusySlotsIndexed /\ NoSlotLeaked)
<1>1. Inv => FreeListClean
  BY DEF Inv, TypeInv, TypeOK, PoolInv, SlotsOK, ChainsOK, FreeListClean
<1>2. Inv => BusySlotsIndexed
  BY DEF Inv, PoolInv, SlotsOK, ChainsOK, CallsOK, BusySlotsIndexed, Carries
<1>3. Inv => NoSlotLeaked
  BY DEF Inv, PoolInv, ThreadsOK, ThreadOK, ReturnsOK, NoSlotLeaked, Relisting
<1> QED
  BY <1>1, <1>2, <1>3, PoolInvariant, PTL

\* With one SIP context, every call of every slot is billed with one START
\* and one STOP record.
THEOREM BillingSafe == ASSUME OneContext PROVE Spec => []CallDetailPaired
<1>1. Inv => CallDetailPaired
  BY DEF Inv, PoolInv, SlotsOK, CallDetailPaired
<1> QED
  BY <1>1, PoolInvariant, PTL

\* With one SIP context, the event of a call is never applied to another one.
THEOREM DeliverySafe == ASSUME OneContext PROVE Spec => []EventReachesOwnCall
<1>1. Inv => EventReachesOwnCall
  BY DEF Inv, PoolInv, ThreadsOK, ThreadOK, EventReachesOwnCall, Carries, Threads
<1> QED
  BY <1>1, PoolInvariant, PTL

\* With one SIP context, a slot on the free list carries nothing over from its
\* last call: Timeslot::assign may hand it out without looking at it.
THEOREM FreeListSafe == ASSUME OneContext PROVE Spec => []FreeListClean
BY ListsSafe, PTL

\* With one SIP context, Timeslot::get finds the slot of every call, and no
\* call has two.
THEOREM IndexSafe == ASSUME OneContext PROVE Spec => []BusySlotsIndexed
BY ListsSafe, PTL

-------------------------------------------------------------------------------
(***************************************************************************)
(* Answers, for a server with one SIP context.                             *)
(***************************************************************************)

\* A context is looking for a slot for call c, or about to refuse it.
Inviting(c) == \E t \in Contexts : thr[t].pc \in {"assign", "unattach"} /\ thr[t].cid = c

\* A live call was answered, is being assigned a slot, or has one.
CallOK(c) ==
    call[c] = "live" => finals[c] > 0 \/ Inviting(c) \/ \E s \in Slots : Carries(s, c)

\* The call of slot s was answered, or drop() will answer it.
Pending(s) == slot[s].tid = slot[s].cid \/ finals[slot[s].cid] > 0

\* Only such a slot has a timer, or is about to have one: a slot that
\* disconnect() has left without its transaction waits for the library.
TimerOK(s) == slot[s].started /\ slot[s].timer # "inf" => Pending(s)

\* A thread in incoming() works on such a slot, and a release is posted only
\* for a call that the library has ended.
AnswerOK(t) ==
    /\ thr[t].pc \in {"incoming", "arm"} => Pending(thr[t].ts)
    /\ thr[t].pc = "post" /\ thr[t].event = "RELEASE" => call[thr[t].cid] = "gone"

AnswerInv ==
    /\ \A c \in Cids : CallOK(c)
    /\ \A s \in Slots : TimerOK(s)
    /\ \A t \in Threads : AnswerOK(t)

\* Answers are not taken back.
Lasting == \A c \in Cids : finals[c] > 0 => finals'[c] > 0

LEMMA AnsweredFacts ==
    ASSUME TypeInv, NEW c \in Cids
    PROVE  /\ Answered(c)[c] > 0
           /\ \A d \in Cids : finals[d] > 0 => Answered(c)[d] > 0
<1>1. finals \in [Cids -> Nat]
  BY DEF TypeInv, TypeOK
<1> QED
  BY <1>1 DEF Answered

LEMMA DeclinedFacts ==
    ASSUME TypeInv, NEW s \in Slots
    PROVE  /\ slot[s].tid \in Cids => Declined(s)[slot[s].tid] > 0
           /\ \A d \in Cids : finals[d] > 0 => Declined(s)[d] > 0
<1>1. finals \in [Cids -> Nat] /\ slot[s] \in SlotType
  BY DEF TypeInv, TypeOK
<1>2. slot[s].tid \in Cids \cup {-1}
  BY <1>1 DEF SlotType
<1>3. -1 \notin Cids
  BY CidsAssumption
<1> QED
  BY <1>1, <1>2, <1>3 DEF Declined

LEMMA InitAnswerInv == Init => AnswerInv
<1> SUFFICES ASSUME Init PROVE AnswerInv
  OBVIOUS
<1>1. \A c \in Cids : CallOK(c)
  BY DEF Init, CallOK
<1>2. \A s \in Slots : TimerOK(s)
  BY DEF Init, TimerOK, NewSlot
<1>3. \A t \in Threads : AnswerOK(t)
  BY DEF Init, AnswerOK, ReadyThread
<1> QED
  BY <1>1, <1>2, <1>3 DEF AnswerInv

\* What a step has to keep.
LEMMA AnswerFrame ==
    ASSUME Inv, AnswerInv, Lasting,
           \A c \in Cids : call'[c] = "live" => call[c] = "live" \/ finals'[c] > 0 \/ Inviting(c)',
           \A c \in Cids : Inviting(c) =>
              Inviting(c)' \/ finals'[c] > 0 \/ \E s \in Slots : Carries(s, c)',
           \A s \in Slots : slot[s].started =>
              \/ slot'[s].started /\ slot'[s].cid = slot[s].cid
              \/ call'[slot[s].cid] # "live"
              \/ finals'[slot[s].cid] > 0,
           \A s \in Slots : slot'[s].started =>
              \/ slot'[s].timer = "inf"
              \/ /\ slot[s].started /\ slot[s].timer # "inf"
                 /\ slot'[s].cid = slot[s].cid /\ slot'[s].tid = slot[s].tid
              \/ Pending(s)',
           \A t \in Threads : AnswerOK(t)'
    PROVE  AnswerInv'
<1>0. \A s \in Slots : slot[s].started => slot[s].cid \in Cids
  BY DEF Inv, PoolInv, SlotsOK, TypeInv, TypeOK
<1>1. ASSUME NEW c \in Cids PROVE CallOK(c)'
  <2> SUFFICES ASSUME call'[c] = "live"
               PROVE  finals'[c] > 0 \/ Inviting(c)' \/ \E s \in Slots : Carries(s, c)'
    BY DEF CallOK
  <2>1. CASE call[c] = "live" /\ finals[c] > 0
    BY <2>1 DEF Lasting
  <2>2. CASE call[c] = "live" /\ Inviting(c)
    BY <2>2
  <2>3. CASE call[c] = "live" /\ \E s \in Slots : Carries(s, c)
    BY <2>3 DEF Carries
  <2> QED
    BY <2>1, <2>2, <2>3 DEF AnswerInv, CallOK
<1>2. ASSUME NEW s \in Slots PROVE TimerOK(s)'
  <2>1. ASSUME slot[s].started, slot[s].timer # "inf", slot'[s].cid = slot[s].cid,
               slot'[s].tid = slot[s].tid
        PROVE  Pending(s)'
    <3>1. Pending(s)
      BY <2>1 DEF AnswerInv, TimerOK
    <3> QED
      BY <1>0, <2>1, <3>1 DEF Pending, Lasting
  <2> QED
    BY <2>1 DEF TimerOK
<1> QED
  BY <1>1, <1>2 DEF AnswerInv

\* The threads that a step leaves where they are.
LEMMA AnswerOthers ==
    ASSUME Inv, AnswerInv, Lasting, NEW u \in Threads, thr'[u] = thr[u],
           thr[u].pc = "post" /\ thr[u].event = "RELEASE" =>
              (call[thr[u].cid] = "gone" => call'[thr[u].cid] = "gone"),
           thr[u].pc \in {"incoming", "arm"} =>
              \/ Pending(thr[u].ts)'
              \/ /\ slot'[thr[u].ts].tid = slot[thr[u].ts].tid
                 /\ slot'[thr[u].ts].cid = slot[thr[u].ts].cid
    PROVE  AnswerOK(u)'
<1>1. AnswerOK(u)
  BY DEF AnswerInv
<1>2. thr[u].pc \in {"incoming", "arm"} => slot[thr[u].ts].cid \in Cids
  BY DEF Inv, TypeInv, LocalsOK, PoolInv, ThreadsOK, ThreadOK, Carries
<1>3. thr[u].pc \in {"incoming", "arm"} => Pending(thr[u].ts)'
  BY <1>1, <1>2 DEF AnswerOK, Pending, Lasting
<1> QED
  BY <1>1, <1>3 DEF AnswerOK, Pending

\* A step of a context's thread: the others are ready, or return a slot.
LEMMA AnswerThreads ==
    ASSUME OneContext, Inv, AnswerInv, NEW t \in Contexts,
           \A u \in Threads : u # t => thr'[u] = thr[u], AnswerOK(t)'
    PROVE  \A u \in Threads : AnswerOK(u)'
<1> SUFFICES ASSUME NEW u \in Threads, u # t PROVE AnswerOK(u)'
  OBVIOUS
<1>1. thr'[u].pc \in {"ready", "relist"}
  BY Alone DEF Inv
<1> QED
  BY <1>1 DEF AnswerOK

\* A context that assigns no slot has no call in hand that waits for one.
LEMMA NobodyInviting ==
    ASSUME OneContext, NEW t \in Contexts, thr[t].pc \notin {"assign", "unattach"},
           NEW c \in Cids
    PROVE  ~Inviting(c)
BY DEF OneContext, Inviting

\* What the methods of a slot leave of its transaction.
LEMMA MethodTransaction ==
    ASSUME NEW m \in SlotType
    PROVE  /\ \A c \in Cids : Trying(m, c).tid = c
           /\ [m EXCEPT !.timer = "step"].tid = m.tid
           /\ [m EXCEPT !.handler = "script"].tid = m.tid
BY DEF SlotType, Trying

\* The steps of thread::invite and Timeslot::post by the thread of a context.
LEMMA ContextStepAnswers ==
    ASSUME OneContext, Inv, AnswerInv, NEW t \in Contexts, ThreadStep(t)
    PROVE  AnswerInv'
<1> USE DEF Inv, TypeInv
<1>t. t \in Threads /\ thr[t] \in ThreadType /\ ThreadOK(t) /\ AnswerOK(t)
  BY DEF Threads, TypeOK, PoolInv, ThreadsOK, AnswerInv
<1>d. ASSUME Done(t)
      PROVE  /\ thr'[t].pc = "ready"
             /\ \A u \in Threads : u # t => thr'[u] = thr[u]
  BY <1>d, <1>t DEF Done, ReadyThread, TypeOK
<1>e. ASSUME Done(t) PROVE \A u \in Threads : AnswerOK(u)'
  <2>1. AnswerOK(t)'
    BY <1>e, <1>d DEF AnswerOK
  <2> QED
    BY <1>e, <1>d, <2>1, AnswerThreads
<1>n. ASSUME Done(t), slot' = slot, call' = call, Lasting,
             thr[t].pc \notin {"assign", "unattach"}
      PROVE  AnswerInv'
  <2>1. \A c \in Cids : ~Inviting(c)
    BY <1>n, NobodyInviting
  <2> QED
    BY <1>n, <1>e, <2>1, AnswerFrame
<1>a. thr[t].cid \in Cids => \A d \in Cids : finals[d] > 0 => Answered(thr[t].cid)[d] > 0
  BY AnsweredFacts
<1>1. CASE \E s \in Slots : Assign(t, s)
  <2>1. PICK s \in Slots : Assign(t, s)
    BY <1>1
  <2> DEFINE c == thr[t].cid
             r == thr[t].registry
  <2>2. c \in Cids /\ r \in Registries /\ thr[t].pc = "assign"
    BY <2>1, <1>t DEF Assign, ThreadOK, LocalsOK
  <2>3. ~slot[s].started /\ slot[s] \in SlotType /\ slot[s].timer = "inf"
    BY <2>1 DEF Assign, PoolInv, SlotsOK, TypeOK
  <2>4. /\ slot'[s].started /\ slot'[s].timer = "inf" /\ slot'[s].cid = c
        /\ \A x \in Slots : x # s => slot'[x] = slot[x]
    <3>1. slot'[s] = Allocate(slot[s], c, r) /\ \A x \in Slots : x # s => slot'[x] = slot[x]
      BY <2>1 DEF Assign, TypeOK
    <3> QED
      BY <3>1, <2>2, <2>3, MethodMembers
  <2>5. /\ thr'[t].pc = "admit" /\ call' = call /\ finals' = finals
        /\ \A u \in Threads : u # t => thr'[u] = thr[u]
    BY <2>1, <1>t DEF Assign, TypeOK, ThreadType
  <2>6. \A d \in Cids : Inviting(d) => d = c
    BY DEF OneContext, Inviting
  <2>7. \E x \in Slots : slot'[x].started /\ slot'[x].cid = c
    BY <2>4
  <2> HIDE DEF c, r
  <2>8. \A u \in Threads : AnswerOK(u)'
    <3>1. AnswerOK(t)'
      BY <2>5 DEF AnswerOK
    <3> QED
      BY <3>1, <2>5, AnswerThreads
  <2>9. Lasting
    BY <2>5 DEF Lasting
  <2>10. \A d \in Cids : Inviting(d) =>
            Inviting(d)' \/ finals'[d] > 0 \/ \E x \in Slots : Carries(x, d)'
    BY <2>6, <2>7 DEF Carries
  <2>11. ASSUME NEW x \in Slots
         PROVE  /\ slot[x].started => slot'[x].started /\ slot'[x].cid = slot[x].cid
                /\ slot'[x].started =>
                     \/ slot'[x].timer = "inf"
                     \/ /\ slot[x].started /\ slot[x].timer # "inf"
                        /\ slot'[x].cid = slot[x].cid /\ slot'[x].tid = slot[x].tid
    <3>1. CASE x = s
      BY <3>1, <2>3, <2>4
    <3>2. CASE x # s
      BY <3>2, <2>4
    <3> QED
      BY <3>1, <3>2
  <2> QED
    BY <2>5, <2>8, <2>9, <2>10, <2>11, AnswerFrame
<1>2. CASE AssignFails(t)
  <2>1. /\ thr'[t].pc = "unattach" /\ thr'[t].cid = thr[t].cid
        /\ \A u \in Threads : u # t => thr'[u] = thr[u]
    BY <1>2, <1>t DEF AssignFails, TypeOK, ThreadType
  <2>2. slot' = slot /\ call' = call /\ finals' = finals
    BY <1>2 DEF AssignFails
  <2>3. \A u \in Threads : AnswerOK(u)'
    <3>1. AnswerOK(t)'
      BY <2>1 DEF AnswerOK
    <3> QED
      BY <3>1, <2>1, AnswerThreads
  <2>4. \A c \in Cids : Inviting(c) => Inviting(c)'
    BY <2>1 DEF OneContext, Inviting
  <2>5. Lasting
    BY <2>2 DEF Lasting
  <2> QED
    BY <2>2, <2>3, <2>4, <2>5, AnswerFrame
<1>3. CASE Unattach(t)
  <2>1. /\ thr[t].cid \in Cids /\ finals' = Answered(thr[t].cid)
        /\ slot' = slot /\ call' = call /\ Done(t)
    BY <1>3, <1>t DEF Unattach, LocalsOK
  <2>2. finals'[thr[t].cid] > 0 /\ Lasting
    BY <2>1, AnsweredFacts DEF Lasting
  <2>3. \A c \in Cids : Inviting(c) => c = thr[t].cid
    BY DEF OneContext, Inviting
  <2>4. \A c \in Cids : Inviting(c) => finals'[c] > 0
    BY <2>2, <2>3
  <2> QED
    BY <2>1, <2>2, <2>4, <1>e, AnswerFrame
<1>4. CASE Challenge(t)
  <2>1. Lasting
    BY <1>4, <1>a, <1>t DEF Challenge, LocalsOK, Lasting
  <2> QED
    BY <2>1, <1>4, <1>n DEF Challenge
<1>6. CASE RefuseIncoming(t)
  <2>1. Lasting
    BY <1>6, <1>a, <1>t DEF RefuseIncoming, LocalsOK, Lasting
  <2> QED
    BY <2>1, <1>6, <1>n DEF RefuseIncoming
<1>11. CASE PostReleaseRejected(t)
  <2>1. Lasting
    BY <1>11 DEF PostReleaseRejected, Lasting
  <2> QED
    BY <2>1, <1>11, <1>n DEF PostReleaseRejected
<1>12. CASE Relist(t)
  <2>1. Lasting
    BY <1>12 DEF Relist, Lasting
  <2> QED
    BY <2>1, <1>12, <1>n DEF Relist
<1> DEFINE s == thr[t].ts
<1>s. ASSUME s \in Slots, call' = call, Lasting,
             \A x \in Slots : x # s => slot'[x] = slot[x],
             slot[s].started =>
                \/ slot'[s].started /\ slot'[s].cid = slot[s].cid
                \/ call'[slot[s].cid] # "live",
             slot'[s].started =>
                \/ slot'[s].timer = "inf"
                \/ /\ slot[s].started /\ slot[s].timer # "inf"
                   /\ slot'[s].cid = slot[s].cid /\ slot'[s].tid = slot[s].tid
                \/ slot'[s].tid = slot'[s].cid
                \/ finals'[slot'[s].cid] > 0,
             thr[t].pc \notin {"assign", "unattach"},
             \A u \in Threads : u # t => thr'[u] = thr[u],
             AnswerOK(t)'
      PROVE  AnswerInv'
  <2> HIDE DEF s
  <2>1. \A c \in Cids : ~Inviting(c)
    BY <1>s, NobodyInviting
  <2>2. \A u \in Threads : AnswerOK(u)'
    BY <1>s, AnswerThreads
  <2>3. ASSUME NEW x \in Slots
        PROVE  /\ slot[x].started =>
                    \/ slot'[x].started /\ slot'[x].cid = slot[x].cid
                    \/ call'[slot[x].cid] # "live"
                    \/ finals'[slot[x].cid] > 0
               /\ slot'[x].started =>
                    \/ slot'[x].timer = "inf"
                    \/ /\ slot[x].started /\ slot[x].timer # "inf"
                       /\ slot'[x].cid = slot[x].cid /\ slot'[x].tid = slot[x].tid
                    \/ Pending(x)'
    <3>1. CASE x = s
      BY <3>1, <1>s DEF Pending
    <3>2. CASE x # s
      BY <3>2, <1>s
    <3> QED
      BY <3>1, <3>2
  <2> QED
    BY <1>s, <2>1, <2>2, <2>3, AnswerFrame
<1>5. CASE StartIncoming(t)
  <2>1. s \in Slots /\ thr[t].cid \in Cids /\ thr[t].pc = "admit"
    BY <1>5, <1>t DEF StartIncoming, LocalsOK
  <2>2. slot[s] \in SlotType /\ Carries(s, thr[t].cid)
    BY <2>1, <1>t DEF TypeOK, ThreadOK
  <2>3. slot'[s] = Trying(slot[s], thr[t].cid) /\ \A x \in Slots : x # s => slot'[x] = slot[x]
    BY <1>5, <2>1 DEF StartIncoming, TypeOK
  <2>4. /\ slot'[s].started = slot[s].started /\ slot'[s].cid = thr[t].cid
        /\ slot'[s].tid = thr[t].cid /\ slot'[s].cid = slot[s].cid
    <3>1. slot'[s].started = slot[s].started /\ slot'[s].cid = slot[s].cid
      BY <2>1, <2>2, <2>3, MethodMembers
    <3>2. slot'[s].tid = thr[t].cid
      BY <2>1, <2>2, <2>3, MethodTransaction
    <3> QED
      BY <3>1, <3>2, <2>2 DEF Carries
  <2>5. /\ thr'[t].pc = "incoming" /\ thr'[t].ts = s
        /\ \A u \in Threads : u # t => thr'[u] = thr[u]
    BY <1>5, <1>t DEF StartIncoming, TypeOK, ThreadType
  <2>6. call' = call /\ finals' = finals
    BY <1>5 DEF StartIncoming
  <2>7. /\ AnswerOK(t)' /\ Lasting
        /\ slot'[s].tid = slot'[s].cid \/ finals'[slot'[s].cid] > 0
    BY <2>4, <2>5, <2>6 DEF AnswerOK, Pending, Lasting
  <2> QED
    BY <2>1, <2>2, <2>3, <2>4, <2>5, <2>6, <2>7, <1>s DEF Carries
<1>7. CASE SetScripting(t)
  <2>1. s \in Slots /\ thr[t].pc = "incoming" /\ slot[s] \in SlotType
    BY <1>7, <1>t DEF SetScripting, LocalsOK, TypeOK
  <2>2. Carries(s, thr[t].cid)
    BY <2>1, <1>t DEF ThreadOK
  <2>3. /\ slot'[s] = [slot[s] EXCEPT !.handler = "script"]
        /\ \A x \in Slots : x # s => slot'[x] = slot[x]
    BY <1>7, <2>1 DEF SetScripting, TypeOK
  <2>4. /\ slot'[s].started = slot[s].started /\ slot'[s].timer = slot[s].timer
        /\ slot'[s].cid = slot[s].cid /\ slot'[s].tid = slot[s].tid
    BY <2>1, <2>3 DEF SlotType
  <2>5. /\ thr'[t].pc = "arm" /\ thr'[t].ts = s
        /\ \A u \in Threads : u # t => thr'[u] = thr[u]
    BY <1>7, <1>t DEF SetScripting, TypeOK, ThreadType
  <2>6. call' = call /\ finals' = finals
    BY <1>7 DEF SetScripting
  <2>7. /\ AnswerOK(t)' /\ Lasting
        /\ slot'[s].tid = slot'[s].cid \/ finals'[slot'[s].cid] > 0
    BY <2>1, <2>4, <2>5, <2>6, <1>t DEF AnswerOK, Pending, Lasting
  <2> QED
    BY <2>1, <2>2, <2>3, <2>4, <2>5, <2>6, <2>7, <1>s DEF Carries
<1>8. CASE ArmStepping(t)
  <2>1. s \in Slots /\ thr[t].pc = "arm" /\ slot[s] \in SlotType
    BY <1>8, <1>t DEF ArmStepping, LocalsOK, TypeOK
  <2>2. /\ slot'[s] = [slot[s] EXCEPT !.timer = "step"]
        /\ \A x \in Slots : x # s => slot'[x] = slot[x]
    BY <1>8, <2>1 DEF ArmStepping, TypeOK
  <2>3. /\ slot'[s].started = slot[s].started
        /\ slot'[s].cid = slot[s].cid /\ slot'[s].tid = slot[s].tid
    BY <2>1, <2>2 DEF SlotType
  <2>4. thr'[t].pc = "ready" /\ \A u \in Threads : u # t => thr'[u] = thr[u]
    BY <1>8, <1>d DEF ArmStepping
  <2>5. call' = call /\ finals' = finals
    BY <1>8 DEF ArmStepping
  <2>6. AnswerOK(t)' /\ Lasting
    BY <2>4, <2>5 DEF AnswerOK, Lasting
  <2>7. slot'[s].tid = slot'[s].cid \/ finals'[slot'[s].cid] > 0
    BY <2>1, <2>3, <2>5, <1>t DEF AnswerOK, Pending
  <2> QED
    BY <2>1, <2>2, <2>3, <2>4, <2>5, <2>6, <2>7, <1>s
<1>9. CASE PostDrop(t)
  <2>0. /\ s \in Slots /\ thr[t].pc = "post" /\ Done(t) /\ call' = call /\ finals' = finals
    BY <1>9, <1>t DEF PostDrop, LocalsOK
  <2>l. Lasting
    BY <2>0 DEF Lasting
  <2>1. CASE Dispatch(slot[s].handler, "DROP") # "disconnect"
    <3>1. slot' = slot
      BY <1>9, <2>1 DEF PostDrop
    <3> QED
      BY <3>1, <2>0, <2>l, <1>n
  <2>2. CASE Dispatch(slot[s].handler, "DROP") = "disconnect"
    <3>1. slot'[s] = Disconnect(slot[s]) /\ \A x \in Slots : x # s => slot'[x] = slot[x]
      BY <1>9, <2>0, <2>2 DEF PostDrop, TypeOK
    <3>2. /\ slot'[s].started = slot[s].started /\ slot'[s].cid = slot[s].cid
          /\ slot'[s].timer = "inf"
      <4>1. slot[s] \in SlotType
        BY <2>0 DEF TypeOK
      <4> QED
        BY <3>1, <4>1, MethodMembers
    <3>3. AnswerOK(t)' /\ \A u \in Threads : u # t => thr'[u] = thr[u]
      BY <2>0, <1>d, <1>e, <1>t
    <3> QED
      BY <3>1, <3>2, <3>3, <2>0, <2>l, <1>s
  <2> QED
    BY <2>1, <2>2
<1>10. CASE PostRelease(t)
  <2>1. s \in Slots /\ ReleaseSlot(t, s) /\ thr[t].pc = "post" /\ thr[t].event = "RELEASE"
    BY <1>10, <1>t DEF PostRelease, LocalsOK
  <2>2. call[thr[t].cid] = "gone" /\ (slot[s].started => slot[s].cid = thr[t].cid)
    BY <2>1, <1>t DEF AnswerOK, ThreadOK
  <2>3. /\ ~slot'[s].started /\ \A x \in Slots : x # s => slot'[x] = slot[x]
    <3>1. slot[s] \in SlotType
      BY <2>1 DEF TypeOK
    <3>2. slot'[s] = Release(slot[s]) /\ \A x \in Slots : x # s => slot'[x] = slot[x]
      BY <2>1 DEF ReleaseSlot, TypeOK
    <3> QED
      BY <3>1, <3>2, MethodMembers
  <2>4. thr'[t].pc = "relist" /\ \A u \in Threads : u # t => thr'[u] = thr[u]
    BY <2>1, <1>t DEF ReleaseSlot, TypeOK, ThreadType
  <2>5. call' = call /\ Lasting
    BY <2>1, DeclinedFacts DEF ReleaseSlot, Lasting
  <2>6. AnswerOK(t)'
    BY <2>4 DEF AnswerOK
  <2>7. slot[s].started => call'[slot[s].cid] # "live"
    BY <2>2, <2>5
  <2> QED
    BY <2>1, <2>3, <2>4, <2>5, <2>6, <2>7, <1>s
<1> QED
  BY <1>1, <1>2, <1>3, <1>4, <1>5, <1>6, <1>7, <1>8, <1>9, <1>10, <1>11, <1>12
     DEF ThreadStep

\* The events that the library hands to the thread of a context.
LEMMA EventAnswers ==
    ASSUME OneContext, Inv, AnswerInv, NEW t \in Contexts, NEW c \in Cids, NextEvent(t, c)
    PROVE  AnswerInv'
<1> USE DEF Inv, TypeInv
<1>t. t \in Threads /\ thr[t] \in ThreadType
  BY DEF Threads, TypeOK
<1>p. thr[t].pc = "ready" /\ slot' = slot
  BY DEF NextEvent, RefuseInvite, Invite, NewCall, CallClosed, ByeMessage, CallReleased, Fetch
<1>i. \A d \in Cids : ~Inviting(d)
  BY <1>p, NobodyInviting
<1>f. ASSUME Lasting, AnswerOK(t)', \A u \in Threads : u # t => thr'[u] = thr[u],
             \A d \in Cids :
                call'[d] = "live" => call[d] = "live" \/ finals'[d] > 0 \/ Inviting(d)'
      PROVE  AnswerInv'
  <2>1. \A u \in Threads : AnswerOK(u)'
    BY <1>f, AnswerThreads
  <2> QED
    BY <1>f, <1>i, <1>p, <2>1, AnswerFrame
<1>1. ASSUME NewCall(t, c), finals' = Answered(c), thr' = thr PROVE AnswerInv'
  <2>1. Lasting /\ finals'[c] > 0
    BY <1>1, AnsweredFacts DEF Lasting
  <2>2. AnswerOK(t)'
    BY <1>1, <1>p DEF AnswerOK
  <2>3. \A d \in Cids : call'[d] = "live" => call[d] = "live" \/ finals'[d] > 0
    BY <1>1, <2>1 DEF NewCall, TypeOK
  <2> QED
    BY <1>1, <2>1, <2>2, <2>3, <1>f
<1>2. ASSUME NEW r \in Registries, Invite(t, c, r), CanAttach(r) PROVE AnswerInv'
  <2>1. /\ thr'[t].pc = "assign" /\ thr'[t].cid = c
        /\ \A u \in Threads : u # t => thr'[u] = thr[u]
    BY <1>2, <1>t DEF Invite, TypeOK, ThreadType
  <2>2. finals' = finals /\ \A d \in Cids : d # c => call'[d] = call[d]
    BY <1>2 DEF Invite, NewCall, TypeOK
  <2>3. Inviting(c)'
    BY <2>1 DEF Inviting
  <2>4. Lasting /\ AnswerOK(t)'
    BY <2>1, <2>2 DEF Lasting, AnswerOK
  <2>5. \A d \in Cids : call'[d] = "live" => call[d] = "live" \/ Inviting(d)'
    BY <2>2, <2>3
  <2> QED
    BY <2>1, <2>4, <2>5, <1>f
<1>3. ASSUME NEW e \in {"DROP", "RELEASE"}, Fetch(t, c, e),
             \A d \in Cids : call'[d] = "live" => call[d] = "live",
             e = "RELEASE" => call'[c] = "gone"
      PROVE  AnswerInv'
  <2>1. Lasting
    BY <1>3 DEF Fetch, Lasting
  <2>2. PICK s \in Lookup(c) :
           thr' = IF s = NoSlot THEN thr
                  ELSE [thr EXCEPT ![t].pc = "post", ![t].cid = c,
                                   ![t].event = e, ![t].ts = s]
    BY <1>3 DEF Fetch
  <2>3. CASE s = NoSlot
    <3>1. AnswerOK(t)' /\ thr' = thr
      BY <2>2, <2>3, <1>p DEF AnswerOK
    <3> QED
      BY <3>1, <2>1, <1>3, <1>f
  <2>4. CASE s # NoSlot
    <3>1. /\ thr'[t].pc = "post" /\ thr'[t].cid = c /\ thr'[t].event = e
          /\ \A u \in Threads : u # t => thr'[u] = thr[u]
      BY <2>2, <2>4, <1>t DEF TypeOK, ThreadType
    <3>2. AnswerOK(t)'
      BY <3>1, <1>3 DEF AnswerOK
    <3> QED
      BY <3>1, <3>2, <2>1, <1>3, <1>f
  <2> QED
    BY <2>3, <2>4
<1>4. CASE RefuseInvite(t, c)
  BY <1>4, <1>1 DEF RefuseInvite
<1>5. CASE \E r \in Registries : Invite(t, c, r)
  BY <1>5, <1>1, <1>2 DEF Invite
<1>6. CASE CallClosed(t, c)
  <2>1. Fetch(t, c, "DROP") /\ \A d \in Cids : call'[d] = "live" => call[d] = "live"
    BY <1>6 DEF CallClosed, TypeOK
  <2> QED
    BY <2>1, <1>3
<1>7. CASE ByeMessage(t, c)
  BY <1>7, <1>3 DEF ByeMessage
<1>8. CASE CallReleased(t, c)
  <2>1. /\ Fetch(t, c, "RELEASE") /\ call'[c] = "gone"
        /\ \A d \in Cids : call'[d] = "live" => call[d] = "live"
    BY <1>8 DEF CallReleased, TypeOK
  <2> QED
    BY <2>1, <1>3
<1> QED
  BY <1>4, <1>5, <1>6, <1>7, <1>8 DEF NextEvent

\* A timer that has run out, and a hangup by the operator: drop() answers
\* the call before the slot is released or loses its transaction.
LEMMA TimeoutAnswers ==
    ASSUME OneContext, Inv, AnswerInv, NEW s \in Slots, Timeout(s) \/ ControlHangup(s)
    PROVE  AnswerInv'
<1> USE DEF Inv, TypeInv
<1>s. slot[s] \in SlotType /\ slot[s].tid \in Cids \cup {-1} /\ finals \in [Cids -> Nat]
  BY DEF TypeOK, SlotType
<1>b. Background \in Threads /\ Contexts \subseteq Threads
  BY DEF Threads
<1>c. call' = call
  BY DEF Timeout, StepScript, EndScript, TimeoutRelease, ReleaseSlot, ControlHangup
<1>l. Lasting
  BY DeclinedFacts DEF Timeout, StepScript, EndScript, TimeoutRelease, ReleaseSlot,
                       ControlHangup, Lasting
<1>x. \A x \in Slots : x # s => slot'[x] = slot[x]
  BY DEF Timeout, StepScript, EndScript, TimeoutRelease, ReleaseSlot, ControlHangup, TypeOK
<1>i. ASSUME NEW c \in Cids, \A u \in Contexts : thr'[u] = thr[u], Inviting(c)
      PROVE  Inviting(c)'
  BY <1>i DEF Inviting
<1>n. ASSUME Pending(s), slot[s].started, finals' = Declined(s) PROVE finals'[slot[s].cid] > 0
  <2>1. slot[s].cid \in Cids
    BY <1>n DEF PoolInv, SlotsOK, TypeOK
  <2>2. CASE slot[s].tid = slot[s].cid
    BY <2>1, <2>2, <1>n, DeclinedFacts
  <2>3. CASE finals[slot[s].cid] > 0
    BY <2>1, <2>3, <1>n, DeclinedFacts
  <2> QED
    BY <2>2, <2>3, <1>n DEF Pending
<1>f. ASSUME \A u \in Contexts : thr'[u] = thr[u],
             slot[s].started =>
                \/ slot'[s].started /\ slot'[s].cid = slot[s].cid
                \/ finals'[slot[s].cid] > 0,
             slot'[s].started =>
                \/ slot'[s].timer = "inf"
                \/ /\ slot[s].started /\ slot[s].timer # "inf"
                   /\ slot'[s].cid = slot[s].cid /\ slot'[s].tid = slot[s].tid,
             \A u \in Threads : AnswerOK(u)'
      PROVE  AnswerInv'
  <2>1. \A c \in Cids : Inviting(c) => Inviting(c)'
    BY <1>f, <1>i
  <2>2. ASSUME NEW x \in Slots
        PROVE  /\ slot[x].started =>
                    \/ slot'[x].started /\ slot'[x].cid = slot[x].cid
                    \/ finals'[slot[x].cid] > 0
               /\ slot'[x].started =>
                    \/ slot'[x].timer = "inf"
                    \/ /\ slot[x].started /\ slot[x].timer # "inf"
                       /\ slot'[x].cid = slot[x].cid /\ slot'[x].tid = slot[x].tid
    <3>1. CASE x = s
      BY <3>1, <1>f
    <3>2. CASE x # s
      BY <3>2, <1>x
    <3> QED
      BY <3>1, <3>2
  <2> QED
    BY <1>c, <1>l, <1>f, <2>1, <2>2, AnswerFrame
<1>1. CASE StepScript(s)
  <2>1. slot'[s] = [slot[s] EXCEPT !.timer = "step"] /\ slot[s].timer # "inf" /\ thr' = thr
    BY <1>1 DEF StepScript, Expired, TypeOK
  <2>2. /\ slot'[s].started = slot[s].started /\ slot'[s].cid = slot[s].cid
        /\ slot'[s].tid = slot[s].tid
    BY <2>1, <1>s DEF SlotType
  <2>3. ASSUME NEW u \in Threads PROVE AnswerOK(u)'
    <3>1. thr[u].pc \in {"incoming", "arm"} =>
             /\ slot'[thr[u].ts].tid = slot[thr[u].ts].tid
             /\ slot'[thr[u].ts].cid = slot[thr[u].ts].cid
      BY <2>2, <1>x DEF LocalsOK
    <3> QED
      BY <3>1, <2>1, <1>c, <1>l, AnswerOthers
  <2> QED
    BY <2>1, <2>2, <2>3, <1>f
<1>2. CASE EndScript(s) \/ ControlHangup(s)
  <2>1. slot'[s] = Hangup(slot[s]) /\ finals' = Declined(s) /\ thr' = thr
    BY <1>2 DEF EndScript, ControlHangup, TypeOK
  <2>2. /\ slot'[s].started = slot[s].started /\ slot'[s].cid = slot[s].cid
        /\ slot'[s].timer = "inf"
    BY <2>1, <1>s, MethodMembers
  <2>3. ASSUME NEW u \in Threads PROVE AnswerOK(u)'
    <3>1. CASE thr[u].pc \in {"incoming", "arm"} /\ thr[u].ts = s
      <4>1. Pending(s) /\ slot[s].started
        BY <3>1 DEF AnswerInv, AnswerOK, PoolInv, ThreadsOK, ThreadOK, Carries
      <4>2. Pending(thr[u].ts)'
        BY <4>1, <3>1, <2>1, <2>2, <1>n DEF Pending
      <4> QED
        BY <3>1, <4>2, <2>1, <1>c, <1>l, AnswerOthers
    <3>2. CASE ~(thr[u].pc \in {"incoming", "arm"} /\ thr[u].ts = s)
      <4>1. thr[u].pc \in {"incoming", "arm"} => slot'[thr[u].ts] = slot[thr[u].ts]
        BY <3>2, <1>x DEF LocalsOK
      <4> QED
        BY <4>1, <2>1, <1>c, <1>l, AnswerOthers
    <3> QED
      BY <3>1, <3>2
  <2> QED
    BY <2>1, <2>2, <2>3, <1>f
<1>3. CASE TimeoutRelease(s)
  <2>1. /\ ReleaseSlot(Background, s) /\ slot[s].handler = "release"
        /\ slot[s].timer # "inf" /\ (slot[s].timer = "trying" => ~InIncoming(s))
    BY <1>3, <1>s DEF TimeoutRelease, Expired, Dispatch, SlotType, Handlers
  <2>2. slot[s].started /\ Pending(s)
    BY <2>1 DEF PoolInv, SlotsOK, AnswerInv, TimerOK
  <2>3. finals'[slot[s].cid] > 0
    BY <2>1, <2>2, <1>n DEF ReleaseSlot
  <2>4. ~slot'[s].started
    BY <2>1, <1>s, MethodMembers DEF ReleaseSlot, TypeOK
  <2>5. /\ thr'[Background].pc = "relist"
        /\ \A u \in Threads : u # Background => thr'[u] = thr[u]
    BY <2>1, <1>b DEF ReleaseSlot, TypeOK, ThreadType
  <2>6. ASSUME NEW u \in Threads PROVE AnswerOK(u)'
    <3>1. CASE u = Background
      BY <3>1, <2>5 DEF AnswerOK
    <3>2. CASE u # Background
      <4>1. u \in Contexts /\ thr'[u] = thr[u]
        BY <3>2, <2>5 DEF Threads
      <4>2. ASSUME thr[u].pc \in {"incoming", "arm"} PROVE thr[u].ts # s
        <5>1. thr[u].ts = s => slot[s].timer = "trying"
          BY <4>2, <2>1, <1>s DEF PoolInv, ThreadsOK, ThreadOK, SlotType, Timers
        <5> QED
          BY <5>1, <4>1, <4>2, <2>1 DEF InIncoming
      <4>3. thr[u].pc \in {"incoming", "arm"} => slot'[thr[u].ts] = slot[thr[u].ts]
        BY <4>2, <1>x DEF LocalsOK
      <4> QED
        BY <4>1, <4>3, <1>c, <1>l, AnswerOthers
    <3> QED
      BY <3>1, <3>2
  <2>7. \A u \in Contexts : thr'[u] = thr[u]
    BY <2>5, ContextsAssumption DEF Threads
  <2> QED
    BY <2>3, <2>4, <2>6, <2>7, <1>f
<1> QED
  BY <1>1, <1>2, <1>3 DEF Timeout

LEMMA StepAnswerInv == OneContext /\ Inv /\ AnswerInv /\ [Next]_vars => AnswerInv'
<1> SUFFICES ASSUME OneContext, Inv, AnswerInv, [Next]_vars PROVE AnswerInv'
  OBVIOUS
<1>1. CASE UNCHANGED vars
  BY <1>1 DEF vars, AnswerInv, CallOK, TimerOK, AnswerOK, Pending, Inviting, Carries
<1>2. ASSUME NEW t \in Threads, ThreadStep(t) PROVE AnswerInv'
  <2>1. CASE t \in Contexts
    BY <2>1, <1>2, ContextStepAnswers
  <2>2. CASE t = Background
    <3>1. Relist(t)
      <4>1. thr[t].pc \in {"ready", "relist"}
        BY <2>2 DEF Inv, PoolInv, ThreadsOK, ThreadOK
      <4> QED
        BY <4>1, <1>2 DEF ThreadStep, Assign, AssignFails, Unattach, Challenge,
           StartIncoming, RefuseIncoming, SetScripting, ArmStepping, PostDrop, PostRelease,
           PostReleaseRejected
    <3>2. /\ slot' = slot /\ call' = call /\ finals' = finals /\ thr'[t].pc = "ready"
          /\ \A u \in Threads : u # t => thr'[u] = thr[u]
      BY <3>1 DEF Relist, Done, ReadyThread, Inv, TypeInv, TypeOK
    <3>3. Lasting
      BY <3>2 DEF Lasting
    <3>4. ASSUME NEW u \in Threads PROVE AnswerOK(u)'
      <4>1. CASE u = t
        BY <4>1, <3>2 DEF AnswerOK
      <4>2. CASE u # t
        BY <4>2, <3>2, <3>3, AnswerOthers
      <4> QED
        BY <4>1, <4>2
    <3>5. \A c \in Cids : Inviting(c) => Inviting(c)'
      BY <3>2, <2>2, ContextsAssumption DEF Inviting, Threads
    <3> QED
      BY <3>2, <3>3, <3>4, <3>5, AnswerFrame
  <2> QED
    BY <2>1, <2>2 DEF Threads
<1> QED
  BY <1>1, <1>2, EventAnswers, TimeoutAnswers DEF Next

\* With one SIP context, no caller is left without an answer: a live call
\* that no thread and no slot is working on was sent a final response, on
\* every path through thread::invite, drop() and release().
THEOREM CallersAnswered == ASSUME OneContext PROVE Spec => []NoCallForgotten
<1>1. Spec => []AnswerInv
  BY InitAnswerInv, StepAnswerInv, PoolInvariant, PTL DEF Spec
<1>2. AnswerInv => NoCallForgotten
  <2>1. \A c \in Cids : Inviting(c) => InHand(c)
    BY DEF Inviting, InHand
  <2> QED
    BY <2>1 DEF AnswerInv, CallOK, NoCallForgotten
<1> QED
  BY <1>1, <1>2, PTL

-------------------------------------------------------------------------------
(* The call counters, the limits of registrations, and the refinement of   *)
(* CallPool, for a server with one SIP context.                             *)

Busy == {s \in Slots : slot[s].started}

\* The counter of a limited registration has not passed its limit.
LimitOK == \A r \in Metered : Limit[r] # 0 => regActive[r] <= Limit[r]

CountInv == CountersBalanced /\ LimitOK

-------------------------------------------------------------------------------
LEMMA FiniteParts ==
    /\ IsFiniteSet(Busy)
    /\ \A r \in Registries : IsFiniteSet(CallsOf(r)) /\ IsFiniteSet(Attaching(r))
<1>1. /\ Busy \subseteq Slots
      /\ \A r \in Registries : CallsOf(r) \subseteq Slots /\ Attaching(r) \subseteq Contexts
  BY DEF Busy, CallsOf, Attaching
<1> QED
  BY <1>1, FS_Subset, SlotsAssumption, ContextsAssumption

\* A set with one element more, or one less.
LEMMA OneMore ==
    ASSUME NEW S, IsFiniteSet(S), NEW x, x \notin S, NEW T, T = S \cup {x}
    PROVE  Cardinality(T) = Cardinality(S) + 1
BY FS_AddElement

LEMMA OneLess ==
    ASSUME NEW S, IsFiniteSet(S), NEW x, x \in S, NEW T, T = S \ {x}
    PROVE  Cardinality(T) = Cardinality(S) - 1
BY FS_RemoveElement

LEMMA CardinalityNat == ASSUME NEW S, IsFiniteSet(S) PROVE Cardinality(S) \in Nat
BY FS_CardinalityType

\* A step that starts and ends no call and moves no thread into or out of
\* the part of thread::invite where a call is counted without a slot.
LEMMA CountFrame ==
    ASSUME CountInv, active' = active, regActive' = regActive,
           \A s \in Slots : slot'[s].started = slot[s].started
                            /\ slot'[s].registry = slot[s].registry,
           \A t \in Contexts : \/ thr'[t].pc = thr[t].pc /\ thr'[t].registry = thr[t].registry
                               \/ /\ thr'[t].pc \notin {"assign", "unattach"}
                                  /\ thr[t].pc \notin {"assign", "unattach"}
                               \/ /\ thr'[t].pc \in {"assign", "unattach"}
                                  /\ thr[t].pc \in {"assign", "unattach"}
                                  /\ thr'[t].registry = thr[t].registry
    PROVE  CountInv'
<1>1. Busy' = Busy
  BY DEF Busy
<1>2. \A r \in Registries : CallsOf(r)' = CallsOf(r)
  BY DEF CallsOf
<1>3. \A r \in Registries : Attaching(r)' = Attaching(r)
  BY DEF Attaching
<1>4. CountersBalanced'
  BY <1>1, <1>2, <1>3 DEF CountInv, CountersBalanced, Busy
<1>5. LimitOK'
  BY DEF CountInv, LimitOK
<1> QED
  BY <1>4, <1>5 DEF CountInv

LEMMA InitCountInv == Init => CountInv
<1> SUFFICES ASSUME Init PROVE CountInv
  OBVIOUS
<1>1. Busy = {} /\ \A r \in Registries : CallsOf(r) = {} /\ Attaching(r) = {}
  <2>1. \A s \in Slots : ~slot[s].started /\ slot[s].registry = NoRegistry
    BY DEF Init, NewSlot
  <2>2. \A t \in Contexts : thr[t].pc = "ready"
    BY DEF Init, ReadyThread, Threads
  <2> QED
    BY <2>1, <2>2, RegistriesAssumption DEF Busy, CallsOf, Attaching
<1>2. Cardinality({}) = 0
  BY FS_EmptySet
<1>3. CountersBalanced
  <2>1. active = Cardinality(Busy)
    BY <1>1, <1>2 DEF Init
  <2>2. ASSUME NEW r \in Registries
        PROVE  regActive[r] = 0 /\ Cardinality(CallsOf(r)) + Cardinality(Attaching(r)) = 0
    <3>1. Cardinality(CallsOf(r)) = 0 /\ Cardinality(Attaching(r)) = 0 /\ regActive[r] = 0
      BY <1>1, <1>2 DEF Init
    <3> QED
      BY <3>1
  <2> QED
    BY <2>1, <2>2 DEF CountersBalanced, Busy
<1>4. LimitOK
  BY RegistriesAssumption DEF Init, LimitOK
<1> QED
  BY <1>3, <1>4 DEF CountInv

\* A call ends: the system and its registration count one less.
LEMMA ReleaseSlotCountInv ==
    ASSUME Inv, CountInv, NEW t \in Threads, NEW s \in Slots, ReleaseSlot(t, s),
           slot[s].handler # "idle", thr[t].pc \in {"ready", "post"}
    PROVE  CountInv'
<1> USE DEF Inv, TypeInv, CountInv
<1>0. PICK r \in Registries : slot[s].registry = r
  BY DEF TypeOK, PoolInv, SlotsOK
<1>1. slot[s] \in SlotType /\ slot[s].started
  BY DEF TypeOK, PoolInv, SlotsOK
<1>2. /\ ~slot'[s].started /\ slot'[s].registry = NoRegistry
      /\ \A x \in Slots : x # s => slot'[x] = slot[x]
  BY <1>1, MethodMembers DEF ReleaseSlot, TypeOK
<1>3. /\ thr'[t].pc = "relist" /\ \A u \in Threads : u # t => thr'[u] = thr[u]
  BY DEF ReleaseSlot, TypeOK, ThreadType
<1>4. active' = active - 1
  BY DEF ReleaseSlot
<1>5. regActive' = IF r \in Metered THEN [regActive EXCEPT ![r] = @ - 1] ELSE regActive
  BY <1>0 DEF ReleaseSlot, Detach
<1>6. Busy' = Busy \ {s} /\ s \in Busy
  BY <1>1, <1>2 DEF Busy
<1>7. CallsOf(r)' = CallsOf(r) \ {s} /\ s \in CallsOf(r)
  BY <1>0, <1>1, <1>2, RegistriesAssumption DEF CallsOf
<1>8. \A q \in Registries : q # r => CallsOf(q)' = CallsOf(q)
  BY <1>0, <1>1, <1>2, RegistriesAssumption DEF CallsOf
<1>9. \A q \in Registries : Attaching(q)' = Attaching(q)
  BY <1>3 DEF Attaching, Threads
<1>10. active' = Cardinality(Busy')
  BY <1>4, <1>6, FiniteParts, OneLess DEF CountersBalanced, Busy
<1>11. ASSUME NEW q \in Registries
       PROVE  regActive'[q] = IF q \in Metered
                              THEN Cardinality(CallsOf(q)') + Cardinality(Attaching(q)')
                              ELSE 0
  <2>1. regActive[q] = IF q \in Metered
                       THEN Cardinality(CallsOf(q)) + Cardinality(Attaching(q))
                       ELSE 0
    BY DEF CountersBalanced
  <2>2. /\ Cardinality(CallsOf(q)) \in Nat /\ Cardinality(Attaching(q)) \in Nat
        /\ regActive \in [Registries -> Int]
    BY FiniteParts, CardinalityNat DEF TypeOK
  <2>3. CASE q = r /\ q \in Metered
    <3>1. Cardinality(CallsOf(q)') = Cardinality(CallsOf(q)) - 1
      BY <2>3, <1>7, FiniteParts, OneLess
    <3>2. regActive'[q] = regActive[q] - 1
      BY <2>2, <2>3, <1>5
    <3>3. Cardinality(Attaching(q)') = Cardinality(Attaching(q))
      BY <1>9
    <3> QED
      BY <3>1, <3>2, <3>3, <2>1, <2>2, <2>3
  <2>4. CASE q # r \/ q \notin Metered
    <3>1. regActive'[q] = regActive[q]
      BY <2>2, <2>4, <1>5
    <3>2. q \in Metered => CallsOf(q)' = CallsOf(q) /\ Attaching(q)' = Attaching(q)
      BY <2>4, <1>8, <1>9
    <3> QED
      BY <3>1, <3>2, <2>1
  <2> QED
    BY <2>3, <2>4
<1>12. CountersBalanced'
  BY <1>10, <1>11 DEF CountersBalanced, Busy
<1>13. LimitOK'
  <2>1. \A q \in Metered : regActive'[q] <= regActive[q] /\ regActive'[q] \in Int
                           /\ regActive[q] \in Int /\ Limit[q] \in Nat
    BY <1>5, RegistriesAssumption DEF TypeOK
  <2> QED
    BY <2>1 DEF LimitOK
<1> QED
  BY <1>12, <1>13

\* A call that was counted under its registration gets a slot.
LEMMA AssignCountInv ==
    ASSUME Inv, CountInv, NEW t \in Contexts, NEW s \in Slots, Assign(t, s)
    PROVE  CountInv'
<1> USE DEF Inv, TypeInv, CountInv
<1>t. t \in Threads /\ thr[t] \in ThreadType /\ ThreadOK(t) /\ thr[t].pc = "assign"
      /\ thr[t].cid \in Cids
  BY DEF Threads, TypeOK, PoolInv, ThreadsOK, Assign, LocalsOK
<1>0. PICK r \in Registries : thr[t].registry = r
  BY <1>t DEF ThreadOK
<1>1. slot[s] \in SlotType /\ ~slot[s].started /\ slot[s].registry = NoRegistry
  BY DEF TypeOK, PoolInv, SlotsOK, Assign
<1>2. /\ slot'[s].started /\ slot'[s].registry = r
      /\ \A x \in Slots : x # s => slot'[x] = slot[x]
  <2>1. slot'[s] = Allocate(slot[s], thr[t].cid, r) /\ \A x \in Slots : x # s => slot'[x] = slot[x]
    BY <1>0 DEF Assign, TypeOK
  <2> QED
    BY <2>1, <1>1, <1>t, MethodMembers
<1>3. /\ thr'[t].pc = "admit" /\ \A u \in Threads : u # t => thr'[u] = thr[u]
  BY <1>t DEF Assign, TypeOK, ThreadType
<1>4. active' = active + 1 /\ regActive' = regActive
  BY DEF Assign
<1>5. Busy' = Busy \cup {s} /\ s \notin Busy
  BY <1>1, <1>2 DEF Busy
<1>6. CallsOf(r)' = CallsOf(r) \cup {s} /\ s \notin CallsOf(r)
  BY <1>1, <1>2, RegistriesAssumption DEF CallsOf
<1>7. \A q \in Registries : q # r => CallsOf(q)' = CallsOf(q)
  BY <1>1, <1>2, RegistriesAssumption DEF CallsOf
<1>8. Attaching(r)' = Attaching(r) \ {t} /\ t \in Attaching(r)
  BY <1>0, <1>3, <1>t DEF Attaching, Threads
<1>9. \A q \in Registries : q # r => Attaching(q)' = Attaching(q)
  BY <1>0, <1>3, <1>t DEF Attaching, Threads
<1>10. active' = Cardinality(Busy')
  BY <1>4, <1>5, FiniteParts, OneMore DEF CountersBalanced, Busy
<1>11. ASSUME NEW q \in Registries
       PROVE  regActive'[q] = IF q \in Metered
                              THEN Cardinality(CallsOf(q)') + Cardinality(Attaching(q)')
                              ELSE 0
  <2>1. regActive[q] = IF q \in Metered
                       THEN Cardinality(CallsOf(q)) + Cardinality(Attaching(q))
                       ELSE 0
    BY DEF CountersBalanced
  <2>2. Cardinality(CallsOf(q)) \in Nat /\ Cardinality(Attaching(q)) \in Nat
    BY FiniteParts, CardinalityNat
  <2>3. CASE q = r
    <3>1. Cardinality(CallsOf(q)') = Cardinality(CallsOf(q)) + 1
      BY <2>3, <1>6, FiniteParts, OneMore
    <3>2. Cardinality(Attaching(q)') = Cardinality(Attaching(q)) - 1
      BY <2>3, <1>8, FiniteParts, OneLess
    <3> QED
      BY <3>1, <3>2, <2>1, <2>2, <1>4
  <2>4. CASE q # r
    <3>1. CallsOf(q)' = CallsOf(q) /\ Attaching(q)' = Attaching(q)
      BY <2>4, <1>7, <1>9
    <3> QED
      BY <3>1, <2>1, <1>4
  <2> QED
    BY <2>3, <2>4
<1>12. CountersBalanced'
  BY <1>10, <1>11 DEF CountersBalanced, Busy
<1>13. LimitOK'
  BY <1>4 DEF LimitOK
<1> QED
  BY <1>12, <1>13

\* Registration::attach and the release that undoes it: the thread of t is
\* counted, or no longer counted, under registration r, by d calls.
LEMMA AttachCountInv ==
    ASSUME Inv, CountInv, NEW t \in Contexts, NEW r \in Registries, NEW d \in {1, -1},
           active' = active, slot' = slot,
           \A u \in Contexts : u # t => thr'[u] = thr[u],
           regActive' = IF r \in Metered THEN [regActive EXCEPT ![r] = @ + d] ELSE regActive,
           d = 1 => /\ t \notin Attaching(r) /\ Attaching(r)' = Attaching(r) \cup {t}
                    /\ CanAttach(r),
           d = -1 => t \in Attaching(r) /\ Attaching(r)' = Attaching(r) \ {t},
           \A q \in Registries : q # r => Attaching(q)' = Attaching(q)
    PROVE  CountInv'
<1> USE DEF Inv, TypeInv, CountInv
<1>1. \A q \in Registries : CallsOf(q)' = CallsOf(q)
  BY DEF CallsOf
<1>2. ASSUME NEW q \in Registries
      PROVE  regActive'[q] = IF q \in Metered
                             THEN Cardinality(CallsOf(q)') + Cardinality(Attaching(q)')
                             ELSE 0
  <2>1. regActive[q] = IF q \in Metered
                       THEN Cardinality(CallsOf(q)) + Cardinality(Attaching(q))
                       ELSE 0
    BY DEF CountersBalanced
  <2>2. /\ Cardinality(CallsOf(q)) \in Nat /\ Cardinality(Attaching(q)) \in Nat
        /\ regActive \in [Registries -> Int]
    BY FiniteParts, CardinalityNat DEF TypeOK
  <2>3. CASE q = r /\ q \in Metered
    <3>1. Cardinality(Attaching(q)') = Cardinality(Attaching(q)) + d
      <4>1. CASE d = 1
        BY <2>3, <4>1, FiniteParts, OneMore
      <4>2. CASE d = -1
        <5>1. Cardinality(Attaching(q)') = Cardinality(Attaching(q)) - 1
          BY <2>3, <4>2, FiniteParts, OneLess
        <5> QED
          BY <5>1, <4>2, <2>2
      <4> QED
        BY <4>1, <4>2
    <3>2. regActive'[q] = regActive[q] + d
      BY <2>2, <2>3
    <3>3. Cardinality(CallsOf(q)') = Cardinality(CallsOf(q))
      BY <1>1
    <3> QED
      BY <3>1, <3>2, <3>3, <2>1, <2>2, <2>3
  <2>4. CASE q # r \/ q \notin Metered
    <3>1. regActive'[q] = regActive[q]
      BY <2>2, <2>4
    <3>2. q \in Metered => CallsOf(q)' = CallsOf(q) /\ Attaching(q)' = Attaching(q)
      BY <2>4, <1>1
    <3> QED
      BY <3>1, <3>2, <2>1
  <2> QED
    BY <2>3, <2>4
<1>3. CountersBalanced'
  BY <1>2 DEF CountersBalanced
<1>4. LimitOK'
  <2> SUFFICES ASSUME NEW q \in Metered, Limit[q] # 0 PROVE regActive'[q] <= Limit[q]
    BY DEF LimitOK
  <2>1. regActive[q] <= Limit[q] /\ regActive[q] \in Int /\ Limit[q] \in Nat /\ q \in Registries
    BY RegistriesAssumption DEF LimitOK, TypeOK
  <2>2. CASE q = r /\ d = 1
    <3>1. Limit[q] > regActive[q]
      BY <2>2 DEF CanAttach
    <3>2. regActive'[q] = regActive[q] + 1
      BY <2>2, RegistriesAssumption DEF TypeOK
    <3> QED
      BY <3>1, <3>2, <2>1
  <2>3. CASE q # r \/ d = -1
    <3>1. regActive'[q] \in {regActive[q], regActive[q] + (-1)}
      BY <2>1, <2>3 DEF TypeOK
    <3> QED
      BY <3>1, <2>1
  <2> QED
    BY <2>2, <2>3
<1> QED
  BY <1>3, <1>4

-------------------------------------------------------------------------------
(***************************************************************************)
(* Every step is one of five kinds: it starts a call, ends one, counts one *)
(* under its registration, undoes that, or leaves alone all that the       *)
(* counters and the billing depend on.                                     *)
(***************************************************************************)
SameCalls ==
    /\ served' = served
    /\ \A s \in Slots : /\ slot'[s].started = slot[s].started
                        /\ slot'[s].cid = slot[s].cid
                        /\ slot'[s].registry = slot[s].registry
                        /\ slot'[s].sequence = slot[s].sequence

SameCounts ==
    /\ active' = active
    /\ regActive' = regActive
    /\ \A t \in Contexts : \/ thr'[t].pc = thr[t].pc /\ thr'[t].registry = thr[t].registry
                           \/ /\ thr'[t].pc \notin {"assign", "unattach"}
                              /\ thr[t].pc \notin {"assign", "unattach"}
                           \/ /\ thr'[t].pc \in {"assign", "unattach"}
                              /\ thr[t].pc \in {"assign", "unattach"}
                              /\ thr'[t].registry = thr[t].registry

Starts == \E t \in Contexts, s \in Slots : Assign(t, s)

Ends ==
    \E t \in Threads, s \in Slots :
        ReleaseSlot(t, s) /\ slot[s].handler # "idle" /\ thr[t].pc \in {"ready", "post"}

Counts == \E t \in Contexts, c \in Cids, r \in Registries : Invite(t, c, r) /\ CanAttach(r)

Uncounts == \E t \in Contexts : Unattach(t)

\* What thread t does between the events that start and end calls.
LEMMA ThreadStepKinds ==
    ASSUME Inv, NEW t \in Threads, ThreadStep(t)
    PROVE  Starts \/ Ends \/ Uncounts \/ (SameCalls /\ SameCounts)
<1> USE DEF Inv, TypeInv
<1>t. thr[t] \in ThreadType /\ ThreadOK(t)
  BY DEF Threads, TypeOK, PoolInv, ThreadsOK
<1>l. thr[t].pc \in {"admit", "incoming", "arm", "post", "relist"}
         => thr[t].ts \in Slots /\ slot[thr[t].ts] \in SlotType
  BY DEF LocalsOK, TypeOK
<1>c. thr[t].pc \notin {"ready", "relist"} => t \in Contexts /\ thr[t].cid \in Cids
  BY <1>t DEF ThreadOK, LocalsOK, ThreadType, Threads
<1>d. ASSUME Done(t), thr[t].pc \notin {"assign", "unattach"},
             active' = active, regActive' = regActive
      PROVE  SameCounts
  <2>1. thr'[t].pc = "ready" /\ \A u \in Threads : u # t => thr'[u] = thr[u]
    BY <1>d DEF Done, ReadyThread, TypeOK
  <2> QED
    BY <2>1, <1>d DEF SameCounts, Threads
<1>s. ASSUME slot' = slot, served' = served PROVE SameCalls
  BY <1>s DEF SameCalls
<1>m. ASSUME NEW s \in Slots, NEW m, slot' = [slot EXCEPT ![s] = m], served' = served,
             m.started = slot[s].started, m.cid = slot[s].cid,
             m.registry = slot[s].registry, m.sequence = slot[s].sequence
      PROVE  SameCalls
  BY <1>m DEF SameCalls, TypeOK
<1>1. CASE \E s \in Slots : Assign(t, s)
  <2>1. thr[t].pc = "assign"
    BY <1>1 DEF Assign
  <2> QED
    BY <2>1, <1>1, <1>c DEF Starts
<1>2. CASE AssignFails(t)
  <2>1. thr[t].pc = "assign" /\ thr' = [thr EXCEPT ![t].pc = "unattach"]
        /\ active' = active /\ regActive' = regActive
    BY <1>2 DEF AssignFails
  <2>2. /\ thr'[t].pc = "unattach" /\ thr'[t].registry = thr[t].registry
        /\ \A u \in Threads : u # t => thr'[u] = thr[u]
    BY <2>1, <1>t DEF TypeOK, ThreadType
  <2>3. SameCounts
    BY <2>1, <2>2 DEF SameCounts, Threads
  <2> QED
    BY <2>3, <1>2, <1>s DEF AssignFails
<1>3. CASE Unattach(t)
  <2>1. thr[t].pc = "unattach"
    BY <1>3 DEF Unattach
  <2> QED
    BY <2>1, <1>3, <1>c DEF Uncounts
<1>4. CASE Challenge(t) \/ RefuseIncoming(t) \/ PostReleaseRejected(t)
  BY <1>4, <1>d, <1>s DEF Challenge, RefuseIncoming, PostReleaseRejected
<1>5. CASE StartIncoming(t) \/ SetScripting(t)
  <2>1. /\ thr[t].pc \in {"admit", "incoming"}
        /\ active' = active /\ regActive' = regActive /\ served' = served
    BY <1>5 DEF StartIncoming, SetScripting
  <2>2. /\ thr'[t].pc \in {"incoming", "arm"}
        /\ \A u \in Threads : u # t => thr'[u] = thr[u]
    BY <1>5, <1>t DEF StartIncoming, SetScripting, TypeOK, ThreadType
  <2>3. SameCounts
    BY <2>1, <2>2 DEF SameCounts, Threads
  <2>4. CASE StartIncoming(t)
    <3> DEFINE m == Trying(slot[thr[t].ts], thr[t].cid)
    <3>1. slot' = [slot EXCEPT ![thr[t].ts] = m]
      BY <2>4 DEF StartIncoming
    <3>2. /\ m.started = slot[thr[t].ts].started /\ m.cid = slot[thr[t].ts].cid
          /\ m.registry = slot[thr[t].ts].registry /\ m.sequence = slot[thr[t].ts].sequence
      BY <2>1, <1>l, <1>c, MethodMembers
    <3> HIDE DEF m
    <3> QED
      BY <3>1, <3>2, <2>1, <2>3, <1>l, <1>m
  <2>5. CASE SetScripting(t)
    <3> DEFINE m == [slot[thr[t].ts] EXCEPT !.handler = "script"]
    <3>1. slot' = [slot EXCEPT ![thr[t].ts] = m]
      BY <2>5 DEF SetScripting
    <3>2. /\ m.started = slot[thr[t].ts].started /\ m.cid = slot[thr[t].ts].cid
          /\ m.registry = slot[thr[t].ts].registry /\ m.sequence = slot[thr[t].ts].sequence
      BY <2>1, <1>l DEF SlotType
    <3> HIDE DEF m
    <3> QED
      BY <3>1, <3>2, <2>1, <2>3, <1>l, <1>m
  <2> QED
    BY <1>5, <2>4, <2>5
<1>6. CASE ArmStepping(t)
  <2> DEFINE m == [slot[thr[t].ts] EXCEPT !.timer = "step"]
  <2>1. /\ thr[t].pc = "arm" /\ slot' = [slot EXCEPT ![thr[t].ts] = m]
        /\ Done(t) /\ active' = active /\ regActive' = regActive /\ served' = served
    BY <1>6 DEF ArmStepping
  <2>2. /\ m.started = slot[thr[t].ts].started /\ m.cid = slot[thr[t].ts].cid
        /\ m.registry = slot[thr[t].ts].registry /\ m.sequence = slot[thr[t].ts].sequence
    BY <2>1, <1>l DEF SlotType
  <2> HIDE DEF m
  <2> QED
    BY <2>1, <2>2, <1>l, <1>m, <1>d
<1>7. CASE PostDrop(t)
  <2>1. /\ thr[t].pc = "post" /\ Done(t) /\ active' = active /\ regActive' = regActive
        /\ served' = served
    BY <1>7 DEF PostDrop
  <2>2. CASE slot' = slot
    BY <2>1, <2>2, <1>d, <1>s
  <2>3. CASE slot' = [slot EXCEPT ![thr[t].ts] = Disconnect(slot[thr[t].ts])]
    BY <2>1, <2>3, <1>d, <1>l, <1>m, MethodMembers
  <2> QED
    BY <2>2, <2>3, <1>7 DEF PostDrop
<1>8. CASE PostRelease(t)
  <2>1. /\ thr[t].pc = "post" /\ ReleaseSlot(t, thr[t].ts)
        /\ slot[thr[t].ts].handler # "idle"
    BY <1>8 DEF PostRelease, Dispatch
  <2> QED
    BY <2>1, <1>l DEF Ends
<1>9. CASE Relist(t)
  BY <1>9, <1>d, <1>s DEF Relist
<1> QED
  BY <1>1, <1>2, <1>3, <1>4, <1>5, <1>6, <1>7, <1>8, <1>9, ThreadStep(t) DEF ThreadStep

LEMMA StepKinds ==
    ASSUME Inv, [Next]_vars
    PROVE  Starts \/ Ends \/ Counts \/ Uncounts \/ (SameCalls /\ SameCounts)
<1> USE DEF Inv, TypeInv
<1>0. ASSUME slot' = slot, served' = served, active' = active, regActive' = regActive,
             thr' = thr
      PROVE  SameCalls /\ SameCounts
  BY <1>0 DEF SameCalls, SameCounts
<1>1. CASE UNCHANGED vars
  BY <1>1, <1>0 DEF vars
<1>2. ASSUME NEW t \in Threads, ThreadStep(t)
      PROVE  Starts \/ Ends \/ Uncounts \/ (SameCalls /\ SameCounts)
  BY <1>2, ThreadStepKinds
<1>3. ASSUME NEW t \in Contexts, NEW c \in Cids, NextEvent(t, c)
      PROVE  Counts \/ (SameCalls /\ SameCounts)
  <2>1. CASE RefuseInvite(t, c)
    BY <2>1, <1>0 DEF RefuseInvite, NewCall
  <2>2. ASSUME NEW r \in Registries, Invite(t, c, r) PROVE Counts \/ (SameCalls /\ SameCounts)
    <3>1. CASE CanAttach(r)
      BY <2>2, <3>1 DEF Counts
    <3>2. CASE ~CanAttach(r)
      BY <2>2, <3>2, <1>0 DEF Invite, NewCall
    <3> QED
      BY <3>1, <3>2
  <2>3. ASSUME NEW e \in {"DROP", "RELEASE"}, Fetch(t, c, e) PROVE SameCalls /\ SameCounts
    <3>1. thr[t].pc = "ready" /\ t \in Threads /\ thr[t] \in ThreadType
      BY <2>3 DEF Fetch, Threads, TypeOK
    <3>2. \/ thr' = thr
          \/ thr'[t].pc = "post" /\ \A u \in Threads : u # t => thr'[u] = thr[u]
      BY <2>3, <3>1 DEF Fetch, TypeOK, ThreadType
    <3>3. SameCalls
      BY <2>3 DEF Fetch, SameCalls
    <3>4. SameCounts
      BY <2>3, <3>1, <3>2 DEF Fetch, SameCounts, Threads
    <3> QED
      BY <3>3, <3>4
  <2> QED
    BY <1>3, <2>1, <2>2, <2>3 DEF NextEvent, CallClosed, ByeMessage, CallReleased
<1>4. ASSUME NEW s \in Slots, Timeout(s) \/ ControlHangup(s)
      PROVE  Ends \/ (SameCalls /\ SameCounts)
  <2>0. slot[s] \in SlotType
    BY DEF TypeOK
  <2>1. CASE StepScript(s) \/ EndScript(s) \/ ControlHangup(s)
    <3>1. SameCounts
      BY <2>1 DEF StepScript, EndScript, ControlHangup, SameCounts
    <3>2. /\ slot'[s] \in {Hangup(slot[s]), [slot[s] EXCEPT !.timer = "step"]}
          /\ \A x \in Slots : x # s => slot'[x] = slot[x]
          /\ served' = served
      BY <2>1 DEF StepScript, EndScript, ControlHangup, TypeOK
    <3>3. \A m \in {Hangup(slot[s]), [slot[s] EXCEPT !.timer = "step"]} :
             /\ m.started = slot[s].started /\ m.cid = slot[s].cid
             /\ m.registry = slot[s].registry /\ m.sequence = slot[s].sequence
      BY <2>0, MethodMembers DEF SlotType
    <3>4. SameCalls
      BY <3>2, <3>3 DEF SameCalls
    <3> QED
      BY <3>1, <3>4
  <2>2. CASE TimeoutRelease(s)
    <3>1. /\ ReleaseSlot(Background, s) /\ thr[Background].pc = "ready"
          /\ slot[s].handler # "idle" /\ Background \in Threads
      BY <2>2 DEF TimeoutRelease, Expired, Dispatch, Threads
    <3> QED
      BY <3>1 DEF Ends
  <2> QED
    BY <1>4, <2>1, <2>2 DEF Timeout
<1> QED
  BY <1>1, <1>2, <1>3, <1>4 DEF Next

LEMMA StepCountInv == Inv /\ CountInv /\ [Next]_vars => CountInv'
<1> SUFFICES ASSUME Inv, CountInv, [Next]_vars PROVE CountInv'
  OBVIOUS
<1> USE DEF Inv, TypeInv
<1>1. CASE Starts
  BY <1>1, AssignCountInv DEF Starts
<1>2. CASE Ends
  BY <1>2, ReleaseSlotCountInv DEF Ends
<1>3. CASE SameCalls /\ SameCounts
  BY <1>3, CountFrame DEF SameCalls, SameCounts
<1>4. CASE Counts
  <2>1. PICK t \in Contexts, c \in Cids, r \in Registries : Invite(t, c, r) /\ CanAttach(r)
    BY <1>4 DEF Counts
  <2>2. t \in Threads /\ thr[t] \in ThreadType /\ thr[t].pc = "ready"
    BY <2>1 DEF Threads, TypeOK, Invite, NewCall
  <2>3. /\ thr'[t].pc = "assign" /\ thr'[t].registry = r
        /\ \A u \in Contexts : u # t => thr'[u] = thr[u]
    BY <2>1, <2>2 DEF Invite, TypeOK, ThreadType, Threads
  <2>4. t \notin Attaching(r) /\ Attaching(r)' = Attaching(r) \cup {t}
    BY <2>2, <2>3 DEF Attaching
  <2>5. \A q \in Registries : q # r => Attaching(q)' = Attaching(q)
    BY <2>2, <2>3 DEF Attaching
  <2>6. /\ active' = active /\ slot' = slot
        /\ regActive' = IF r \in Metered THEN [regActive EXCEPT ![r] = @ + 1] ELSE regActive
    BY <2>1 DEF Invite, NewCall, Attach
  <2> HIDE DEF Inv, TypeInv
  <2>7. 1 \in {1, -1} /\ 1 # -1
    OBVIOUS
  <2> QED
    BY <2>1, <2>3, <2>4, <2>5, <2>6, <2>7, AttachCountInv
<1>5. CASE Uncounts
  <2>1. PICK t \in Contexts : Unattach(t)
    BY <1>5 DEF Uncounts
  <2>2. t \in Threads /\ thr[t] \in ThreadType /\ thr[t].pc = "unattach"
    BY <2>1 DEF Threads, TypeOK, Unattach
  <2>3. PICK r \in Registries : thr[t].registry = r
    BY <2>2 DEF PoolInv, ThreadsOK, ThreadOK
  <2>4. thr'[t].pc = "ready" /\ \A u \in Contexts : u # t => thr'[u] = thr[u]
    BY <2>1, <2>2 DEF Unattach, Done, ReadyThread, TypeOK, Threads
  <2>5. t \in Attaching(r) /\ Attaching(r)' = Attaching(r) \ {t}
    BY <2>2, <2>3, <2>4 DEF Attaching
  <2>6. \A q \in Registries : q # r => Attaching(q)' = Attaching(q)
    BY <2>2, <2>3, <2>4 DEF Attaching
  <2>7. active' = active /\ slot' = slot
    BY <2>1 DEF Unattach
  <2>8. regActive' = IF r \in Metered THEN [regActive EXCEPT ![r] = @ + (-1)] ELSE regActive
    <3>1. regActive' = IF r \in Metered THEN [regActive EXCEPT ![r] = @ - 1] ELSE regActive
      BY <2>1, <2>3 DEF Unattach, Detach
    <3>2. regActive[r] - 1 = regActive[r] + (-1)
      BY DEF TypeOK
    <3> QED
      BY <3>1, <3>2
  <2> HIDE DEF Inv, TypeInv
  <2>9. -1 \in {1, -1} /\ 1 # -1
    OBVIOUS
  <2> QED
    BY <2>4, <2>5, <2>6, <2>7, <2>8, <2>9, AttachCountInv
<1> QED
  BY <1>1, <1>2, <1>3, <1>4, <1>5, StepKinds

\* With one SIP context, the counters and the limits hold throughout.
LEMMA CountInvariant == ASSUME OneContext PROVE Spec => [](Inv /\ CountInv)
<1>1. Init => CountInv
  BY InitCountInv
<1>2. Inv /\ CountInv /\ [Next]_vars => CountInv'
  BY StepCountInv
<1> QED
  BY <1>1, <1>2, PoolInvariant, PTL DEF Spec

\* A registration has at most as many slots in use as its limit.
LEMMA LimitBounds ==
    ASSUME CountInv, TypeOK, NEW r \in Metered, Limit[r] # 0
    PROVE  Cardinality(CallsOf(r)) + Cardinality(Attaching(r)) <= Limit[r]
<1>1. regActive[r] <= Limit[r] /\ r \in Registries
  BY RegistriesAssumption DEF CountInv, LimitOK
<1> QED
  BY <1>1 DEF CountInv, CountersBalanced

\* With one SIP context, for any number of slots, calls and registrations:
\* the counters equal the calls they count, and a registration with a statmap
\* node stays within its limit although Registration::attach checks it before
\* Timeslot::assign takes a slot.
THEOREM CountersSafe ==
    ASSUME OneContext
    PROVE  Spec => [](CountersBalanced /\ MeteredLimitKept)
<1>1. CountInv => CountersBalanced
  BY DEF CountInv
<1>2. Inv /\ CountInv => MeteredLimitKept
  <2> SUFFICES ASSUME Inv, CountInv, NEW r \in Metered, Limit[r] # 0
               PROVE  Cardinality(CallsOf(r)) <= Limit[r]
    BY DEF MeteredLimitKept
  <2>1. Cardinality(CallsOf(r)) + Cardinality(Attaching(r)) <= Limit[r]
    BY LimitBounds DEF Inv, TypeInv
  <2>2. Cardinality(CallsOf(r)) \in Nat /\ Cardinality(Attaching(r)) \in Nat /\ Limit[r] \in Nat
    BY FiniteParts, CardinalityNat, RegistriesAssumption
  <2> QED
    BY <2>1, <2>2
<1> QED
  BY <1>1, <1>2, CountInvariant, PTL

\* With one SIP context, a registration with a statmap node never has more
\* slots in use than its limit, whatever calls arrive between the check in
\* Registration::attach and Timeslot::assign.
THEOREM LimitsSafe == ASSUME OneContext PROVE Spec => []MeteredLimitKept
BY CountersSafe, PTL

\* With one SIP context, a slot in use is never given to another call, moved
\* to another registration or given a new billing sequence.
THEOREM CallsSafe == ASSUME OneContext PROVE Spec => CallKeepsSlot
<1> DEFINE Keeps == \A s \in Slots : slot[s].started /\ slot'[s].started =>
                        /\ slot'[s].cid = slot[s].cid
                        /\ slot'[s].registry = slot[s].registry
                        /\ slot'[s].sequence = slot[s].sequence
<1>1. Inv /\ [Next]_vars => Keeps
  <2> SUFFICES ASSUME Inv, [Next]_vars PROVE Keeps
    OBVIOUS
  <2> USE DEF Inv, TypeInv
  <2>1. CASE Starts
    <3>1. PICK t \in Contexts, u \in Slots : Assign(t, u)
      BY <2>1 DEF Starts
    <3>2. ~slot[u].started /\ \A s \in Slots : s # u => slot'[s] = slot[s]
      BY <3>1 DEF Assign, PoolInv, SlotsOK, TypeOK
    <3> QED
      BY <3>2
  <2>2. CASE Ends
    <3>1. PICK t \in Threads, u \in Slots : ReleaseSlot(t, u)
      BY <2>2 DEF Ends
    <3>2. slot'[u] = Release(slot[u]) /\ slot[u] \in SlotType
          /\ \A s \in Slots : s # u => slot'[s] = slot[s]
      BY <3>1 DEF ReleaseSlot, TypeOK
    <3>3. ~slot'[u].started
      BY <3>2, MethodMembers
    <3> QED
      BY <3>2, <3>3
  <2>3. CASE Counts
    BY <2>3 DEF Counts, Invite, NewCall
  <2>4. CASE Uncounts
    BY <2>4 DEF Uncounts, Unattach
  <2>5. CASE SameCalls
    BY <2>5 DEF SameCalls
  <2> QED
    BY <2>1, <2>2, <2>3, <2>4, <2>5, StepKinds
<1> QED
  BY <1>1, PoolInvariant, PTL DEF Spec, CallKeepsSlot

-------------------------------------------------------------------------------
(* Refinement of CallPool. *)

LEMMA InitRefines == Init => Pool!PoolInit
BY DEF Init, NewSlot, Pool!PoolInit

\* The cardinality of the instance is the one of this module.
LEMMA PoolCardinality == ASSUME NEW S PROVE Pool!Cardinality(S) = Cardinality(S)
BY Zenon DEF Pool!Cardinality, Cardinality

\* Taking a slot is admission: the registration of the call is below its
\* limit, because the call is already counted and has no slot yet.
LEMMA StartRefines ==
    ASSUME Inv, CountInv, NEW t \in Contexts, NEW s \in Slots, Assign(t, s)
    PROVE  Pool!PoolNext
<1> USE DEF Inv, TypeInv
<1> DEFINE c == thr[t].cid
<1>t. /\ t \in Threads /\ thr[t].pc = "assign" /\ ThreadOK(t) /\ c \in Cids /\ c \notin served
  BY DEF Threads, PoolInv, ThreadsOK, ThreadOK, Assign, LocalsOK
<1>0. PICK r \in Registries : thr[t].registry = r
  BY <1>t DEF ThreadOK
<1>1. slot[s] \in SlotType /\ ~slot[s].started
  BY DEF TypeOK, PoolInv, SlotsOK, Assign
<1>2. /\ slot' = [slot EXCEPT ![s] = Allocate(slot[s], c, r)]
      /\ served' = served \cup {c}
  BY <1>0 DEF Assign
<1>3. /\ Allocate(slot[s], c, r).started /\ Allocate(slot[s], c, r).cid = c
      /\ Allocate(slot[s], c, r).registry = r
  BY <1>1, <1>t, MethodMembers
<1>4. [x \in Slots |-> IF slot'[x].started THEN slot'[x].cid ELSE 0]
        = [[x \in Slots |-> IF slot[x].started THEN slot[x].cid ELSE 0] EXCEPT ![s] = c]
  BY <1>2, <1>3 DEF TypeOK
<1>5. [x \in Slots |-> slot'[x].registry] = [[x \in Slots |-> slot[x].registry] EXCEPT ![s] = r]
  BY <1>2, <1>3 DEF TypeOK
<1>6. r \in Metered => Limit[r] = 0 \/ Cardinality(CallsOf(r)) < Limit[r]
  <2> SUFFICES ASSUME r \in Metered, Limit[r] # 0 PROVE Cardinality(CallsOf(r)) < Limit[r]
    OBVIOUS
  <2>1. t \in Attaching(r)
    BY <1>0, <1>t DEF Attaching
  <2>2. Cardinality(Attaching(r)) # 0
    BY <2>1, FiniteParts, FS_EmptySet
  <2>3. Cardinality(CallsOf(r)) + Cardinality(Attaching(r)) <= Limit[r]
    BY LimitBounds
  <2>4. Cardinality(CallsOf(r)) \in Nat /\ Cardinality(Attaching(r)) \in Nat /\ Limit[r] \in Nat
    BY FiniteParts, CardinalityNat, RegistriesAssumption
  <2> QED
    BY <2>2, <2>3, <2>4
<1>7. Pool!CallsOf(r) = CallsOf(r)
  BY DEF Pool!CallsOf, CallsOf
<1>8. [x \in Slots |-> IF slot[x].started THEN slot[x].cid ELSE 0][s] = 0
  BY <1>1
<1>9. Pool!Admit(s, c, r)
  <2>1. r \in Metered => Limit[r] = 0 \/ Cardinality(Pool!CallsOf(r)) < Limit[r]
    BY <1>6, <1>7
  <2>2. c \notin served /\ served' = served \cup {c}
    BY <1>t, <1>2
  <2> HIDE DEF c, Inv, TypeInv
  <2> QED
    BY <1>4, <1>5, <1>8, <2>1, <2>2, PoolCardinality DEF Pool!Admit
<1> QED
  BY <1>9, <1>t DEF Pool!PoolNext

LEMMA EndRefines ==
    ASSUME Inv, NEW t \in Threads, NEW s \in Slots, ReleaseSlot(t, s),
           slot[s].handler # "idle"
    PROVE  Pool!PoolNext
<1> USE DEF Inv, TypeInv
<1>1. slot[s] \in SlotType /\ slot[s].started /\ slot[s].cid # 0
  BY CidsAssumption DEF TypeOK, PoolInv, SlotsOK
<1>2. slot' = [slot EXCEPT ![s] = Release(slot[s])] /\ served' = served
  BY DEF ReleaseSlot
<1>3. ~Release(slot[s]).started /\ Release(slot[s]).registry = NoRegistry
  BY <1>1, MethodMembers
<1>4. [x \in Slots |-> IF slot'[x].started THEN slot'[x].cid ELSE 0]
        = [[x \in Slots |-> IF slot[x].started THEN slot[x].cid ELSE 0] EXCEPT ![s] = 0]
  BY <1>2, <1>3 DEF TypeOK
<1>5. [x \in Slots |-> slot'[x].registry]
        = [[x \in Slots |-> slot[x].registry] EXCEPT ![s] = NoRegistry]
  BY <1>2, <1>3 DEF TypeOK
<1>6. [x \in Slots |-> IF slot[x].started THEN slot[x].cid ELSE 0][s] # 0
  BY <1>1
<1>7. Pool!Finish(s)
  BY <1>2, <1>4, <1>5, <1>6 DEF Pool!Finish
<1> QED
  BY <1>7 DEF Pool!PoolNext

LEMMA StepRefines ==
    ASSUME Inv, CountInv, [Next]_vars
    PROVE  [Pool!PoolNext]_(Pool!poolVars)
<1>1. CASE Starts
  BY <1>1, StartRefines DEF Starts
<1>2. CASE Ends
  BY <1>2, EndRefines DEF Ends
<1>3. CASE Counts \/ Uncounts \/ SameCalls
  <2>1. SameCalls
    BY <1>3 DEF Counts, Uncounts, Invite, NewCall, Unattach, SameCalls
  <2> QED
    BY <2>1 DEF SameCalls, Pool!poolVars
<1> QED
  BY <1>1, <1>2, <1>3, StepKinds

\* With one SIP context, the threads, lists, locks and counters of Timeslot
\* implement the abstract pool of calls, for every size of the pool.
THEOREM Refinement == ASSUME OneContext PROVE Spec => ImplementsCallPool
<1>1. Inv /\ CountInv /\ [Next]_vars => [Pool!PoolNext]_(Pool!poolVars)
  BY StepRefines
<1> QED
  BY InitRefines, <1>1, CountInvariant, PTL DEF Spec, ImplementsCallPool, Pool!PoolSpec
===============================================================================
