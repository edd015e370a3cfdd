------------------------------- MODULE Timeslot -------------------------------
(***************************************************************************)
(* The pool of timeslots of the SIP server and the threads that work on    *)
(* it: common/timeslot.cpp with sipw/timeslot.cpp, the call events of      *)
(* sipw/thread.cpp, and the call counters of common/stats.cpp and          *)
(* common/registry.cpp.                                                    *)
(*                                                                         *)
(* One SIP thread runs per eXosip context (udp, tcp, tls); the background  *)
(* thread delivers timeouts; the control thread posts operator commands.   *)
(* A step of this module is one critical section of the code: of the       *)
(* static private_locking (the lists), of a slot's mutex (its handlers),   *)
(* or of a statmap node's mutex (the counters).  allocate() and incoming() *)
(* run without the slot's mutex and are steps of their own.                *)
(*                                                                         *)
(* The lists are sets: which free slot is the head of the list, and the    *)
(* order inside a hash chain, are left open.                               *)
(***************************************************************************)
EXTENDS Integers, FiniteSets

CONSTANTS
    Slots,          \* the timeslots, Driver::get(0) .. Driver::get(ts_count - 1)
    Cids,           \* call ids the SIP library gives to incoming calls
    Contexts,       \* SIP contexts; each has one thread::run
    Background,     \* the thread of Background::run
    ContextOf,      \* the context in which a call arrives
    Registries,     \* the registrations of the driver
    Limit,          \* the configured limit of a registration, 0 if none
    Metered,        \* registrations that were given a statmap node
    Realm,          \* whether the server has a realm set
    TIMESLOT_INDEX_SIZE,
    NoSlot,         \* a NULL Timeslot pointer
    NoRegistry      \* a NULL Registration pointer

Threads == Contexts \cup {Background}
Paths == 0 .. TIMESLOT_INDEX_SIZE - 1

ASSUME SlotsAssumption == IsFiniteSet(Slots) /\ NoSlot \notin Slots
ASSUME CidsAssumption == Cids \subseteq Nat \ {0}
ASSUME ContextsAssumption ==
    /\ IsFiniteSet(Contexts)
    /\ Background \notin Contexts
    /\ ContextOf \in [Cids -> Contexts]
ASSUME RegistriesAssumption ==
    /\ NoRegistry \notin Registries
    /\ Limit \in [Registries -> Nat]
    /\ Metered \subseteq Registries
ASSUME IndexAssumption == TIMESLOT_INDEX_SIZE \in Nat \ {0}
ASSUME RealmAssumption == Realm \in BOOLEAN

VARIABLES
    slot,       \* slot[s]: the members of Timeslot s
    timeslots,  \* the free list
    assigned,   \* assigned[p]: the hash chain of path p
    active,     \* incoming calls counted by the system's statmap
    regActive,  \* regActive[r]: incoming calls counted by r's statmap
    thr,        \* thr[t]: where thread t is and its local variables
    call,       \* call[c]: what the SIP library has reported of call c
    finals,     \* finals[c]: final responses sent to the INVITE of c (history)
    served      \* calls that were ever given a slot (history)

vars == <<slot, timeslots, assigned, active, regActive, thr, call, finals, served>>

-------------------------------------------------------------------------------
(***************************************************************************)
(* Types.  tid is the pending INVITE transaction, named by its call, or    *)
(* -1.  A timer is disarmed, armed for one script step, or armed for the   *)
(* 16 seconds an unanswered call may last.  stops counts the STOP records  *)
(* posted for a slot; its START records are counted by sequence.           *)
(***************************************************************************)
Handlers == {"idle", "release", "script"}
Timers == {"inf", "step", "trying"}

SlotType ==
    [handler : Handlers, started : BOOLEAN, cid : Cids \cup {0},
     tid : Cids \cup {-1}, registry : Registries \cup {NoRegistry},
     timer : Timers, sequence : Nat, stops : Nat]

ThreadType ==
    [pc : {"ready", "assign", "unattach", "admit", "incoming", "arm", "post", "relist"},
     cid : Cids \cup {0}, event : {"DROP", "RELEASE"},
     ts : Slots \cup {NoSlot}, registry : Registries \cup {NoRegistry},
     path : Paths]

CallStates == {"none", "live", "closed", "gone"}

TypeOK ==
    /\ slot \in [Slots -> SlotType]
    /\ timeslots \in SUBSET Slots
    /\ assigned \in [Paths -> SUBSET Slots]
    /\ active \in Int
    /\ regActive \in [Registries -> Int]
    /\ thr \in [Threads -> ThreadType]
    /\ call \in [Cids -> CallStates]
    /\ finals \in [Cids -> Nat]
    /\ served \in SUBSET Cids

-------------------------------------------------------------------------------
(***************************************************************************)
(* The members of a slot, transformed by the methods of Timeslot and of    *)
(* the SIP timeslot derived from it.                                       *)
(***************************************************************************)
NewSlot ==
    [handler |-> "idle", started |-> FALSE, cid |-> 0, tid |-> -1,
     registry |-> NoRegistry, timer |-> "inf", sequence |-> 0, stops |-> 0]

\* The slot takes a call: its START record is posted with the new sequence.
\* A slot that is not idle keeps the handler it has.
Allocate(m, c, r) ==
    [m EXCEPT !.started = TRUE, !.cid = c, !.tid = -1, !.registry = r,
              !.handler = IF @ = "idle" THEN "release" ELSE @,
              !.sequence = @ + 1]

SetIdle(m) ==
    [m EXCEPT !.handler = "idle", !.started = FALSE, !.timer = "inf"]

\* drop() ends a pending transaction; connected is never set in this driver,
\* so the branch for a connected call is never taken.
Drop(m) == [m EXCEPT !.tid = -1, !.timer = "inf"]

\* The remote end has closed the call: nothing is sent.
Disconnect(m) == [m EXCEPT !.tid = -1, !.timer = "inf", !.handler = "release"]

\* We end the call.
Hangup(m) == [Drop(m) EXCEPT !.handler = "release"]

\* The part of release() that runs under the slot's mutex.
Release(m) == [SetIdle(Drop(m)) EXCEPT !.registry = NoRegistry, !.stops = @ + 1]

\* Mutant of Trying: what is kept is not the id of the transaction.
TryingOtherId(m, c) == [m EXCEPT !.tid = 0, !.timer = "trying"]

\* arm(16000) and the transaction of the INVITE, at the start of incoming().
Trying(m, c) == [m EXCEPT !.tid = c, !.timer = "trying"]

\* Mutants of Dispatch: the idle handler accepts a release; the script handler
\* ignores one; the release handler ignores its timeout.
DispatchIdleReleases(handler, event) ==
    CASE event = "RELEASE" -> "release"
      [] handler = "script" /\ event = "DROP"    -> "disconnect"
      [] handler = "script" /\ event = "HANGUP"  -> "hangup"
      [] handler = "script" /\ event = "TIMEOUT" -> "step"
      [] handler = "release" /\ event = "TIMEOUT" -> "release"
      [] OTHER -> "reject"

DispatchScriptKeeps(handler, event) ==
    CASE handler = "script" /\ event = "DROP"    -> "disconnect"
      [] handler = "script" /\ event = "HANGUP"  -> "hangup"
      [] handler = "script" /\ event = "TIMEOUT" -> "step"
      [] handler = "release" /\ event \in {"TIMEOUT", "RELEASE"} -> "release"
      [] OTHER -> "reject"

DispatchNoTimeout(handler, event) ==
    CASE handler = "script" /\ event = "RELEASE" -> "release"
      [] handler = "script" /\ event = "DROP"    -> "disconnect"
      [] handler = "script" /\ event = "HANGUP"  -> "hangup"
      [] handler = "script" /\ event = "TIMEOUT" -> "step"
      [] handler = "release" /\ event = "RELEASE" -> "release"
      [] OTHER -> "reject"

\* The event handlers: which method an event selects in which state.
Dispatch(handler, event) ==
    CASE handler = "script" /\ event = "RELEASE" -> "release"
      [] handler = "script" /\ event = "DROP"    -> "disconnect"
      [] handler = "script" /\ event = "HANGUP"  -> "hangup"
      [] handler = "script" /\ event = "TIMEOUT" -> "step"
      [] handler = "release" /\ event \in {"TIMEOUT", "RELEASE"} -> "release"
      [] OTHER -> "reject"

\* Mutant of Declined: drop() forgets the transaction without an answer.
DeclinedSilently(s) == finals

\* The final responses sent so far, after drop() on slot s.
Declined(s) ==
    IF slot[s].tid = -1 THEN finals ELSE [finals EXCEPT ![slot[s].tid] = @ + 1]

\* The final responses sent so far, after an answer to the INVITE of c.
Answered(c) == [finals EXCEPT ![c] = @ + 1]

\* Mutants of CanAttach and Attach: one call too many; checked, not counted.
CanAttachOneMore(r) == r \in Metered => Limit[r] = 0 \/ Limit[r] >= regActive[r]
AttachUncounted(r) == regActive

\* Registration::attach: count a call unless the limit is reached.  A
\* registration without a statmap node counts nothing and refuses nothing.
CanAttach(r) == r \in Metered => Limit[r] = 0 \/ Limit[r] > regActive[r]
Attach(r) ==
    IF r \in Metered THEN [regActive EXCEPT ![r] = @ + 1] ELSE regActive

\* Registration::release(stat), also when there is no registration.
Detach(r) ==
    IF r \in Metered THEN [regActive EXCEPT ![r] = @ - 1] ELSE regActive

\* Mutant of Matches: the chain is taken for the call.
MatchesChain(c) == assigned[c % TIMESLOT_INDEX_SIZE]

\* Timeslot::get: the entry of the hash chain with this call id, if its call
\* is in progress.
Matches(c) == {s \in assigned[c % TIMESLOT_INDEX_SIZE] : slot[s].cid = c}
Lookup(c) ==
    IF Matches(c) = {} THEN {NoSlot}
    ELSE {IF slot[s].started THEN s ELSE NoSlot : s \in Matches(c)}

-------------------------------------------------------------------------------
ReadyThread ==
    [pc |-> "ready", cid |-> 0, event |-> "DROP", ts |-> NoSlot,
     registry |-> NoRegistry, path |-> 0]

Init ==
    /\ slot = [s \in Slots |-> NewSlot]
    /\ timeslots = Slots
    /\ assigned = [p \in Paths |-> {}]
    /\ active = 0
    /\ regActive = [r \in Registries |-> 0]
    /\ thr = [t \in Threads |-> ReadyThread]
    /\ call = [c \in Cids |-> "none"]
    /\ finals = [c \in Cids |-> 0]
    /\ served = {}

\* Thread t is done with its event and fetches the next one.
Done(t) == thr' = [thr EXCEPT ![t] = ReadyThread]

(***************************************************************************)
(* thread::invite.  The call is refused when the request is malformed,     *)
(* when it names no registration, or when the limit of its registration    *)
(* is reached; otherwise it is counted under the registration, and a slot  *)
(* is looked for afterwards.                                               *)
(***************************************************************************)
NewCall(t, c) ==
    /\ thr[t].pc = "ready"
    /\ ContextOf[c] = t
    /\ call[c] = "none"
    /\ call' = [call EXCEPT ![c] = "live"]
    /\ UNCHANGED <<slot, timeslots, assigned, active, served>>

RefuseInvite(t, c) ==
    /\ NewCall(t, c)
    /\ finals' = Answered(c)
    /\ UNCHANGED <<thr, regActive>>

Invite(t, c, r) ==
    /\ NewCall(t, c)
    /\ IF CanAttach(r)
       THEN /\ regActive' = Attach(r)
            /\ thr' = [thr EXCEPT ![t].pc = "assign", ![t].cid = c, ![t].registry = r]
            /\ UNCHANGED finals
       ELSE /\ finals' = Answered(c)
            /\ UNCHANGED <<thr, regActive>>

\* Mutants of Assign: the slot stays on the free list; a busy slot is taken.
AssignKeepsFree(t, s) ==
    LET c == thr[t].cid
        p == c % TIMESLOT_INDEX_SIZE
    IN  /\ thr[t].pc = "assign"
        /\ s \in timeslots
        /\ slot' = [slot EXCEPT ![s] = Allocate(@, c, thr[t].registry)]
        /\ assigned' = [assigned EXCEPT ![p] = @ \cup {s}]
        /\ active' = active + 1
        /\ thr' = [thr EXCEPT ![t].pc = "admit", ![t].ts = s]
        /\ served' = served \cup {c}
        /\ UNCHANGED <<timeslots, regActive, call, finals>>

AssignBusy(t, s) ==
    LET c == thr[t].cid
        p == c % TIMESLOT_INDEX_SIZE
    IN  /\ thr[t].pc = "assign"
        /\ slot' = [slot EXCEPT ![s] = Allocate(@, c, thr[t].registry)]
        /\ timeslots' = timeslots \ {s}
        /\ assigned' = [assigned EXCEPT ![p] = @ \cup {s}]
        /\ active' = active + 1
        /\ thr' = [thr EXCEPT ![t].pc = "admit", ![t].ts = s]
        /\ served' = served \cup {c}
        /\ UNCHANGED <<regActive, call, finals>>

\* Timeslot::assign: take a free slot for the call.
Assign(t, s) ==
    LET c == thr[t].cid
        p == c % TIMESLOT_INDEX_SIZE
    IN  /\ thr[t].pc = "assign"
        /\ s \in timeslots
        /\ slot' = [slot EXCEPT ![s] = Allocate(@, c, thr[t].registry)]
        /\ timeslots' = timeslots \ {s}
        /\ assigned' = [assigned EXCEPT ![p] = @ \cup {s}]
        /\ active' = active + 1
        /\ thr' = [thr EXCEPT ![t].pc = "admit", ![t].ts = s]
        /\ served' = served \cup {c}
        /\ UNCHANGED <<regActive, call, finals>>

\* Timeslot::assign when every slot is taken.
AssignFails(t) ==
    /\ thr[t].pc = "assign"
    /\ timeslots = {}
    /\ thr' = [thr EXCEPT ![t].pc = "unattach"]
    /\ UNCHANGED <<slot, timeslots, assigned, active, regActive, call, finals, served>>

\* Mutant of Unattach: the count under the registration is not given back.
UnattachLeaks(t) ==
    /\ thr[t].pc = "unattach"
    /\ finals' = Answered(thr[t].cid)
    /\ Done(t)
    /\ UNCHANGED <<slot, timeslots, assigned, active, regActive, call, served>>

\* No slot: the call is no longer counted under its registration.
Unattach(t) ==
    /\ thr[t].pc = "unattach"
    /\ regActive' = Detach(thr[t].registry)
    /\ finals' = Answered(thr[t].cid)
    /\ Done(t)
    /\ UNCHANGED <<slot, timeslots, assigned, active, call, served>>

\* The server has a realm: a call without credentials is challenged (no
\* answer is sent if none can be made), one for another user is forbidden.
\* The slot stays assigned, and no timer is armed for it.
Challenge(t) ==
    /\ thr[t].pc = "admit"
    /\ Realm
    /\ finals' \in {finals, Answered(thr[t].cid)}
    /\ Done(t)
    /\ UNCHANGED <<slot, timeslots, assigned, active, regActive, call, served>>

\* timeslot::incoming, up to the choice of a script.
StartIncoming(t) ==
    /\ thr[t].pc = "admit"
    /\ slot' = [slot EXCEPT ![thr[t].ts] = Trying(@, thr[t].cid)]
    /\ thr' = [thr EXCEPT ![t].pc = "incoming"]
    /\ UNCHANGED <<timeslots, assigned, active, regActive, call, finals, served>>

\* timeslot::incoming returns an error, which thread::invite sends.
RefuseIncoming(t) ==
    /\ thr[t].pc = "incoming"
    /\ finals' = Answered(thr[t].cid)
    /\ Done(t)
    /\ UNCHANGED <<slot, timeslots, assigned, active, regActive, call, served>>

\* Timeslot::setScripting: first the handler is set, then the timer.
SetScripting(t) ==
    /\ thr[t].pc = "incoming"
    /\ slot' = [slot EXCEPT ![thr[t].ts].handler = "script"]
    /\ thr' = [thr EXCEPT ![t].pc = "arm"]
    /\ UNCHANGED <<timeslots, assigned, active, regActive, call, finals, served>>

ArmStepping(t) ==
    /\ thr[t].pc = "arm"
    /\ slot' = [slot EXCEPT ![thr[t].ts].timer = "step"]
    /\ Done(t)
    /\ UNCHANGED <<timeslots, assigned, active, regActive, call, finals, served>>

(***************************************************************************)
(* thread::run for the other events of a call: the slot is looked up, and  *)
(* the event is posted to it afterwards.  A BYE outside of the call's      *)
(* dialog is posted like a closed call, and may be repeated.               *)
(***************************************************************************)
Fetch(t, c, event) ==
    /\ thr[t].pc = "ready"
    /\ ContextOf[c] = t
    /\ \E s \in Lookup(c) :
          thr' = IF s = NoSlot THEN thr
                 ELSE [thr EXCEPT ![t].pc = "post", ![t].cid = c,
                                  ![t].event = event, ![t].ts = s]
    /\ UNCHANGED <<slot, timeslots, assigned, active, regActive, finals, served>>

CallClosed(t, c) ==
    /\ call[c] = "live"
    /\ call' = [call EXCEPT ![c] = "closed"]
    /\ Fetch(t, c, "DROP")

ByeMessage(t, c) ==
    /\ call[c] \in {"live", "closed"}
    /\ call' = call
    /\ Fetch(t, c, "DROP")

CallReleased(t, c) ==
    /\ call[c] \in {"live", "closed"}
    /\ call' = [call EXCEPT ![c] = "gone"]
    /\ Fetch(t, c, "RELEASE")

\* Under its mutex, slot s is released by thread t, which returns it to the
\* free list once the mutex is free again.
ReleaseSlot(t, s) ==
    /\ slot' = [slot EXCEPT ![s] = Release(@)]
    /\ finals' = Declined(s)
    /\ active' = active - 1
    /\ regActive' = Detach(slot[s].registry)
    /\ thr' = [thr EXCEPT ![t].pc = "relist", ![t].ts = s,
                          ![t].path = slot[s].cid % TIMESLOT_INDEX_SIZE]
    /\ UNCHANGED <<timeslots, assigned, call, served>>

\* Timeslot::post of DROP.
PostDrop(t) ==
    LET s == thr[t].ts
    IN  /\ thr[t].pc = "post"
        /\ thr[t].event = "DROP"
        /\ slot' = IF Dispatch(slot[s].handler, "DROP") = "disconnect"
                   THEN [slot EXCEPT ![s] = Disconnect(@)]
                   ELSE slot
        /\ Done(t)
        /\ UNCHANGED <<timeslots, assigned, active, regActive, call, finals, served>>

\* Timeslot::post of RELEASE.
PostRelease(t) ==
    LET s == thr[t].ts
    IN  /\ thr[t].pc = "post"
        /\ thr[t].event = "RELEASE"
        /\ Dispatch(slot[s].handler, "RELEASE") = "release"
        /\ ReleaseSlot(t, s)

PostReleaseRejected(t) ==
    /\ thr[t].pc = "post"
    /\ thr[t].event = "RELEASE"
    /\ Dispatch(slot[thr[t].ts].handler, "RELEASE") = "reject"
    /\ Done(t)
    /\ UNCHANGED <<slot, timeslots, assigned, active, regActive, call, finals, served>>

\* Mutant of Relist: the slot is not taken off its hash chain.
RelistStaysIndexed(t) ==
    LET s == thr[t].ts
    IN  /\ thr[t].pc = "relist"
        /\ timeslots' = timeslots \cup {s}
        /\ Done(t)
        /\ UNCHANGED <<slot, assigned, active, regActive, call, finals, served>>

\* The end of release(): the slot leaves its chain and is free.
Relist(t) ==
    LET s == thr[t].ts
    IN  /\ thr[t].pc = "relist"
        /\ assigned' = [assigned EXCEPT ![thr[t].path] = @ \ {s}]
        /\ timeslots' = timeslots \cup {s}
        /\ Done(t)
        /\ UNCHANGED <<slot, active, regActive, call, finals, served>>

(***************************************************************************)
(* The background thread: getExpires and expire of a slot whose timer has  *)
(* run out, in one critical section of the slot's mutex.  incoming() takes *)
(* far less than the 16 seconds it arms.                                   *)
(***************************************************************************)
InIncoming(s) == \E t \in Contexts : thr[t].pc \in {"incoming", "arm"} /\ thr[t].ts = s

Expired(s, method) ==
    /\ thr[Background].pc = "ready"
    /\ slot[s].timer # "inf"
    /\ slot[s].timer = "trying" => ~InIncoming(s)
    /\ Dispatch(slot[s].handler, "TIMEOUT") = method

\* The script has more to do.
StepScript(s) ==
    /\ Expired(s, "step")
    /\ slot' = [slot EXCEPT ![s].timer = "step"]
    /\ UNCHANGED <<timeslots, assigned, active, regActive, thr, call, finals, served>>

\* The script has ended: hang up.
EndScript(s) ==
    /\ Expired(s, "step")
    /\ slot' = [slot EXCEPT ![s] = Hangup(@)]
    /\ finals' = Declined(s)
    /\ UNCHANGED <<timeslots, assigned, active, regActive, thr, call, served>>

\* A call that was never answered, or one hung up while its timer was armed.
TimeoutRelease(s) ==
    /\ Expired(s, "release")
    /\ ReleaseSlot(Background, s)

(***************************************************************************)
(* The control thread: "drop" and "hangup" of a timeslot.  The other       *)
(* events it posts, and these two in the other states, are rejected.       *)
(***************************************************************************)
ControlHangup(s) ==
    /\ Dispatch(slot[s].handler, "HANGUP") = "hangup"
    /\ slot' = [slot EXCEPT ![s] = Hangup(@)]
    /\ finals' = Declined(s)
    /\ UNCHANGED <<timeslots, assigned, active, regActive, thr, call, served>>

\* What thread t does with the event in hand.
ThreadStep(t) ==
    \/ \E s \in Slots : Assign(t, s)
    \/ AssignFails(t)
    \/ Unattach(t)
    \/ Challenge(t)
    \/ StartIncoming(t)
    \/ RefuseIncoming(t)
    \/ SetScripting(t)
    \/ ArmStepping(t)
    \/ PostDrop(t)
    \/ PostRelease(t)
    \/ PostReleaseRejected(t)
    \/ Relist(t)

Timeout(s) == StepScript(s) \/ EndScript(s) \/ TimeoutRelease(s)

NextEvent(t, c) ==
    \/ RefuseInvite(t, c)
    \/ \E r \in Registries : Invite(t, c, r)
    \/ CallClosed(t, c)
    \/ ByeMessage(t, c)
    \/ CallReleased(t, c)

Next ==
    \/ \E t \in Threads : ThreadStep(t)
    \/ \E t \in Contexts, c \in Cids : NextEvent(t, c)
    \/ \E s \in Slots : Timeout(s) \/ ControlHangup(s)

Spec == Init /\ [][Next]_vars

(***************************************************************************)
(* Fairness.  Threads run.  What only some properties need is a premise of *)
(* theirs: every pass of Background::run visits every slot; the library,   *)
(* as the comments in sipw/timeslot.cpp rely on, ends every call with a    *)
(* release event, from a first-in first-out queue.                         *)
(***************************************************************************)
ThreadFairness == \A t \in Threads : WF_vars(ThreadStep(t))
TimerFairness == \A s \in Slots : SF_vars(Timeout(s))
ReleaseFairness ==
    \A c \in Cids : SF_vars(\E t \in Contexts : CallReleased(t, c))

FairSpec == Spec /\ ThreadFairness

-------------------------------------------------------------------------------
(***************************************************************************)
(* Properties.                                                             *)
(***************************************************************************)
Carries(s, c) == slot[s].started /\ slot[s].cid = c
InHand(c) == \E t \in Contexts : thr[t].pc # "ready" /\ thr[t].cid = c
Relisting(t, s) == thr[t].pc = "relist" /\ thr[t].ts = s
CallsOf(r) == {s \in Slots : slot[s].registry = r}
Attaching(r) ==
    {t \in Contexts : thr[t].pc \in {"assign", "unattach"} /\ thr[t].registry = r}

\* A slot on the free list carries nothing over from its last call: it is
\* idle, has no timer, counts under no registration and is on no hash chain,
\* so that Timeslot::assign may hand it out without looking at it.
FreeListClean ==
    \A s \in timeslots :
        /\ ~slot[s].started
        /\ slot[s].handler = "idle"
        /\ slot[s].timer = "inf"
        /\ slot[s].registry = NoRegistry
        /\ \A p \in Paths : s \notin assigned[p]

\* A slot with a call is on the hash chain of its call id and on no other
\* list, and no two slots have the same call: Timeslot::get finds it.
BusySlotsIndexed ==
    \A s \in Slots : slot[s].started =>
        /\ slot[s].handler # "idle"
        /\ s \notin timeslots
        /\ \A p \in Paths : s \in assigned[p] <=> p = slot[s].cid % TIMESLOT_INDEX_SIZE
        /\ \A u \in Slots : Carries(u, slot[s].cid) => u = s

\* No slot is lost or returned twice: one that has no call and is not free
\* is about to be relisted by exactly one thread, and nothing else is.
NoSlotLeaked ==
    \A s \in Slots :
        IF slot[s].started \/ s \in timeslots
        THEN \A t \in Threads : ~Relisting(t, s)
        ELSE \E t \in Threads : \A u \in Threads : Relisting(u, s) <=> u = t

\* The call counters are neither leaked nor released twice on any path
\* through thread::invite and Timeslot::release: the system counts the slots
\* in use, and a registration its calls and those being assigned a slot.
CountersBalanced ==
    /\ active = Cardinality({s \in Slots : slot[s].started})
    /\ \A r \in Registries :
          regActive[r] = IF r \in Metered
                         THEN Cardinality(CallsOf(r)) + Cardinality(Attaching(r))
                         ELSE 0

\* A registration that has a statmap node never has more slots in use than
\* its limit, although the limit is checked before a slot is assigned.
MeteredLimitKept ==
    \A r \in Metered : Limit[r] # 0 => Cardinality(CallsOf(r)) <= Limit[r]

\* Every call is billed once: the START record of each sequence number of a
\* slot is followed by one STOP record before the slot takes another call.
CallDetailPaired ==
    \A s \in Slots :
        slot[s].sequence = slot[s].stops + (IF slot[s].started THEN 1 ELSE 0)

\* An event of a call is never applied to another call: the slot that
\* Timeslot::get returned still carries the call, or none, when the event is
\* posted to it.
EventReachesOwnCall ==
    \A t \in Contexts : thr[t].pc = "post" =>
        \A c \in Cids : Carries(thr[t].ts, c) => c = thr[t].cid

\* No caller is left without an answer: a call that the library considers
\* live, and that no thread and no slot is working on, was sent a final
\* response.
NoCallForgotten ==
    \A c \in Cids :
        /\ call[c] = "live"
        /\ ~InHand(c)
        /\ \A s \in Slots : ~Carries(s, c)
        => finals[c] > 0

\* While a slot has a call, no step changes which call it is, under which
\* registration it is counted, or its billing sequence.
CallKeepsSlot ==
    [][\A s \in Slots : slot[s].started /\ slot'[s].started =>
          /\ slot'[s].cid = slot[s].cid
          /\ slot'[s].registry = slot[s].registry
          /\ slot'[s].sequence = slot[s].sequence]_vars

\* Every slot that takes a call becomes free again, if the library ends
\* every call with a release event; no timer is needed for it.
SlotReturned ==
    ReleaseFairness => \A s \in Slots : slot[s].started ~> s \in timeslots

\* A slot that waits in the release state with its timer armed becomes free
\* even if the library never reports the end of its call, unless a script
\* takes the call.
UnansweredFreed ==
    TimerFairness =>
        \A s \in Slots :
            (slot[s].handler = "release" /\ slot[s].timer # "inf")
                ~> (s \in timeslots \/ slot[s].handler = "script")

\* The pool keeps the promises of CallPool.
Pool ==
    INSTANCE CallPool WITH
        Limited <- Metered,
        carries <- [s \in Slots |-> IF slot[s].started THEN slot[s].cid ELSE 0],
        account <- [s \in Slots |-> slot[s].registry]

\* Timeslot implements CallPool: no interleaving of the SIP, background and
\* control threads makes a slot take a second call, a call take a second
\* slot, or a registration exceed its limit.
ImplementsCallPool == Pool!PoolSpec
===============================================================================
