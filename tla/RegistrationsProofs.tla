------------------------- MODULE RegistrationsProofs -------------------------
(***************************************************************************)
(* Proofs about Registrations, for any number of registrations and         *)
(* transports and both builds.                                             *)
(***************************************************************************)
EXTENDS Registrations, FiniteSetTheorems, TLAPS

\* The library's lock: who has made a message holds it, and so does the main
\* thread for good where it was kept.
LocksOK ==
    /\ LockHeldForMessage
    /\ \A c \in leaked : owner[c] = Main
    /\ \A t \in Transports : thr[t].pc = "send" => owner[t] = t
    /\ main.pc = "send" => owner[reg[main.reg].context] = Main

\* The main thread has a registration in hand where it needs one, protects the
\* one it unregisters, which may have an error code for an id, and has an id for
\* the one it registers.
MainOK ==
    /\ main.pc \in {"make", "send", "unregister"} =>
          main.reg \in Registries /\ reg[main.reg].context \in Transports
    /\ main.pc = "make" => reg[main.reg].rid = -1 /\ reg[main.reg].listed
    /\ main.pc = "send" =>
          reg[main.reg].rid \in Rids /\ lib[reg[main.reg].rid].state = "built"
    /\ main.pc = "unregister" =>
          /\ mutex[main.reg] = Main /\ ~reg[main.reg].activated
          /\ reg[main.reg].rid \in Rids \cup {OtherError}
    /\ main.pc \in {"start", "make", "send"} => \A r \in todo : reg[r] = Unlisted

\* A registration with an id is listed, and the library has the id for it.
IdOK(r) ==
    /\ reg[r].rid \in Rids =>
          /\ reg[r].listed
          /\ lib[reg[r].rid].context = reg[r].context
          /\ lib[reg[r].rid].state \in {"built", "sent"}
          /\ reg[r].rid \notin dropped
    /\ reg[r].context = NoContext => reg[r].rid \notin Rids
    /\ reg[r].rid = 0 => reg[r].context = NoContext
    /\ reg[r].activated => reg[r].rid \in Rids /\ lib[reg[r].rid].state = "sent"
    /\ reg[r].rid \in confirmed => reg[r].activated \/ (main.pc = "unregister" /\ main.reg = r)

IdsOK ==
    /\ \A r \in Registries : IdOK(r)
    /\ \A q, r \in Registries : reg[q].rid \in Rids /\ reg[q].rid = reg[r].rid => q = r

Used == {i \in Rids : lib[i].state # "none"}

\* The ids of the library are used in order, at most one for each registration.
UsedOK ==
    /\ Used = 1 .. Cardinality(Used)
    /\ main.pc \in {"start", "send"} => Cardinality(Used) + Cardinality(todo) <= Cardinality(Registries)
    /\ main.pc = "make" => Cardinality(Used) + Cardinality(todo) < Cardinality(Registries)

\* An id in use belongs to a registration until it is given up.
LibOK(i) ==
    /\ lib[i].state # "none" => i \in dropped \/ \E r \in Registries : reg[r].rid = i
    /\ lib[i].state = "none" => i \notin confirmed \cup dropped
    /\ lib[i].state = "built" => main.pc = "send"
    /\ i \in confirmed \cap dropped => lib[i].state = "ended" \/ i \in kept

\* A SIP thread that has located a registration has its id, or the id was
\* given up; the one that unregisters it protects it.  None has located the
\* registration that the main thread is about to give its first id.
EventOK(t) ==
    /\ thr[t].pc \in {"located", "authenticate", "unregister"} =>
          /\ thr[t].reg \in Registries /\ thr[t].rid \in Rids
          /\ lib[thr[t].rid].state \in {"sent", "ended"}
          /\ reg[thr[t].reg].rid # thr[t].rid =>
                thr[t].rid \in dropped /\ reg[thr[t].reg].rid = -1
          /\ main.pc = "make" => main.reg # thr[t].reg
    /\ thr[t].pc = "authenticate" => thr[t].ctx # NoContext \/ thr[t].rid \in dropped
    /\ thr[t].pc = "unregister" => mutex[thr[t].reg] = t /\ reg[thr[t].reg].activated
    /\ thr[t].pc \in {"unknown", "fault"} => thr[t].rid \in dropped

RegInv ==
    /\ TypeOK /\ LocksOK /\ MainOK /\ IdsOK /\ UsedOK
    /\ \A i \in Rids : LibOK(i)
    /\ \A t \in Transports : EventOK(t)

-------------------------------------------------------------------------------
LEMMA RidFacts ==
    /\ Cardinality(Registries) \in Nat /\ Rids = 1 .. Cardinality(Registries)
    /\ Rids \subseteq Nat /\ 0 \notin Rids /\ -1 \notin Rids /\ IsFiniteSet(Rids)
    /\ OtherError \notin Rids \cup {0, -1} /\ Errors = {-1, OtherError}
<1>1. Cardinality(Registries) \in Nat
  BY RegistriesFinite, FS_CardinalityType
<1> QED
  BY <1>1, FS_Interval DEF Rids, OtherError, Errors

LEMMA RegInit == Init => RegInv
<1> SUFFICES ASSUME Init PROVE RegInv
  OBVIOUS
<1>1. contexts \subseteq Transports
  BY DEF Init, Created, LegacyCreated
<1>2. TypeOK
  BY <1>1 DEF Init, TypeOK, Threads, RegType, Unlisted, At, ThrType, Ready, Requests, Answers
<1>3. LocksOK
  BY DEF Init, LocksOK, LockHeldForMessage, At, Ready
<1>4. MainOK
  BY DEF Init, MainOK, At, Unlisted
<1>5. IdsOK
  BY RidFacts DEF Init, IdsOK, IdOK, Unlisted
<1>6. UsedOK
  <2>1. Used = {}
    BY DEF Init, Used
  <2>2. Cardinality(Used) = 0
    BY <2>1, FS_EmptySet
  <2> QED
    BY <2>1, <2>2, RidFacts DEF UsedOK, Init, At
<1>7. \A i \in Rids : LibOK(i)
  BY DEF Init, LibOK
<1>8. \A t \in Transports : EventOK(t)
  BY DEF Init, EventOK, Ready
<1> QED
  BY <1>2, <1>3, <1>4, <1>5, <1>6, <1>7, <1>8 DEF RegInv

\* Steps of a SIP thread that change nothing but where it is, and perhaps the
\* holder of the lock of its context.
LEMMA EventFrame ==
    ASSUME RegInv, NEW t \in Transports, NEW x \in ThrType,
           thr' = [thr EXCEPT ![t] = x], LocksOK', EventOK(t)',
           UNCHANGED <<build, leaked, mutex, reg, lib, main, todo, auto, history>>,
           owner' \in [Transports -> Threads \cup {Nobody}]
    PROVE  RegInv'
<1> USE DEF RegInv, build, history
<1>1. TypeOK'
  BY DEF TypeOK
<1>2. MainOK' /\ IdsOK'
  BY DEF MainOK, IdsOK, IdOK
<1>3. UsedOK'
  BY DEF UsedOK, Used
<1>4. \A i \in Rids : LibOK(i)'
  BY DEF LibOK
<1>5. \A u \in Transports : EventOK(u)'
  <2> SUFFICES ASSUME NEW u \in Transports, u # t PROVE EventOK(u)'
    OBVIOUS
  <2>1. thr'[u] = thr[u] /\ EventOK(u)
    BY DEF TypeOK
  <2> QED
    BY <2>1 DEF EventOK
<1> QED
  BY <1>1, <1>2, <1>3, <1>4, <1>5

\* The lock stays with who holds it when a thread without a message goes on.
LEMMA LocksFrame ==
    ASSUME RegInv, NEW t \in Transports, NEW x \in ThrType, thr' = [thr EXCEPT ![t] = x],
           thr[t].pc # "send", x.pc # "send", UNCHANGED <<api4, owner, leaked, main, reg>>
    PROVE  LocksOK' /\ owner' \in [Transports -> Threads \cup {Nobody}]
<1>1. thr'[t] = x /\ \A u \in Transports : u # t => thr'[u] = thr[u]
  BY DEF RegInv, TypeOK
<1> QED
  BY <1>1 DEF RegInv, TypeOK, LocksOK, LockHeldForMessage

LEMMA AnswerInv ==
    ASSUME RegInv, NEW t \in Transports, NEW i \in Rids, NEW e \in Answers, Answer(t, i, e)
    PROVE  RegInv'
<1> USE DEF locks, build, history
<1>1. CASE Located(i) = {}
  <2> DEFINE x == [Ready EXCEPT !.pc = "unknown", !.rid = i]
  <2>1. x \in ThrType /\ x.pc = "unknown" /\ x.rid = i
    BY DEF Ready, ThrType, Requests, Answers
  <2>2. i \in dropped
    BY <1>1, RidFacts DEF RegInv, LibOK, IdsOK, IdOK, Located, Answer
  <2>3. thr' = [thr EXCEPT ![t] = x]
    BY <1>1 DEF Answer
  <2>4. thr'[t] = x
    BY <2>3 DEF RegInv, TypeOK
  <2> HIDE DEF x
  <2>5. EventOK(t)'
    BY <2>1, <2>2, <2>4 DEF EventOK, Answer
  <2> QED
    BY <2>1, <2>3, <2>5, LocksFrame, EventFrame DEF Answer
<1>2. ASSUME NEW r \in Located(i),
             thr' = [thr EXCEPT ![t] = [pc |-> "located", event |-> e, rid |-> i, reg |-> r,
                                        ctx |-> NoContext]]
      PROVE  RegInv'
  <2> DEFINE x == [pc |-> "located", event |-> e, rid |-> i, reg |-> r, ctx |-> NoContext]
  <2>1. /\ x \in ThrType /\ x.pc = "located" /\ x.rid = i /\ x.reg = r /\ r \in Registries
        /\ reg[r].rid = i
    BY DEF Located, ThrType
  <2>2. thr'[t] = x
    BY <1>2 DEF RegInv, TypeOK
  <2>3. thr' = [thr EXCEPT ![t] = x]
    BY <1>2
  <2> HIDE DEF x
  <2>4. main.pc = "make" => main.reg # r
    BY <2>1, RidFacts DEF RegInv, MainOK
  <2>5. EventOK(t)'
    BY <2>1, <2>2, <2>4 DEF EventOK, Answer
  <2> QED
    BY <2>1, <2>3, <2>5, LocksFrame, EventFrame DEF Answer
<1> QED
  BY <1>1, <1>2 DEF Answer

LEMMA ReadyFacts == Ready \in ThrType /\ Ready.pc = "ready"
BY DEF Ready, ThrType, Requests, Answers

\* A thread that is done with its event, or answers it, promises nothing.
LEMMA EventDone ==
    ASSUME RegInv, NEW t \in Transports, NEW x \in ThrType,
           thr' = [thr EXCEPT ![t] = x], x.pc \in {"ready", "make", "send", "sendnull", "answer"},
           LocksOK', UNCHANGED <<build, leaked, mutex, reg, lib, main, todo, auto, history>>,
           owner' \in [Transports -> Threads \cup {Nobody}]
    PROVE  RegInv'
<1>1. thr'[t] = x
  BY DEF RegInv, TypeOK
<1>2. EventOK(t)'
  BY <1>1 DEF EventOK
<1> QED
  BY <1>2, EventFrame

LEMMA IgnoreInv ==
    ASSUME RegInv, NEW t \in Transports, Ignore(t)
    PROVE  RegInv'
BY ReadyFacts, LocksFrame, EventDone DEF Ignore, locks, build, history

LEMMA RequestInv ==
    ASSUME RegInv, NEW t \in Transports, NEW k \in Requests, Request(t, k)
    PROVE  RegInv'
<1> DEFINE x == [Ready EXCEPT !.event = k, !.pc = IF k = "reply" THEN "answer" ELSE "make"]
<1>1. x \in ThrType /\ x.pc \in {"make", "answer"}
  BY DEF Ready, ThrType, Requests, Answers
<1>2. thr' = [thr EXCEPT ![t] = x]
  BY DEF Request
<1> HIDE DEF x
<1> QED
  BY <1>1, <1>2, LocksFrame, EventDone DEF Request, locks, build, history

LEMMA SendAnswerInv ==
    ASSUME RegInv, NEW t \in Transports, SendAnswer(t)
    PROVE  RegInv'
BY ReadyFacts, LocksFrame, EventDone DEF SendAnswer, Call, locks, build, history

\* A context that is gone means that the id was given up.
LEMMA AuthenticateInv ==
    ASSUME RegInv, NEW t \in Transports, Authenticate(t)
    PROVE  RegInv'
<1> DEFINE x == [thr[t] EXCEPT !.pc = "authenticate", !.ctx = reg[thr[t].reg].context]
<1>1. thr[t] \in ThrType /\ thr[t].reg \in Registries /\ EventOK(t) /\ IdOK(thr[t].reg)
  BY DEF RegInv, TypeOK, EventOK, IdsOK, Authenticate
<1>2. reg[thr[t].reg] \in RegType
  BY <1>1 DEF RegInv, TypeOK
<1>3. /\ x \in ThrType /\ x.pc = "authenticate" /\ x.rid = thr[t].rid /\ x.reg = thr[t].reg
      /\ x.ctx = reg[thr[t].reg].context
  BY <1>1, <1>2 DEF ThrType, RegType
<1>4. thr' = [thr EXCEPT ![t] = x]
  BY <1>1 DEF Authenticate, RegInv, TypeOK
<1>5. thr'[t] = x
  BY <1>4 DEF RegInv, TypeOK
<1> HIDE DEF x
<1>6. EventOK(t)'
  BY <1>1, <1>3, <1>5 DEF EventOK, IdOK, Authenticate, history, locks
<1> QED
  BY <1>3, <1>4, <1>6, LocksFrame, EventFrame DEF Authenticate, locks, build, history

LEMMA AddAuthenticationInv ==
    ASSUME RegInv, NEW t \in Transports, AddAuthentication(t)
    PROVE  RegInv'
<1>1. CASE api4 /\ thr[t].ctx = NoContext
  <2> DEFINE x == [thr[t] EXCEPT !.pc = "fault"]
  <2>1. thr[t] \in ThrType /\ EventOK(t)
    BY DEF RegInv, TypeOK
  <2>2. x \in ThrType /\ x.pc = "fault" /\ x.rid = thr[t].rid
    BY <2>1 DEF ThrType
  <2>3. thr' = [thr EXCEPT ![t] = x]
    BY <1>1 DEF AddAuthentication, RegInv, TypeOK
  <2>4. thr'[t] = x
    BY <2>3 DEF RegInv, TypeOK
  <2> HIDE DEF x
  <2>5. EventOK(t)'
    BY <1>1, <2>1, <2>2, <2>4 DEF EventOK, AddAuthentication, history
  <2> QED
    BY <1>1, <2>2, <2>3, <2>5, LocksFrame, EventFrame DEF AddAuthentication, build, history
<1>2. CASE ~(api4 /\ thr[t].ctx = NoContext)
  BY <1>2, ReadyFacts, LocksFrame, EventDone DEF AddAuthentication, Call, locks, build, history
<1> QED
  BY <1>1, <1>2

\* The lock is taken with the message and given back with it.
LEMMA MakeResponseInv ==
    ASSUME RegInv, NEW t \in Transports, NEW made \in BOOLEAN, MakeResponse(t, made)
    PROVE  RegInv'
<1> USE DEF build, history
<1>1. thr[t] \in ThrType
  BY DEF RegInv, TypeOK
<1>2. CASE made
  <2> DEFINE x == [thr[t] EXCEPT !.pc = "send"]
  <2>1. x \in ThrType /\ x.pc = "send"
    BY <1>1 DEF ThrType
  <2>2. thr' = [thr EXCEPT ![t] = x]
    BY <1>2 DEF MakeResponse, RegInv, TypeOK
  <2>3. thr'[t] = x /\ \A u \in Transports : u # t => thr'[u] = thr[u]
    BY <2>2 DEF RegInv, TypeOK
  <2> HIDE DEF x
  <2>4. /\ owner' = [owner EXCEPT ![t] = t] /\ owner[t] \in {Nobody, t}
        /\ owner \in [Transports -> Threads \cup {Nobody}] /\ UNCHANGED <<leaked, main, reg, api4>>
    BY <1>2 DEF MakeResponse, MakeMessage, CanLock, RegInv, TypeOK
  <2>5. owner' \in [Transports -> Threads \cup {Nobody}]
    BY <2>4 DEF Threads
  <2>6. Main # t /\ Nobody # Main
    BY ThreadsDistinct
  <2>7. t \notin leaked /\ (main.pc = "send" => reg[main.reg].context # t)
    BY <2>4, <2>6 DEF RegInv, LocksOK
  <2>8. LocksOK'
    BY <2>1, <2>3, <2>4, <2>6, <2>7 DEF RegInv, LocksOK, LockHeldForMessage, MainOK
  <2> QED
    BY <2>1, <2>2, <2>5, <2>8, EventDone DEF MakeResponse, MakeMessage
<1>3. CASE ~made /\ thr[t].event = "options"
  <2> DEFINE x == [thr[t] EXCEPT !.pc = "sendnull"]
  <2>1. x \in ThrType /\ x.pc = "sendnull"
    BY <1>1 DEF ThrType
  <2>2. thr' = [thr EXCEPT ![t] = x]
    BY <1>3 DEF MakeResponse, RegInv, TypeOK
  <2> HIDE DEF x
  <2> QED
    BY <1>3, <2>1, <2>2, LocksFrame, EventDone DEF MakeResponse, MakeMessage
<1>4. CASE ~made /\ thr[t].event # "options"
  BY <1>4, ReadyFacts, LocksFrame, EventDone DEF MakeResponse, MakeMessage
<1> QED
  BY <1>2, <1>3, <1>4

LEMMA SendResponseInv ==
    ASSUME RegInv, NEW t \in Transports, SendResponse(t)
    PROVE  RegInv'
<1> USE DEF build, history
<1> DEFINE x == IF thr[t].event = "options" THEN [Ready EXCEPT !.pc = "answer"] ELSE Ready
<1>1. x \in ThrType /\ x.pc \in {"answer", "ready"}
  BY DEF Ready, ThrType, Requests, Answers
<1>2. thr' = [thr EXCEPT ![t] = x]
  BY DEF SendResponse
<1>3. thr'[t] = x /\ \A u \in Transports : u # t => thr'[u] = thr[u]
  BY <1>2 DEF RegInv, TypeOK
<1> HIDE DEF x
<1>4. CASE thr[t].pc = "sendnull"
  BY <1>1, <1>2, <1>4, LocksFrame, EventDone DEF SendResponse, Call
<1>5. CASE thr[t].pc = "send"
  <2>1. owner[t] = t /\ t # Main /\ t # Nobody
    BY <1>5, ThreadsDistinct DEF RegInv, LocksOK
  <2>2. t \notin leaked
    BY <2>1 DEF RegInv, LocksOK
  <2>3. /\ owner' = [owner EXCEPT ![t] = Nobody] /\ UNCHANGED <<leaked, main, reg, api4>>
        /\ owner \in [Transports -> Threads \cup {Nobody}]
    BY <1>5, <2>2 DEF SendResponse, SendMessage, RegInv, TypeOK
  <2>4. owner' \in [Transports -> Threads \cup {Nobody}]
    BY <2>3
  <2>5. main.pc = "send" => reg[main.reg].context # t
    BY <2>1 DEF RegInv, LocksOK
  <2>6. LocksOK'
    BY <1>1, <1>3, <2>1, <2>2, <2>3, <2>5 DEF RegInv, LocksOK, LockHeldForMessage, MainOK
  <2> QED
    BY <1>1, <1>2, <1>5, <2>4, <2>6, EventDone DEF SendResponse, SendMessage
<1> QED
  BY <1>4, <1>5 DEF SendResponse

\* Where the thread stands that has located a registration.
LEMMA LocatedFacts ==
    ASSUME RegInv, NEW t \in Transports, thr[t].pc \in {"located", "unregister"},
           NEW r, r = thr[t].reg, reg[r].rid # -1, reg[r].context # NoContext \/ reg[r].rid # 0
    PROVE  /\ r \in Registries /\ reg[r] \in RegType /\ IdOK(r) /\ thr[t] \in ThrType
           /\ reg[r].rid \in Rids /\ reg[r].rid = thr[t].rid /\ lib[reg[r].rid].state = "sent"
           /\ reg[r].context \in Transports /\ reg[r].listed
           /\ main.pc \in {"start", "make", "send"} => r \notin todo
           /\ main.pc \in {"make", "send"} => main.reg # r
<1>1. r \in Registries /\ EventOK(t) /\ IdOK(r) /\ MainOK
  BY DEF RegInv, EventOK, IdsOK
<1>2. reg[r] \in RegType /\ thr[t] \in ThrType
  BY <1>1 DEF RegInv, TypeOK
<1>3. reg[r].rid \in Rids
  BY <1>1 DEF EventOK
<1>4. reg[r].rid = thr[t].rid /\ lib[reg[r].rid].state = "sent"
  BY <1>1, <1>3 DEF EventOK, IdOK
<1>5. reg[r].context \in Transports /\ reg[r].listed
  BY <1>1, <1>2, <1>3 DEF RegType, IdOK
<1>6. main.pc \in {"start", "make", "send"} => r \notin todo
  BY <1>1, <1>5 DEF MainOK, Unlisted
<1>7. main.pc \in {"make", "send"} => main.reg # r
  BY <1>1, <1>3, <1>4, RidFacts DEF MainOK
<1> QED
  BY <1>1, <1>2, <1>3, <1>4, <1>5, <1>6, <1>7

LEMMA ConfirmInv ==
    ASSUME RegInv, NEW t \in Transports, Confirm(t)
    PROVE  RegInv'
<1> USE DEF build, history, locks
<1> DEFINE r == thr[t].reg
<1>1. CASE ~CanConfirm(r)
  BY <1>1, ReadyFacts, LocksFrame, EventDone DEF Confirm
<1>2. CASE CanConfirm(r)
  <2>1. /\ r \in Registries /\ reg[r] \in RegType /\ IdOK(r) /\ thr[t] \in ThrType
        /\ reg[r].rid \in Rids /\ reg[r].rid = thr[t].rid /\ lib[reg[r].rid].state = "sent"
        /\ reg[r].context \in Transports /\ reg[r].listed
        /\ main.pc \in {"start", "make", "send"} => r \notin todo
        /\ main.pc \in {"make", "send"} => main.reg # r
    BY <1>2, LocatedFacts DEF Confirm, CanConfirm
  <2>2. /\ reg' = [reg EXCEPT ![r].activated = TRUE] /\ confirmed' = confirmed \cup {reg[r].rid}
        /\ thr' = [thr EXCEPT ![t] = Ready] /\ mutex[r] = Nobody
        /\ UNCHANGED <<build, locks, lib, main, todo, auto, dropped, kept>>
        /\ thr[t].pc = "located"
    BY <1>2, <2>1 DEF Confirm
  <2>3. /\ \A q \in Registries : /\ reg'[q].rid = reg[q].rid /\ reg'[q].context = reg[q].context
                                 /\ reg'[q].listed = reg[q].listed /\ q # r => reg'[q] = reg[q]
        /\ reg'[r].activated /\ reg'[r] \in RegType /\ reg' \in [Registries -> RegType]
    BY <2>1, <2>2 DEF RegInv, TypeOK, RegType
  <2>4. thr'[t] = Ready /\ \A u \in Transports : u # t => thr'[u] = thr[u]
    BY <2>2 DEF RegInv, TypeOK
  <2>5. ~(main.pc = "unregister" /\ main.reg = r)
    BY <2>2, ThreadsDistinct DEF RegInv, MainOK
  <2> HIDE DEF r
  <2>6. TypeOK'
    BY <2>1, <2>2, <2>3, ReadyFacts DEF RegInv, TypeOK
  <2>7. MainOK'
    BY <2>1, <2>2, <2>3, <2>5 DEF RegInv, MainOK
  <2>8. LocksOK'
    BY <2>2, <2>3, <2>4, ReadyFacts DEF RegInv, LocksOK, LockHeldForMessage, MainOK
  <2>9. IdsOK'
    BY <2>1, <2>2, <2>3 DEF RegInv, IdsOK, IdOK
  <2>10. UsedOK'
    BY <2>2 DEF RegInv, UsedOK, Used
  <2>11. \A i \in Rids : LibOK(i)'
    BY <2>1, <2>2, <2>3 DEF RegInv, LibOK, IdOK
  <2>12. \A u \in Transports : EventOK(u)'
    <3> SUFFICES ASSUME NEW u \in Transports PROVE EventOK(u)'
      OBVIOUS
    <3>1. CASE u = t
      BY <3>1, <2>4, ReadyFacts DEF EventOK
    <3>2. CASE u # t
      BY <3>2, <2>2, <2>3, <2>4 DEF RegInv, EventOK
    <3> QED
      BY <3>1, <3>2
  <2> QED
    BY <2>6, <2>7, <2>8, <2>9, <2>10, <2>11, <2>12 DEF RegInv
<1> QED
  BY <1>1, <1>2

\* The id of a registration is given up, by a SIP thread or by the main thread;
\* one that was active only together with a call of release_registry.
LEMMA DropFrame ==
    ASSUME RegInv, NEW r \in Registries, NEW i \in Rids, i = reg[r].rid,
           reg' \in [Registries -> RegType], reg'[r].rid = -1, ~reg'[r].activated,
           \A q \in Registries : q # r => reg'[q] = reg[q] /\ mutex'[q] = mutex[q],
           dropped' = dropped \cup {i}, UNCHANGED <<confirmed, todo>>,
           lib[i].state = "sent", NEW built \in BOOLEAN,
           Unregister(i, built) \/ (UNCHANGED <<lib, kept>> /\ i \notin confirmed),
           \/ main' = main
           \/ main.pc = "unregister" /\ main.reg = r /\ main'.pc \in {"serve", "stop"}
    PROVE  /\ lib' \in [Rids -> [state : {"none", "built", "sent", "ended"},
                                 context : Transports \cup {NoContext}]]
           /\ kept' \in SUBSET Rids
           /\ IdsOK' /\ UsedOK' /\ \A j \in Rids : LibOK(j)'
           /\ \A u \in Transports :
                 thr'[u] = thr[u] /\ (thr[u].pc = "unregister" => thr[u].reg # r) => EventOK(u)'
<1>1. TypeOK /\ IdsOK /\ UsedOK /\ (\A j \in Rids : LibOK(j)) /\ \A u \in Transports : EventOK(u)
  BY DEF RegInv
<1>2. /\ lib' \in [Rids -> [state : {"none", "built", "sent", "ended"},
                            context : Transports \cup {NoContext}]]
      /\ kept' \in SUBSET Rids /\ kept \subseteq kept'
  BY <1>1 DEF TypeOK, Unregister
<1>3. /\ \A j \in Rids : j # i => lib'[j] = lib[j]
      /\ lib'[i].state \in {"sent", "ended"} /\ lib'[i].context = lib[i].context
      /\ i \in confirmed => lib'[i].state = "ended" \/ i \in kept'
  BY <1>1 DEF TypeOK, Unregister
<1>4. \A q \in Registries : q # r => reg[q].rid # i
  BY <1>1 DEF IdsOK
<1>5. IdsOK'
  <2>1. ASSUME NEW q \in Registries PROVE IdOK(q)'
    <3>1. CASE q = r
      BY <3>1, <1>1, RidFacts DEF IdOK, TypeOK
    <3>2. CASE q # r
      <4>1. reg'[q] = reg[q] /\ IdOK(q) /\ reg[q].rid # i /\ reg[q] \in RegType
        BY <3>2, <1>1, <1>4 DEF IdsOK, TypeOK
      <4> QED
        BY <3>2, <4>1, <1>3 DEF IdOK
    <3> QED
      BY <3>1, <3>2
  <2>2. \A q, s \in Registries : reg'[q].rid \in Rids /\ reg'[q].rid = reg'[s].rid => q = s
    BY <1>1, RidFacts DEF IdsOK
  <2> QED
    BY <2>1, <2>2 DEF IdsOK
<1>6. UsedOK'
  <2>1. Used' = Used
    BY <1>3 DEF Used
  <2> QED
    BY <2>1, <1>1 DEF UsedOK
<1>7. ASSUME NEW j \in Rids PROVE LibOK(j)'
  <2>1. CASE j = i
    BY <2>1, <1>1, <1>2, <1>3 DEF LibOK
  <2>2. CASE j # i
    <3>1. (\E q \in Registries : reg[q].rid = j) => \E q \in Registries : reg'[q].rid = j
      BY <2>2
    <3> QED
      BY <2>2, <3>1, <1>1, <1>2, <1>3 DEF LibOK
  <2> QED
    BY <2>1, <2>2
<1>8. ASSUME NEW u \in Transports, thr'[u] = thr[u], thr[u].pc = "unregister" => thr[u].reg # r
      PROVE  EventOK(u)'
  <2>1. EventOK(u)
    BY <1>1
  <2>2. CASE thr[u].reg = r
    BY <1>8, <2>1, <2>2, <1>3, RidFacts DEF EventOK
  <2>3. CASE thr[u].reg # r
    BY <1>8, <2>1, <2>3, <1>3 DEF EventOK
  <2> QED
    BY <2>2, <2>3
<1> QED
  BY <1>2, <1>5, <1>6, <1>7, <1>8

\* An error code that stood for an id is replaced by another error code; the
\* library never knew either.
LEMMA ErrorFrame ==
    ASSUME RegInv, NEW r \in Registries, reg[r].rid \in Errors,
           reg' \in [Registries -> RegType], reg'[r].rid \in Errors, ~reg'[r].activated,
           \A q \in Registries : q # r => reg'[q] = reg[q] /\ mutex'[q] = mutex[q],
           UNCHANGED <<lib, kept, dropped, confirmed, todo>>,
           reg'[r].rid = -1 \/ \A u \in Transports :
              thr[u].pc \in {"located", "authenticate", "unregister"} => thr[u].reg # r,
           \/ main.pc = "make" /\ main.reg = r /\ main'.pc = "start"
           \/ main.pc = "unregister" /\ main.reg = r /\ main'.pc \in {"serve", "stop"}
    PROVE  /\ lib' \in [Rids -> [state : {"none", "built", "sent", "ended"},
                                 context : Transports \cup {NoContext}]]
           /\ kept' \in SUBSET Rids
           /\ IdsOK' /\ UsedOK' /\ \A j \in Rids : LibOK(j)'
           /\ \A u \in Transports :
                 thr'[u] = thr[u] /\ (thr[u].pc = "unregister" => thr[u].reg # r) => EventOK(u)'
<1>1. TypeOK /\ IdsOK /\ UsedOK /\ (\A j \in Rids : LibOK(j)) /\ \A u \in Transports : EventOK(u)
  BY DEF RegInv
<1>2. lib' \in [Rids -> [state : {"none", "built", "sent", "ended"},
                         context : Transports \cup {NoContext}]] /\ kept' \in SUBSET Rids
  BY <1>1 DEF TypeOK
<1>3. /\ reg[r].rid \notin Rids \cup {0} /\ reg'[r].rid \notin Rids \cup {0}
      /\ confirmed \subseteq Rids
  BY <1>1, RidFacts DEF TypeOK
<1>4. IdsOK'
  <2>1. ASSUME NEW q \in Registries PROVE IdOK(q)'
    <3>1. CASE q = r
      BY <3>1, <1>3 DEF IdOK
    <3>2. CASE q # r
      <4>1. reg'[q] = reg[q] /\ IdOK(q)
        BY <3>2, <1>1 DEF IdsOK
      <4> QED
        BY <3>2, <4>1 DEF IdOK
    <3> QED
      BY <3>1, <3>2
  <2>2. \A q, s \in Registries : reg'[q].rid \in Rids /\ reg'[q].rid = reg'[s].rid => q = s
    BY <1>1, <1>3 DEF IdsOK
  <2> QED
    BY <2>1, <2>2 DEF IdsOK
<1>5. UsedOK'
  <2>1. Used' = Used
    BY DEF Used
  <2>2. Cardinality(Used) \in Nat /\ Cardinality(todo) \in Nat
    BY <1>1, RidFacts, RegistriesFinite, FS_Subset, FS_CardinalityType DEF Used, TypeOK
  <2> QED
    BY <2>1, <2>2, <1>1, RidFacts DEF UsedOK
<1>6. ASSUME NEW j \in Rids PROVE LibOK(j)'
  <2>1. (\E q \in Registries : reg[q].rid = j) => \E q \in Registries : reg'[q].rid = j
    BY <1>3
  <2> QED
    BY <2>1, <1>1 DEF LibOK
<1>7. ASSUME NEW u \in Transports, thr'[u] = thr[u], thr[u].pc = "unregister" => thr[u].reg # r
      PROVE  EventOK(u)'
  <2>1. EventOK(u)
    BY <1>1
  <2>2. CASE thr[u].reg = r
    BY <1>7, <2>1, <2>2, <1>3, RidFacts DEF EventOK
  <2>3. CASE thr[u].reg # r
    BY <1>7, <2>1, <2>3 DEF EventOK
  <2> QED
    BY <2>2, <2>3
<1> QED
  BY <1>2, <1>4, <1>5, <1>6, <1>7

\* A registration that was active is unregistered first.
LEMMA GiveUpInv ==
    ASSUME RegInv, NEW t \in Transports, GiveUp(t)
    PROVE  RegInv'
<1> USE DEF build, history, locks
<1> DEFINE r == thr[t].reg
           over == GivenUp(r, thr[t].event)
<1>1. CASE over
  BY <1>1, ReadyFacts, LocksFrame, EventDone DEF GiveUp
<1>2. CASE ~over /\ reg[r].activated
  <2> DEFINE x == [thr[t] EXCEPT !.pc = "unregister"]
  <2>0. reg[r].rid # -1 /\ reg[r].rid # 0
    BY <1>2, RidFacts DEF GiveUp, GivenUp, RegInv, EventOK, IdsOK, IdOK
  <2>1. /\ r \in Registries /\ reg[r] \in RegType /\ IdOK(r) /\ thr[t] \in ThrType
        /\ reg[r].rid \in Rids /\ reg[r].rid = thr[t].rid /\ lib[reg[r].rid].state = "sent"
        /\ main.pc = "make" => main.reg # r
    BY <2>0, LocatedFacts DEF GiveUp
  <2>2. x \in ThrType /\ x.pc = "unregister" /\ x.reg = r /\ x.rid = thr[t].rid
    BY <2>1 DEF ThrType
  <2>3. /\ mutex' = [mutex EXCEPT ![r] = t] /\ thr' = [thr EXCEPT ![t] = x]
        /\ UNCHANGED <<build, owner, leaked, reg, lib, main, todo, auto, history>>
        /\ mutex[r] = Nobody /\ thr[t].pc = "located"
    BY <1>2 DEF GiveUp, RegInv, TypeOK
  <2>4. thr'[t] = x /\ \A u \in Transports : u # t => thr'[u] = thr[u]
    BY <2>3 DEF RegInv, TypeOK
  <2>5. /\ mutex'[r] = t /\ \A q \in Registries : q # r => mutex'[q] = mutex[q]
        /\ mutex' \in [Registries -> Threads \cup {Nobody}]
    BY <2>1, <2>3 DEF RegInv, TypeOK, Threads
  <2> HIDE DEF x, r
  <2>6. TypeOK'
    BY <2>2, <2>3, <2>5 DEF RegInv, TypeOK
  <2>7. LocksOK'
    BY <2>2, <2>3, LocksFrame
  <2>8. MainOK'
    BY <2>3, <2>5, ThreadsDistinct DEF RegInv, MainOK
  <2>9. IdsOK' /\ UsedOK' /\ \A i \in Rids : LibOK(i)'
    BY <2>3 DEF RegInv, IdsOK, IdOK, UsedOK, Used, LibOK
  <2>10. \A u \in Transports : EventOK(u)'
    <3> SUFFICES ASSUME NEW u \in Transports PROVE EventOK(u)'
      OBVIOUS
    <3>1. CASE u = t
      BY <1>2, <3>1, <2>1, <2>2, <2>3, <2>4, <2>5 DEF EventOK, r
    <3>2. CASE u # t
      <4>1. EventOK(u) /\ Nobody \notin Transports
        BY ThreadsDistinct DEF RegInv
      <4>2. thr[u].pc = "unregister" => thr[u].reg # r
        BY <4>1, <2>3 DEF EventOK
      <4> QED
        BY <3>2, <4>1, <4>2, <2>3, <2>4, <2>5 DEF EventOK
    <3> QED
      BY <3>1, <3>2
  <2> QED
    BY <2>6, <2>7, <2>8, <2>9, <2>10 DEF RegInv
<1>3. CASE ~over /\ ~reg[r].activated
  <2> DEFINE i == reg[r].rid
  <2>0. reg[r].rid # -1 /\ reg[r].rid # 0
    BY <1>3, RidFacts DEF GiveUp, GivenUp, RegInv, EventOK, IdsOK, IdOK
  <2>1. /\ r \in Registries /\ reg[r] \in RegType /\ IdOK(r) /\ thr[t] \in ThrType
        /\ i \in Rids /\ lib[i].state = "sent"
        /\ main.pc \in {"start", "make", "send"} => r \notin todo
        /\ main.pc \in {"make", "send"} => main.reg # r
    BY <2>0, LocatedFacts DEF GiveUp
  <2>2. /\ reg' = [reg EXCEPT ![r].rid = -1] /\ dropped' = dropped \cup {i}
        /\ thr' = [thr EXCEPT ![t] = Ready] /\ mutex[r] = Nobody
        /\ UNCHANGED <<build, owner, leaked, mutex, lib, main, todo, auto, confirmed, kept>>
        /\ thr[t].pc = "located"
    BY <1>3 DEF GiveUp
  <2>3. /\ \A q \in Registries : q # r => reg'[q] = reg[q]
        /\ reg'[r].rid = -1 /\ ~reg'[r].activated /\ reg' \in [Registries -> RegType]
        /\ reg'[r].context = reg[r].context
    BY <1>3, <2>1, <2>2 DEF RegInv, TypeOK, RegType, Errors
  <2>4. thr'[t] = Ready /\ \A u \in Transports : u # t => thr'[u] = thr[u]
    BY <2>2 DEF RegInv, TypeOK
  <2>5. ~(main.pc = "unregister" /\ main.reg = r)
    BY <2>2, ThreadsDistinct DEF RegInv, MainOK
  <2>6. i \notin confirmed
    BY <1>3, <2>1, <2>5 DEF IdOK
  <2>7. \A u \in Transports : thr[u].pc = "unregister" => thr[u].reg # r
    BY <2>2, ThreadsDistinct DEF RegInv, EventOK
  <2> HIDE DEF r, i
  <2>8. /\ IdsOK' /\ UsedOK' /\ \A j \in Rids : LibOK(j)'
        /\ \A u \in Transports :
              thr'[u] = thr[u] /\ (thr[u].pc = "unregister" => thr[u].reg # r) => EventOK(u)'
    BY <2>1, <2>2, <2>3, <2>6, DropFrame DEF i
  <2>9. TypeOK'
    BY <2>1, <2>2, <2>3, ReadyFacts DEF RegInv, TypeOK
  <2>10. MainOK'
    BY <2>1, <2>2, <2>3, <2>5 DEF RegInv, MainOK
  <2>11. LocksOK'
    BY <2>2, <2>3, <2>4, <2>1, ReadyFacts DEF RegInv, LocksOK, LockHeldForMessage, MainOK
  <2>12. \A u \in Transports : EventOK(u)'
    <3>1. EventOK(t)'
      BY <2>4, ReadyFacts DEF EventOK
    <3> QED
      BY <3>1, <2>4, <2>7, <2>8
  <2> QED
    BY <2>8, <2>9, <2>10, <2>11, <2>12 DEF RegInv
<1> QED
  BY <1>1, <1>2, <1>3

LEMMA GiveUpUnregistersInv ==
    ASSUME RegInv, NEW t \in Transports, NEW built \in BOOLEAN, GiveUpUnregisters(t, built)
    PROVE  RegInv'
<1> USE DEF build, history
<1> DEFINE r == thr[t].reg
           i == reg[r].rid
<1>0. mutex[r] = t /\ reg[r].activated /\ r \in Registries
  BY DEF GiveUpUnregisters, RegInv, EventOK
<1>1. reg[r].rid # -1 /\ reg[r].rid # 0
  BY <1>0, RidFacts DEF RegInv, IdsOK, IdOK
<1>2. /\ reg[r] \in RegType /\ IdOK(r) /\ thr[t] \in ThrType
      /\ i \in Rids /\ lib[i].state = "sent"
      /\ main.pc \in {"start", "make", "send"} => r \notin todo
      /\ main.pc \in {"make", "send"} => main.reg # r
  BY <1>1, LocatedFacts DEF GiveUpUnregisters
<1>3. /\ reg' = [reg EXCEPT ![r].rid = -1, ![r].activated = FALSE]
      /\ dropped' = dropped \cup {i} /\ Unregister(i, built)
      /\ thr' = [thr EXCEPT ![t] = Ready] /\ mutex' = [mutex EXCEPT ![r] = Nobody]
      /\ UNCHANGED <<build, owner, leaked, main, todo, auto, confirmed>>
      /\ thr[t].pc = "unregister"
  BY DEF GiveUpUnregisters, Call
<1>4. /\ \A q \in Registries : q # r => reg'[q] = reg[q]
      /\ reg'[r].rid = -1 /\ ~reg'[r].activated /\ reg' \in [Registries -> RegType]
      /\ reg'[r].context = reg[r].context
  BY <1>0, <1>2, <1>3 DEF RegInv, TypeOK, RegType
<1>5. /\ \A q \in Registries : q # r => mutex'[q] = mutex[q]
      /\ mutex' \in [Registries -> Threads \cup {Nobody}]
  BY <1>3 DEF RegInv, TypeOK
<1>6. thr'[t] = Ready /\ \A u \in Transports : u # t => thr'[u] = thr[u]
  BY <1>3 DEF RegInv, TypeOK
<1>7. ~(main.pc = "unregister" /\ main.reg = r)
  BY <1>0, ThreadsDistinct DEF RegInv, MainOK
<1>8. \A u \in Transports : u # t => (thr[u].pc = "unregister" => thr[u].reg # r)
  BY <1>0 DEF RegInv, EventOK
<1> HIDE DEF r, i
<1>9. /\ IdsOK' /\ UsedOK' /\ \A j \in Rids : LibOK(j)'
      /\ lib' \in [Rids -> [state : {"none", "built", "sent", "ended"},
                            context : Transports \cup {NoContext}]]
      /\ kept' \in SUBSET Rids
      /\ \A u \in Transports :
            thr'[u] = thr[u] /\ (thr[u].pc = "unregister" => thr[u].reg # r) => EventOK(u)'
  BY <1>0, <1>2, <1>3, <1>4, <1>5, DropFrame DEF i
<1>10. TypeOK'
  BY <1>2, <1>3, <1>4, <1>5, <1>9, ReadyFacts DEF RegInv, TypeOK
<1>11. MainOK'
  <2>1. main.pc = "send" => reg[main.reg].rid # i
    BY <1>2 DEF RegInv, MainOK
  <2>2. \A j \in Rids : j # i => lib'[j] = lib[j]
    BY <1>2, <1>3 DEF Unregister, RegInv, TypeOK
  <2>3. MainOK /\ main' = main /\ todo' = todo
    BY <1>3 DEF RegInv
  <2>4. main.pc \in {"make", "send", "unregister"} =>
           main.reg \in Registries /\ reg'[main.reg] = reg[main.reg] /\ mutex'[main.reg] = mutex[main.reg]
    BY <2>3, <1>2, <1>4, <1>5, <1>7 DEF MainOK
  <2>5. main.pc \in {"start", "make", "send"} => \A q \in todo : reg'[q] = Unlisted
    BY <2>3, <1>2, <1>4 DEF MainOK, RegInv, TypeOK
  <2> QED
    BY <2>1, <2>2, <2>3, <2>4, <2>5 DEF MainOK
<1>12. LocksOK'
  BY <1>2, <1>3, <1>4, <1>6, ReadyFacts DEF RegInv, LocksOK, LockHeldForMessage, MainOK
<1>13. \A u \in Transports : EventOK(u)'
  <2>1. EventOK(t)'
    BY <1>6, ReadyFacts DEF EventOK
  <2> QED
    BY <2>1, <1>6, <1>8, <1>9
<1> QED
  BY <1>9, <1>10, <1>11, <1>12, <1>13 DEF RegInv

-------------------------------------------------------------------------------
\* Steps of the main thread between the visits of two registrations.
LEMMA MainFrame ==
    ASSUME RegInv, main.pc \notin {"send", "unregister"},
           main' \in [pc : {"serve", "stop", "stopped"}, reg : Registries \cup {NoRegistry},
                      ret : {"serve", "stop"}],
           todo' \in SUBSET Registries,
           UNCHANGED <<build, locks, reg, lib, thr, auto, history>>
    PROVE  RegInv'
<1> USE DEF RegInv, build, history, locks
<1>1. TypeOK'
  BY DEF TypeOK
<1>2. LocksOK'
  BY DEF LocksOK, LockHeldForMessage
<1>3. MainOK'
  BY DEF MainOK
<1>4. IdsOK' /\ UsedOK'
  BY DEF IdsOK, IdOK, UsedOK, Used
<1>5. \A i \in Rids : LibOK(i)'
  BY DEF LibOK
<1>6. \A t \in Transports : EventOK(t)'
  BY DEF EventOK
<1> QED
  BY <1>1, <1>2, <1>3, <1>4, <1>5, <1>6

LEMMA ServeInv ==
    ASSUME RegInv, Serve \/ Stop \/ Stopped
    PROVE  RegInv'
<1>1. TypeOK
  BY DEF RegInv
<1> QED
  BY <1>1, MainFrame DEF Serve, Stop, Stopped, At, TypeOK

LEMMA AutomaticInv ==
    ASSUME RegInv, BeginAutomatic \/ \E c \in Transports : AutomaticAction(c)
    PROVE  RegInv'
<1>1. /\ UNCHANGED <<build, locks, reg, lib, main, todo, thr, history>>
      /\ auto' \in SUBSET Transports
  BY DEF BeginAutomatic, AutomaticAction, Call, RegInv, TypeOK, locks
<1> QED
  BY <1>1 DEF RegInv, TypeOK, LocksOK, LockHeldForMessage, MainOK, IdsOK, IdOK, UsedOK, Used, LibOK,
              EventOK, build, history, locks

LEMMA ReleaseInv ==
    ASSUME RegInv, NEW r \in Registries, Release(r)
    PROVE  RegInv'
<1> USE DEF build, history, locks
<1>1. /\ main.pc \in {"serve", "stop"} /\ todo' \in SUBSET Registries /\ mutex[r] = Nobody
      /\ UNCHANGED <<build, owner, leaked, lib, thr, auto, history>>
      /\ reg[r] \in RegType /\ IdOK(r)
  BY DEF Release, RegInv, TypeOK, IdsOK
<1>2. CASE reg[r].rid = -1 \/ reg[r].context = NoContext
  <2>1. UNCHANGED <<reg, mutex, main>>
    BY <1>2 DEF Release
  <2> QED
    BY <1>1, <2>1, MainFrame DEF RegInv, TypeOK
<1>3. CASE ~(reg[r].rid = -1 \/ reg[r].context = NoContext)
  <2>1. /\ reg' = [reg EXCEPT ![r].activated = FALSE] /\ mutex' = [mutex EXCEPT ![r] = Main]
        /\ main' = [pc |-> "unregister", reg |-> r, ret |-> main.pc]
    BY <1>3 DEF Release
  <2>2. /\ \A q \in Registries : /\ reg'[q].rid = reg[q].rid /\ reg'[q].context = reg[q].context
                                 /\ reg'[q].listed = reg[q].listed
                                 /\ q # r => reg'[q] = reg[q] /\ mutex'[q] = mutex[q]
        /\ ~reg'[r].activated /\ reg' \in [Registries -> RegType] /\ mutex'[r] = Main
        /\ mutex' \in [Registries -> Threads \cup {Nobody}]
    BY <1>1, <2>1 DEF RegInv, TypeOK, RegType, Threads
  <2>3. reg[r].rid \in Rids \cup {OtherError} /\ reg[r].context \in Transports
    BY <1>1, <1>3, RidFacts DEF RegType, IdOK
  <2>4. TypeOK'
    BY <1>1, <2>1, <2>2 DEF RegInv, TypeOK
  <2>5. LocksOK'
    BY <1>1, <2>1 DEF RegInv, LocksOK, LockHeldForMessage
  <2>6. MainOK'
    BY <2>1, <2>2, <2>3 DEF MainOK
  <2>7. IdsOK'
    <3>1. ASSUME NEW q \in Registries PROVE IdOK(q)'
      <4>1. IdOK(q)
        BY DEF RegInv, IdsOK
      <4> QED
        BY <4>1, <1>1, <2>1, <2>2 DEF IdOK
    <3>2. \A q, p \in Registries : reg'[q].rid \in Rids /\ reg'[q].rid = reg'[p].rid => q = p
      BY <2>2 DEF RegInv, IdsOK
    <3> QED
      BY <3>1, <3>2 DEF IdsOK
  <2>8. UsedOK'
    BY <1>1, <2>1 DEF RegInv, UsedOK, Used
  <2>9. \A i \in Rids : LibOK(i)'
    BY <1>1, <2>1, <2>2 DEF RegInv, LibOK
  <2>10. ASSUME NEW t \in Transports PROVE EventOK(t)'
    <3>1. EventOK(t) /\ t # Nobody
      BY ThreadsDistinct DEF RegInv
    <3>2. thr[t].pc = "unregister" => thr[t].reg # r
      BY <1>1, <3>1 DEF EventOK
    <3> QED
      BY <3>1, <3>2, <1>1, <2>1, <2>2 DEF EventOK
  <2> QED
    BY <2>4, <2>5, <2>6, <2>7, <2>8, <2>9, <2>10 DEF RegInv
<1> QED
  BY <1>2, <1>3

LEMMA ReleaseUnregistersInv ==
    ASSUME RegInv, NEW built \in BOOLEAN, ReleaseUnregisters(built)
    PROVE  RegInv'
<1> USE DEF build, history
<1> DEFINE r == main.reg
           i == reg[r].rid
<1>1. r \in Registries /\ reg[r] \in RegType /\ mutex[r] = Main /\ IdOK(r)
      /\ i \in Rids \cup {OtherError} /\ reg[r].context \in Transports
  BY DEF ReleaseUnregisters, RegInv, MainOK, TypeOK, IdsOK
<1>2. i \in Rids => lib[i].state = "sent"
  BY <1>1 DEF ReleaseUnregisters, IdOK, RegInv, LibOK
<1>3. /\ reg' = [reg EXCEPT ![r].rid = -1, ![r].context = NoContext]
      /\ dropped' = dropped \cup ({i} \cap Rids) /\ Unregister(i, built)
      /\ main' = At(main.ret) /\ mutex' = [mutex EXCEPT ![r] = Nobody]
      /\ UNCHANGED <<build, owner, leaked, thr, todo, auto, confirmed>>
      /\ main.pc = "unregister" /\ main.ret \in {"serve", "stop"}
  BY DEF ReleaseUnregisters, Call, RegInv, TypeOK
<1>4. /\ \A q \in Registries : q # r => reg'[q] = reg[q]
      /\ reg'[r].rid = -1 /\ ~reg'[r].activated /\ reg' \in [Registries -> RegType]
  <2>1. ~reg[r].activated
    BY <1>3 DEF RegInv, MainOK
  <2> QED
    BY <1>1, <1>3, <2>1 DEF RegInv, TypeOK, RegType, Errors
<1>5. /\ \A q \in Registries : q # r => mutex'[q] = mutex[q]
      /\ mutex' \in [Registries -> Threads \cup {Nobody}]
  BY <1>3 DEF RegInv, TypeOK
<1>6. main'.pc \in {"serve", "stop"} /\ main' \in [pc : {"serve", "stop"},
         reg : {NoRegistry}, ret : {"serve"}]
  BY <1>3 DEF At
<1>7. \A t \in Transports : thr[t].pc = "unregister" => thr[t].reg # r
  BY <1>1, ThreadsDistinct DEF RegInv, EventOK
<1>8. main.reg = r /\ i = reg[r].rid
  OBVIOUS
<1> HIDE DEF r, i
<1>9. /\ IdsOK' /\ UsedOK' /\ \A j \in Rids : LibOK(j)'
      /\ lib' \in [Rids -> [state : {"none", "built", "sent", "ended"},
                            context : Transports \cup {NoContext}]]
      /\ kept' \in SUBSET Rids
      /\ \A u \in Transports :
            thr'[u] = thr[u] /\ (thr[u].pc = "unregister" => thr[u].reg # r) => EventOK(u)'
  <2>1. CASE i \in Rids
    <3>1. dropped' = dropped \cup {i}
      BY <2>1, <1>3
    <3> QED
      BY <2>1, <3>1, <1>1, <1>2, <1>3, <1>4, <1>5, <1>6, <1>8, DropFrame
  <2>2. CASE i = OtherError
    <3>1. i \notin Rids /\ {i} \cap Rids = {}
      BY <2>2, RidFacts
    <3>2. UNCHANGED <<lib, kept, dropped>>
      BY <3>1, <1>3 DEF Unregister
    <3>3. reg[r].rid \in Errors /\ reg'[r].rid \in Errors
      BY <2>2, <1>4, <1>8 DEF Errors
    <3> QED
      BY <3>2, <3>3, <1>1, <1>3, <1>4, <1>5, <1>6, <1>8, ErrorFrame
  <2> QED
    BY <2>1, <2>2, <1>1
<1>10. TypeOK'
  BY <1>1, <1>3, <1>4, <1>5, <1>6, <1>9 DEF RegInv, TypeOK
<1>11. MainOK'
  BY <1>6 DEF MainOK
<1>12. LocksOK'
  BY <1>3, <1>6 DEF RegInv, LocksOK, LockHeldForMessage
<1>13. \A u \in Transports : EventOK(u)'
  BY <1>3, <1>7, <1>9
<1> QED
  BY <1>9, <1>10, <1>11, <1>12, <1>13 DEF RegInv

LEMMA EnlistInv ==
    ASSUME RegInv, NEW r \in Registries, NEW c \in contexts \cup {NoContext}, Enlist(r, c)
    PROVE  RegInv'
<1> USE DEF build, history, locks
<1>1. /\ main.pc = "start" /\ r \in todo /\ todo' = todo \ {r} /\ reg[r] = Unlisted
      /\ c \in Transports \cup {NoContext} /\ todo \subseteq Registries
      /\ UNCHANGED <<build, locks, lib, thr, auto, history>>
  BY DEF Enlist, RegInv, MainOK, TypeOK
<1>2. /\ reg'[r] = [listed |-> TRUE, context |-> c, activated |-> FALSE,
                    rid |-> IF c = NoContext THEN 0 ELSE -1]
      /\ reg'[r] \in RegType /\ \A q \in Registries : q # r => reg'[q] = reg[q]
      /\ reg' \in [Registries -> RegType]
  BY <1>1 DEF Enlist, RegInv, TypeOK, RegType, Errors
<1>3. /\ reg'[r].listed /\ reg'[r].context = c /\ ~reg'[r].activated
      /\ reg'[r].rid \in {0, -1} /\ (reg'[r].rid = 0 <=> c = NoContext)
      /\ reg[r].rid = 0 /\ reg[r].context = NoContext
  BY <1>1, <1>2 DEF Unlisted
<1>4. /\ main' \in [pc : {"start", "make"}, reg : Registries \cup {NoRegistry}, ret : {"serve", "stop"}]
      /\ main'.pc = "make" => main'.reg = r /\ c \in Transports
  <2>1. main \in [pc : {"start"}, reg : Registries \cup {NoRegistry}, ret : {"serve", "stop"}]
    BY <1>1 DEF RegInv, TypeOK
  <2> QED
    BY <2>1, <1>1 DEF Enlist, At
<1>5. TypeOK'
  BY <1>1, <1>2, <1>4 DEF RegInv, TypeOK
<1>6. LocksOK'
  BY <1>1, <1>4 DEF RegInv, LocksOK, LockHeldForMessage
<1>7. MainOK'
  <2>1. \A q \in todo' : reg'[q] = Unlisted
    <3>1. \A q \in todo' : q \in Registries /\ q # r /\ q \in todo
      BY <1>1
    <3>2. \A q \in todo : reg[q] = Unlisted
      BY <1>1 DEF RegInv, MainOK
    <3> QED
      BY <3>1, <3>2, <1>2
  <2>2. main'.pc = "make" => c # NoContext
    BY <1>4, ThreadsDistinct
  <2>3. main'.pc \in {"start", "make"}
    BY <1>4
  <2> QED
    BY <2>1, <2>2, <2>3, <1>3, <1>4 DEF MainOK
<1>8. IdsOK'
  <2>1. ASSUME NEW q \in Registries PROVE IdOK(q)'
    <3>1. CASE q = r
      BY <3>1, <1>1, <1>3, RidFacts DEF IdOK, RegInv, TypeOK
    <3>2. CASE q # r
      <4>1. IdOK(q) /\ reg'[q] = reg[q]
        BY <3>2, <1>2 DEF RegInv, IdsOK
      <4> QED
        BY <4>1, <1>1, <1>4 DEF IdOK
    <3> QED
      BY <3>1, <3>2
  <2>2. \A q, p \in Registries : reg'[q].rid \in Rids /\ reg'[q].rid = reg'[p].rid => q = p
    BY <1>2, <1>3, RidFacts DEF RegInv, IdsOK
  <2> QED
    BY <2>1, <2>2 DEF IdsOK
<1>9. UsedOK'
  <2>1. IsFiniteSet(todo)
    BY <1>1, RegistriesFinite, FS_Subset
  <2>2. Cardinality(todo') = Cardinality(todo) - 1 /\ Cardinality(todo) \in Nat
    BY <2>1, <1>1, FS_RemoveElement, FS_CardinalityType
  <2>3. Used' = Used
    BY <1>1 DEF Used
  <2>4. Cardinality(Used) \in Nat
    BY RidFacts, FS_Subset, FS_CardinalityType DEF Used
  <2>5. Cardinality(Used) + Cardinality(todo) <= Cardinality(Registries)
    BY <1>1 DEF RegInv, UsedOK
  <2> QED
    BY <2>2, <2>3, <2>4, <2>5, <1>4, RidFacts DEF RegInv, UsedOK
<1>10. ASSUME NEW j \in Rids PROVE LibOK(j)'
  <2>1. (\E q \in Registries : reg[q].rid = j) => \E q \in Registries : reg'[q].rid = j
    BY <1>2, <1>3, RidFacts
  <2> QED
    BY <2>1, <1>1, <1>4 DEF RegInv, LibOK
<1>11. ASSUME NEW t \in Transports PROVE EventOK(t)'
  <2>1. EventOK(t)
    BY DEF RegInv
  <2>2. thr[t].pc \in {"located", "authenticate", "unregister"} => thr[t].reg # r
    BY <2>1, <1>3, RidFacts DEF EventOK
  <2> QED
    BY <2>1, <2>2, <1>1, <1>2, <1>4 DEF EventOK
<1> QED
  BY <1>5, <1>6, <1>7, <1>8, <1>9, <1>10, <1>11 DEF RegInv

\* The id is new to the library and to the registrations.
LEMMA NewId ==
    ASSUME RegInv, main.pc = "make", NEW i, i = 1 + Cardinality(Used)
    PROVE  /\ i \in Rids /\ lib[i].state = "none" /\ i \notin confirmed \cup dropped
           /\ \A q \in Registries : reg[q].rid # i
           /\ Used \cup {i} = 1 .. Cardinality(Used \cup {i})
           /\ Cardinality(Used \cup {i}) + Cardinality(todo) <= Cardinality(Registries)
<1>1. Cardinality(Used) \in Nat
  BY RidFacts, FS_Subset, FS_CardinalityType DEF Used
<1>2. Cardinality(todo) \in Nat
  BY RegistriesFinite, FS_Subset, FS_CardinalityType DEF RegInv, TypeOK
<1>3. Used = 1 .. Cardinality(Used) /\ Cardinality(Used) + Cardinality(todo) < Cardinality(Registries)
  BY DEF RegInv, UsedOK
<1>4. i \in Rids /\ i \notin Used
  BY <1>1, <1>2, <1>3, RidFacts
<1>5. lib[i].state = "none"
  BY <1>4 DEF Used
<1>6. i \notin confirmed \cup dropped
  BY <1>4, <1>5 DEF RegInv, LibOK
<1>7. \A q \in Registries : reg[q].rid # i
  BY <1>4, <1>5 DEF RegInv, IdsOK, IdOK
<1>8. Used \cup {i} = 1 .. i /\ i \in Nat
  BY <1>1, <1>3
<1>9. Cardinality(1 .. i) = i
  BY <1>1, <1>8, FS_Interval
<1>10. Cardinality(Used \cup {i}) = i
  BY <1>8, <1>9
<1>11. i + Cardinality(todo) <= Cardinality(Registries)
  BY <1>1, <1>2, <1>3, RidFacts
<1> QED
  BY <1>4, <1>5, <1>6, <1>7, <1>8, <1>10, <1>11

LEMMA MakeRegisterInv ==
    ASSUME RegInv, NEW made \in BOOLEAN, MakeRegister(made)
    PROVE  RegInv'
<1> USE DEF build, history
<1> DEFINE r == main.reg
           c == reg[r].context
           i == 1 + Cardinality(Used)
<1>1. /\ main.pc = "make" /\ r \in Registries /\ c \in Transports /\ reg[r].rid = -1
      /\ reg[r].listed /\ reg[r] \in RegType /\ IdOK(r) /\ \A q \in todo : reg[q] = Unlisted
  BY DEF MakeRegister, RegInv, MainOK, TypeOK, IdsOK
<1>2. /\ owner[c] \in {Nobody, Main} /\ owner \in [Transports -> Threads \cup {Nobody}]
      /\ leaked \subseteq Transports
      /\ UNCHANGED <<build, mutex, todo, thr, auto, history>>
  BY DEF MakeRegister, MakeRegistryRequest, LegacyMakeRegistryRequest, MakeMessage, CanLock,
         RegInv, TypeOK
<1>3. thr[c].pc # "send"
  BY <1>1, <1>2, ThreadsDistinct DEF RegInv, LocksOK
<1>4. CASE made
  <2>1. /\ owner' = [owner EXCEPT ![c] = Main] /\ leaked' = leaked
        /\ reg' = [reg EXCEPT ![r].rid = i] /\ main' = [main EXCEPT !.pc = "send"]
        /\ lib' = [lib EXCEPT ![i] = [state |-> "built", context |-> c]]
    BY <1>4 DEF MakeRegister, MakeRegistryRequest, LegacyMakeRegistryRequest, MakeMessage, AssignRid,
                Used
  <2>2. /\ i \in Rids /\ lib[i].state = "none" /\ i \notin confirmed \cup dropped
        /\ \A q \in Registries : reg[q].rid # i
        /\ Used \cup {i} = 1 .. Cardinality(Used \cup {i})
        /\ Cardinality(Used \cup {i}) + Cardinality(todo) <= Cardinality(Registries)
    BY <1>1, NewId
  <2>3. main'.pc = "send" /\ main'.reg = r
    BY <2>1 DEF RegInv, TypeOK
  <2>4. ~reg[r].activated /\ r \notin todo /\ 0 # -1
    BY <1>1, RidFacts DEF IdOK, Unlisted
  <2> HIDE DEF r, c, i
  <2>5. /\ reg'[r].rid = i /\ reg'[r].listed /\ reg'[r].context = reg[r].context /\ ~reg'[r].activated
        /\ \A q \in Registries : q # r => reg'[q] = reg[q]
        /\ reg' \in [Registries -> RegType]
    BY <1>1, <2>1, <2>2, <2>4 DEF RegInv, TypeOK, RegType
  <2>6. /\ lib'[i].state = "built" /\ lib'[i].context = c /\ \A j \in Rids : j # i => lib'[j] = lib[j]
        /\ lib' \in [Rids -> [state : {"none", "built", "sent", "ended"},
                              context : Transports \cup {NoContext}]]
    BY <1>1, <2>1, <2>2 DEF RegInv, TypeOK
  <2>7. owner'[c] = Main /\ \A d \in Transports : d # c => owner'[d] = owner[d]
    BY <1>1, <1>2, <2>1
  <2>8. TypeOK'
    BY <1>2, <2>1, <2>5, <2>6 DEF RegInv, TypeOK, Threads
  <2>9. c = reg'[r].context
    BY <2>5 DEF c
  <2>10. LocksOK'
    BY <1>1, <1>2, <1>3, <2>1, <2>3, <2>5, <2>7, <2>9 DEF RegInv, LocksOK, LockHeldForMessage
  <2>11. MainOK'
    BY <1>1, <1>2, <2>2, <2>3, <2>4, <2>5, <2>6, <2>9 DEF RegInv, MainOK, TypeOK
  <2>12. IdsOK'
    <3>1. ASSUME NEW q \in Registries PROVE IdOK(q)'
      <4>1. CASE q = r
        BY <4>1, <1>1, <1>2, <2>2, <2>3, <2>5, <2>6, <2>9, RidFacts, ThreadsDistinct DEF IdOK
      <4>2. CASE q # r
        <5>1. IdOK(q) /\ reg'[q] = reg[q] /\ reg[q].rid # i
          BY <4>2, <2>2, <2>5 DEF RegInv, IdsOK
        <5> QED
          BY <5>1, <1>1, <1>2, <2>6 DEF IdOK
      <4> QED
        BY <4>1, <4>2
    <3>2. \A q, p \in Registries : reg'[q].rid \in Rids /\ reg'[q].rid = reg'[p].rid => q = p
      BY <2>2, <2>5 DEF RegInv, IdsOK
    <3> QED
      BY <3>1, <3>2 DEF IdsOK
  <2>13. UsedOK'
    <3>1. Used' = Used \cup {i}
      BY <2>2, <2>6 DEF Used
    <3> QED
      BY <3>1, <2>2, <2>3, <1>2 DEF UsedOK
  <2>14. ASSUME NEW j \in Rids PROVE LibOK(j)'
    <3>1. CASE j = i
      BY <3>1, <1>1, <1>2, <2>2, <2>3, <2>5, <2>6 DEF LibOK
    <3>2. CASE j # i
      <4>1. (\E q \in Registries : reg[q].rid = j) => \E q \in Registries : reg'[q].rid = j
        BY <1>1, <2>5, RidFacts
      <4> QED
        BY <3>2, <4>1, <1>1, <1>2, <2>3, <2>6 DEF RegInv, LibOK
    <3> QED
      BY <3>1, <3>2
  <2>15. ASSUME NEW t \in Transports PROVE EventOK(t)'
    <3>1. EventOK(t)
      BY DEF RegInv
    <3>2. thr[t].pc \in {"located", "authenticate", "unregister"} => thr[t].reg # r /\ thr[t].rid # i
      BY <3>1, <1>1, <2>2 DEF EventOK, r
    <3> QED
      BY <3>1, <3>2, <1>2, <2>3, <2>5, <2>6 DEF EventOK
  <2> QED
    BY <2>8, <2>10, <2>11, <2>12, <2>13, <2>14, <2>15 DEF RegInv
<1>5. CASE ~made
  <2>1. PICK e \in Errors : reg' = AssignRid(r, e)
    BY <1>5 DEF MakeRegister
  <2>2. /\ reg' = [reg EXCEPT ![r].rid = e] /\ lib' = lib /\ main' = At("start")
        /\ \/ UNCHANGED <<owner, leaked>>
           \/ ~api4 /\ owner' = [owner EXCEPT ![c] = Main] /\ leaked' = leaked \cup {c}
    BY <1>5, <2>1 DEF MakeRegister, MakeRegistryRequest, LegacyMakeRegistryRequest, MakeMessage,
                      AssignRid
  <2>3. main'.pc = "start" /\ main' \in [pc : {"start"}, reg : {NoRegistry}, ret : {"serve"}]
    BY <2>2 DEF At
  <2>4. ~reg[r].activated /\ r \notin todo /\ -1 \in Errors
    BY <1>1, RidFacts DEF IdOK, Unlisted
  <2>5. /\ reg'[r].rid = e /\ reg'[r].context = reg[r].context /\ ~reg'[r].activated
        /\ \A q \in Registries : q # r => reg'[q] = reg[q]
        /\ reg' \in [Registries -> RegType]
    BY <1>1, <2>2, <2>4 DEF RegInv, TypeOK, RegType
  <2>6. main.reg = r /\ c = reg[r].context
    OBVIOUS
  <2> HIDE DEF r, c, i
  <2>7. \A t \in Transports :
           thr[t].pc \in {"located", "authenticate", "unregister"} => thr[t].reg # r
    BY <1>1, <2>6 DEF RegInv, EventOK
  <2>8. /\ IdsOK' /\ UsedOK' /\ (\A j \in Rids : LibOK(j)')
        /\ \A u \in Transports :
              thr'[u] = thr[u] /\ (thr[u].pc = "unregister" => thr[u].reg # r) => EventOK(u)'
    BY <1>1, <1>2, <2>2, <2>3, <2>4, <2>5, <2>6, <2>7, ErrorFrame
  <2>9. TypeOK'
    BY <1>1, <1>2, <2>2, <2>3, <2>5 DEF RegInv, TypeOK, Threads
  <2>10. LocksOK'
    BY <1>1, <1>2, <1>3, <2>2, <2>3 DEF RegInv, LocksOK, LockHeldForMessage
  <2>11. MainOK'
    <3>1. \A q \in todo' : reg'[q] = Unlisted
      BY <1>1, <1>2, <2>4, <2>5 DEF RegInv, TypeOK
    <3> QED
      BY <2>3, <3>1 DEF MainOK
  <2>12. \A t \in Transports : EventOK(t)'
    BY <1>2, <2>7, <2>8
  <2> QED
    BY <2>8, <2>9, <2>10, <2>11, <2>12 DEF RegInv
<1> QED
  BY <1>4, <1>5

LEMMA SendRegisterInv ==
    ASSUME RegInv, SendRegister
    PROVE  RegInv'
<1> USE DEF build, history
<1> DEFINE r == main.reg
           c == reg[r].context
<1>1. /\ main.pc = "send" /\ r \in Registries /\ c \in Transports /\ owner[c] = Main
      /\ UNCHANGED <<build, leaked, mutex, reg, todo, thr, auto, history>>
      /\ owner' = IF c \in leaked THEN owner ELSE [owner EXCEPT ![c] = Nobody]
      /\ owner \in [Transports -> Threads \cup {Nobody}]
      /\ \A q \in todo : reg[q] = Unlisted
  BY DEF SendRegister, SendMessage, RegInv, MainOK, LocksOK, TypeOK
<1>2. main'.pc = "start" /\ main' \in [pc : {"start"}, reg : {NoRegistry}, ret : {"serve"}]
  BY DEF SendRegister, At
<1>3. /\ lib' \in [Rids -> [state : {"none", "built", "sent", "ended"},
                            context : Transports \cup {NoContext}]]
      /\ \A j \in Rids : /\ lib'[j].context = lib[j].context
                         /\ lib[j].state # "built" => lib'[j] = lib[j]
                         /\ lib[j].state = "built" => lib'[j].state = "sent"
  BY DEF SendRegister, RegInv, TypeOK
<1>4. thr[c].pc # "send"
  BY <1>1, ThreadsDistinct DEF RegInv, LocksOK
<1>5. owner' \in [Transports -> Threads \cup {Nobody}]
  BY <1>1
<1>6. TypeOK'
  BY <1>1, <1>2, <1>3, <1>5 DEF RegInv, TypeOK
<1>7. LocksOK'
  BY <1>1, <1>2, <1>4 DEF RegInv, LocksOK, LockHeldForMessage
<1>8. MainOK'
  BY <1>1, <1>2 DEF MainOK
<1>9. IdsOK'
  BY <1>1, <1>2, <1>3 DEF RegInv, IdsOK, IdOK
<1>10. UsedOK'
  <2>1. Used' = Used
    BY <1>3 DEF Used
  <2> QED
    BY <2>1, <1>1, <1>2 DEF RegInv, UsedOK
<1>11. \A j \in Rids : LibOK(j)'
  BY <1>1, <1>2, <1>3 DEF RegInv, LibOK
<1>12. \A t \in Transports : EventOK(t)'
  BY <1>1, <1>2, <1>3 DEF RegInv, EventOK
<1> QED
  BY <1>6, <1>7, <1>8, <1>9, <1>10, <1>11, <1>12 DEF RegInv

-------------------------------------------------------------------------------
LEMMA RegStep == RegInv /\ [Next]_vars => RegInv'
<1> SUFFICES ASSUME RegInv, [Next]_vars PROVE RegInv'
  OBVIOUS
<1>1. CASE MainStep
  BY <1>1, EnlistInv, MakeRegisterInv, SendRegisterInv, ServeInv, ReleaseUnregistersInv, ReleaseInv
     DEF MainStep
<1>2. ASSUME NEW t \in Transports, EventStep(t) PROVE RegInv'
  BY <1>2, IgnoreInv, ConfirmInv, GiveUpInv, GiveUpUnregistersInv, AuthenticateInv,
     AddAuthenticationInv, MakeResponseInv, SendResponseInv, SendAnswerInv DEF EventStep
<1>3. CASE \E c \in Transports : AutomaticAction(c)
  BY <1>3, AutomaticInv
<1>4. CASE Environment
  BY <1>4, ServeInv, ReleaseInv, AnswerInv, RequestInv, AutomaticInv DEF Environment
<1>5. CASE UNCHANGED vars
  BY <1>5 DEF vars, RegInv, TypeOK, LocksOK, LockHeldForMessage, MainOK, IdsOK, IdOK, UsedOK, Used,
              LibOK, EventOK
<1> QED
  BY <1>1, <1>2, <1>3, <1>4, <1>5 DEF Next

LEMMA RegInvHolds == Spec => []RegInv
BY RegInit, RegStep, PTL DEF Spec

\* The members of the registrations, the locks, what the library knows and what
\* the threads have in hand keep their types.
THEOREM RegistrationsTypeCorrect == Spec => []TypeOK
<1>1. RegInv => TypeOK
  BY DEF RegInv
<1> QED
  BY <1>1, RegInvHolds, PTL

\* The lock that the make functions of voip.cpp take is held only from the
\* message to its sending, but for the one make_registry_request of the earlier
\* libraries keeps.
THEOREM LocksSafe == Spec => []LockHeldForMessage
<1>1. RegInv => LockHeldForMessage
  BY DEF RegInv, LocksOK
<1> QED
  BY <1>1, RegInvHolds, PTL

\* What registration::confirm, failed, cancel and release leave active is
\* registered in the library, and voip::release_registry was called for what was
\* active before it is given up; where that fails the library keeps it.
THEOREM LibrarySafe == Spec => []LibraryAgrees
<1>1. RegInv => LibraryAgrees
  <2> SUFFICES ASSUME RegInv PROVE LibraryAgrees
    OBVIOUS
  <2>1. ASSUME NEW r \in Registries, reg[r].activated
        PROVE  /\ reg[r].rid \in Rids
               /\ lib[reg[r].rid] = [state |-> "sent", context |-> reg[r].context]
    <3>1. IdOK(r)
      BY DEF RegInv, IdsOK
    <3>2. /\ reg[r].rid \in Rids /\ lib[reg[r].rid].state = "sent"
          /\ lib[reg[r].rid].context = reg[r].context
      BY <2>1, <3>1 DEF IdOK
    <3>3. lib[reg[r].rid] \in [state : {"none", "built", "sent", "ended"},
                               context : Transports \cup {NoContext}]
      BY <3>2 DEF RegInv, TypeOK
    <3> QED
      BY <3>2, <3>3
  <2>2. \A i \in confirmed \cap dropped : lib[i].state = "ended" \/ i \in kept
    BY DEF RegInv, TypeOK, LibOK
  <2> QED
    BY <2>1, <2>2 DEF LibraryAgrees
<1> QED
  BY <1>1, RegInvHolds, PTL

\* driver::locate finds the registration an answer is for, also while its
\* constructor runs, unless its id was given up.
THEOREM AnswersSafe == Spec => []AnswerFindsRegistration
<1>1. RegInv => AnswerFindsRegistration
  BY DEF RegInv, EventOK, AnswerFindsRegistration
<1> QED
  BY <1>1, RegInvHolds, PTL
===============================================================================
