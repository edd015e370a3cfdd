---------------------------- MODULE Registrations ----------------------------
(***************************************************************************)
(* Registrations with SIP providers (sipw/registry.cpp), the wrapper of    *)
(* the SIP library they and the SIP threads call (sipw/voip.cpp), and the  *)
(* lock of the library, which the wrapper takes in one function and gives  *)
(* back in another.                                                        *)
(*                                                                         *)
(* The main thread constructs the registrations while the SIP threads      *)
(* already run, then serves the operator's release command, and releases   *)
(* all of them when the server stops.  A wrapper function that locks,      *)
(* calls the library and unlocks is one step; the make functions return    *)
(* with the lock held when they return a message.  The library's mutex is  *)
(* recursive.                                                              *)
(***************************************************************************)
EXTENDS Integers, FiniteSets

CONSTANTS
    Registries,     \* the registrations of the configuration
    Transports,     \* udp, tcp, tls: their contexts and their SIP threads
    Main,           \* the main thread, which runs the control loop
    Background,     \* the background thread
    NoContext,      \* NULL
    Nobody,         \* holder of a lock that is free
    NoRegistry      \* no registration found

ASSUME RegistriesFinite == IsFiniteSet(Registries) /\ NoRegistry \notin Registries
ASSUME ThreadsDistinct ==
    /\ NoContext \notin Transports
    /\ Main \notin Transports /\ Background \notin Transports \cup {Main}
    /\ Nobody \notin Transports \cup {Main, Background}

VARIABLES
    api4,       \* built for eXosip 4, or for an earlier one
    contexts,   \* the contexts that voip::create has made
    owner,      \* owner[c]: the thread that holds the library's lock
    leaked,     \* contexts whose lock is held once more than it is given back (history)
    reg,        \* reg[r]: the members of a registration
    mutex,      \* mutex[r]: the thread inside a member function that protects r
    lib,        \* lib[i]: what the library knows of registration id i
    main,       \* where the main thread is
    todo,       \* registrations that start or stop has still to visit
    thr,        \* thr[t]: where the SIP thread of context t is, and its locals
    auto,       \* contexts that background::automatic has still to visit
    confirmed,  \* ids that were active at some time (history)
    dropped,    \* ids that failed, cancel or release have given up (history)
    kept        \* ids the library was not told to unregister, as it failed to (history)

vars == <<api4, contexts, owner, leaked, reg, mutex, lib, main, todo, thr, auto,
          confirmed, dropped, kept>>

Rids == 1 .. Cardinality(Registries)

\* The error codes of the library, which are negative: -1 and any other.
OtherError == -2
Errors == {-1, OtherError}

Threads == Transports \cup {Main, Background}

RegType == [listed : BOOLEAN, context : Transports \cup {NoContext},
            rid : Rids \cup Errors \cup {0}, activated : BOOLEAN]

Answers == {"unauthorized", "failure", "terminated", "success"}
Requests == {"options", "challenge", "reply"}

ThrType ==
    [pc : {"ready", "unknown", "located", "authenticate", "unregister", "fault",
           "make", "send", "sendnull", "answer"},
     event : Answers \cup Requests, rid : Rids \cup {0},
     reg : Registries \cup {NoRegistry}, ctx : Transports \cup {NoContext}]

TypeOK ==
    /\ api4 \in BOOLEAN
    /\ contexts \in SUBSET Transports
    /\ owner \in [Transports -> Threads \cup {Nobody}]
    /\ leaked \in SUBSET Transports
    /\ reg \in [Registries -> RegType]
    /\ mutex \in [Registries -> Threads \cup {Nobody}]
    /\ lib \in [Rids -> [state : {"none", "built", "sent", "ended"},
                         context : Transports \cup {NoContext}]]
    /\ main \in [pc : {"start", "make", "send", "serve", "stop", "unregister", "stopped"},
                 reg : Registries \cup {NoRegistry}, ret : {"serve", "stop"}]
    /\ todo \in SUBSET Registries
    /\ thr \in [Transports -> ThrType]
    /\ auto \in SUBSET Transports
    /\ confirmed \in SUBSET Rids
    /\ dropped \in SUBSET Rids
    /\ kept \in SUBSET Rids

-------------------------------------------------------------------------------
(* The wrapper: what each kind of function does with the lock. *)

Ready == [pc |-> "ready", event |-> "reply", rid |-> 0, reg |-> NoRegistry,
          ctx |-> NoContext]

\* voip::create for each transport: eXosip 4 has one context for each, its
\* predecessors have one for the process, and later ones stay NULL.
Created == {Transports}
LegacyCreated == {{c} : c \in Transports}

CanLock(t, c) == owner[c] \in {Nobody, t}

\* Lock, call the library, unlock: add_authentication, release_call,
\* release_registry, automatic_action, and the send functions without a message.
Call(t, c) == CanLock(t, c) /\ UNCHANGED <<owner, leaked>>

\* make_options_response and make_answer_response keep the lock when they
\* return a message.
MakeMessage(t, c, made) ==
    /\ CanLock(t, c)
    /\ owner' = IF made THEN [owner EXCEPT ![c] = t] ELSE owner
    /\ UNCHANGED leaked

\* Mutant of SendMessage: the lock is not given back.
SendKeepsLock(c) == UNCHANGED <<owner, leaked>>

\* The send functions with a message use it up and give the lock back.
SendMessage(c) ==
    /\ owner' = IF c \in leaked THEN owner ELSE [owner EXCEPT ![c] = Nobody]
    /\ UNCHANGED leaked

\* make_registry_request does the same, but that of the earlier libraries
\* tests the wrong pointer and keeps the lock although there is no message.
MakeRegistryRequest(c, made) == MakeMessage(Main, c, made)

LegacyMakeRegistryRequest(c, made) ==
    /\ CanLock(Main, c)
    /\ owner' = [owner EXCEPT ![c] = Main]
    /\ leaked' = IF made THEN leaked ELSE leaked \cup {c}

-------------------------------------------------------------------------------
\* The main thread at p, with no registration in hand.
At(p) == [pc |-> p, reg |-> NoRegistry, ret |-> "serve"]

\* The members of a registration are zero until its constructor sets them.
Unlisted == [listed |-> FALSE, context |-> NoContext, rid |-> 0, activated |-> FALSE]

Init ==
    /\ api4 \in BOOLEAN
    /\ contexts \in IF api4 THEN Created ELSE LegacyCreated
    /\ owner = [c \in Transports |-> Nobody]
    /\ leaked = {}
    /\ reg = [r \in Registries |-> Unlisted]
    /\ mutex = [r \in Registries |-> Nobody]
    /\ lib = [i \in Rids |-> [state |-> "none", context |-> NoContext]]
    /\ main = At("start")
    /\ todo = Registries
    /\ thr = [t \in Transports |-> Ready]
    /\ auto = {}
    /\ confirmed = {}
    /\ dropped = {}
    /\ kept = {}

locks == <<owner, leaked, mutex>>
build == <<api4, contexts>>
history == <<confirmed, dropped, kept>>

(* driver::start and the constructor of registration. *)

\* The new registration is listed first; it gets no context when it has no
\* identity, when its server cannot be resolved, or when its transport has none.
Enlist(r, c) ==
    /\ main.pc = "start"
    /\ r \in todo
    /\ todo' = todo \ {r}
    /\ reg' = [reg EXCEPT ![r] = [listed |-> TRUE, context |-> c, activated |-> FALSE,
                                  rid |-> IF c = NoContext THEN 0 ELSE -1]]
    /\ main' = IF c = NoContext THEN main ELSE [At("make") EXCEPT !.reg = r]
    /\ UNCHANGED <<build, locks, lib, thr, auto, history>>

\* Mutant of AssignRid: the id is not there yet when the request is sent.
AssignRidLate(r, i) == reg

\* What the library returns is stored before the request is sent, error codes
\* with the ids.
AssignRid(r, i) == [reg EXCEPT ![r].rid = i]

\* The library builds the REGISTER request under a new id, or fails.  Only -1
\* ends the constructor; with another error code it goes on without a message,
\* which send_registry_request does not send, and driver::activate takes the
\* registration for a good one.
MakeRegister(made) ==
    LET r == main.reg
        c == reg[r].context
        i == 1 + Cardinality({j \in Rids : lib[j].state # "none"})
    IN  /\ main.pc = "make"
        /\ IF api4 THEN MakeRegistryRequest(c, made) ELSE LegacyMakeRegistryRequest(c, made)
        /\ IF made
           THEN /\ reg' = AssignRid(r, i)
                /\ lib' = [lib EXCEPT ![i] = [state |-> "built", context |-> c]]
                /\ main' = [main EXCEPT !.pc = "send"]
           ELSE /\ \E e \in Errors : reg' = AssignRid(r, e)
                /\ main' = At("start")
                /\ UNCHANGED lib
        /\ UNCHANGED <<build, mutex, todo, thr, auto, history>>

SendRegister ==
    LET r == main.reg
    IN  /\ main.pc = "send"
        /\ SendMessage(reg[r].context)
        /\ lib' = [i \in Rids |-> IF lib[i].state = "built"
                                  THEN [lib[i] EXCEPT !.state = "sent"] ELSE lib[i]]
        /\ main' = At("start")
        /\ UNCHANGED <<build, mutex, reg, todo, thr, auto, history>>

\* server::dispatch begins, and ends with driver::stop.
Serve ==
    /\ main.pc = "start"
    /\ todo = {}
    /\ main' = At("serve")
    /\ UNCHANGED <<build, locks, reg, lib, todo, thr, auto, history>>

Stop ==
    /\ main.pc = "serve"
    /\ main' = At("stop")
    /\ todo' = Registries
    /\ UNCHANGED <<build, locks, reg, lib, thr, auto, history>>

Stopped ==
    /\ main.pc = "stop"
    /\ todo = {}
    /\ main' = At("stopped")
    /\ UNCHANGED <<build, locks, reg, lib, todo, thr, auto, history>>

-------------------------------------------------------------------------------
(* registration::release, for the operator and for driver::stop. *)

Release(r) ==
    /\ \/ main.pc = "serve" /\ UNCHANGED todo
       \/ main.pc = "stop" /\ r \in todo /\ todo' = todo \ {r}
    /\ mutex[r] = Nobody
    /\ IF reg[r].rid = -1 \/ reg[r].context = NoContext
       THEN UNCHANGED <<reg, mutex, main>>
       ELSE /\ reg' = [reg EXCEPT ![r].activated = FALSE]
            /\ mutex' = [mutex EXCEPT ![r] = Main]
            /\ main' = [pc |-> "unregister", reg |-> r, ret |-> main.pc]
    /\ UNCHANGED <<build, owner, leaked, lib, thr, auto, history>>

\* voip::release_registry tells the library to unregister, if a request can be
\* built: never for an error code, and not always for an id.  Nobody looks at
\* its result.
Unregister(i, built) ==
    /\ built => i \in Rids
    /\ lib' = IF built THEN [lib EXCEPT ![i].state = "ended"] ELSE lib
    /\ kept' = IF built THEN kept ELSE kept \cup ({i} \cap Rids)

ReleaseUnregisters(built) ==
    LET r == main.reg
        i == reg[r].rid
    IN  /\ main.pc = "unregister"
        /\ Call(Main, reg[r].context)
        /\ Unregister(i, built)
        /\ reg' = [reg EXCEPT ![r].rid = -1, ![r].context = NoContext]
        /\ mutex' = [mutex EXCEPT ![r] = Nobody]
        /\ main' = At(main.ret)
        /\ dropped' = dropped \cup ({i} \cap Rids)
        /\ UNCHANGED <<build, todo, thr, auto, confirmed>>

-------------------------------------------------------------------------------
(* The events of a SIP thread that concern registrations. *)

\* driver::locate searches the list without a lock.
Located(i) == {r \in Registries : reg[r].listed /\ reg[r].rid = i}

\* The library reports an answer to a REGISTER request, also to the last one.
\* Only the earlier libraries report a registration that has ended.
Answer(t, i, e) ==
    /\ thr[t].pc = "ready"
    /\ lib[i].context = t
    /\ lib[i].state \in {"sent", "ended"}
    /\ e = "terminated" => ~api4
    /\ \/ /\ Located(i) = {}
          /\ thr' = [thr EXCEPT ![t] = [Ready EXCEPT !.pc = "unknown", !.rid = i]]
       \/ \E r \in Located(i) :
             thr' = [thr EXCEPT ![t] = [pc |-> "located", event |-> e, rid |-> i, reg |-> r,
                                        ctx |-> NoContext]]
    /\ UNCHANGED <<build, locks, reg, lib, main, todo, auto, history>>

\* "unknown registry id requested": the event is ignored.
Ignore(t) ==
    /\ thr[t].pc = "unknown"
    /\ thr' = [thr EXCEPT ![t] = Ready]
    /\ UNCHANGED <<build, locks, reg, lib, main, todo, auto, history>>

\* Mutant of CanConfirm: an answer that comes late activates it again.
CanConfirmLate(r) == ~reg[r].activated

\* registration::confirm
CanConfirm(r) == reg[r].rid # -1 /\ reg[r].context # NoContext /\ ~reg[r].activated

Confirm(t) ==
    LET r == thr[t].reg
    IN  /\ thr[t].pc = "located"
        /\ thr[t].event = "success"
        /\ mutex[r] = Nobody
        /\ IF CanConfirm(r)
           THEN /\ reg' = [reg EXCEPT ![r].activated = TRUE]
                /\ confirmed' = confirmed \cup ({reg[r].rid} \cap Rids)
           ELSE UNCHANGED <<reg, confirmed>>
        /\ thr' = [thr EXCEPT ![t] = Ready]
        /\ UNCHANGED <<build, locks, lib, main, todo, auto, dropped, kept>>

\* Mutant of GivenUp: cancel does not see that the id was given up.
GivenUpTwice(r, e) == e = "failure" /\ reg[r].context = NoContext

\* There is nothing left to give up: the guards of failed and of cancel.
GivenUp(r, e) ==
    \/ reg[r].rid = -1
    \/ e = "failure" /\ reg[r].context = NoContext

\* registration::failed and registration::cancel, which differ in their guards.
GiveUp(t) ==
    LET r == thr[t].reg
        over == GivenUp(r, thr[t].event)
    IN  /\ thr[t].pc = "located"
        /\ thr[t].event \in {"failure", "terminated"}
        /\ mutex[r] = Nobody
        /\ IF ~over /\ reg[r].activated
           THEN /\ mutex' = [mutex EXCEPT ![r] = t]
                /\ thr' = [thr EXCEPT ![t].pc = "unregister"]
                /\ UNCHANGED <<reg, dropped>>
           ELSE /\ reg' = IF over THEN reg ELSE [reg EXCEPT ![r].rid = -1]
                /\ dropped' = IF over THEN dropped ELSE dropped \cup {reg[r].rid}
                /\ thr' = [thr EXCEPT ![t] = Ready]
                /\ UNCHANGED mutex
        /\ UNCHANGED <<build, owner, leaked, lib, main, todo, auto, confirmed, kept>>

GiveUpUnregisters(t, built) ==
    LET r == thr[t].reg
        i == reg[r].rid
    IN  /\ thr[t].pc = "unregister"
        /\ Call(t, reg[r].context)
        /\ Unregister(i, built)
        /\ reg' = [reg EXCEPT ![r].rid = -1, ![r].activated = FALSE]
        /\ mutex' = [mutex EXCEPT ![r] = Nobody]
        /\ dropped' = dropped \cup {i}
        /\ thr' = [thr EXCEPT ![t] = Ready]
        /\ UNCHANGED <<build, main, todo, auto, confirmed>>

\* registration::authenticate reads the context without protecting the
\* registration, and waits for the lock of what it has read.
Authenticate(t) ==
    /\ thr[t].pc = "located"
    /\ thr[t].event = "unauthorized"
    /\ thr' = [thr EXCEPT ![t].pc = "authenticate", ![t].ctx = reg[thr[t].reg].context]
    /\ UNCHANGED <<build, locks, reg, lib, main, todo, auto, history>>

\* eXosip 4 follows the pointer it is given; its predecessors ignore it.
AddAuthentication(t) ==
    /\ thr[t].pc = "authenticate"
    /\ IF api4 /\ thr[t].ctx = NoContext
       THEN /\ thr' = [thr EXCEPT ![t].pc = "fault"]
            /\ UNCHANGED <<owner, leaked>>
       ELSE /\ Call(t, IF api4 THEN thr[t].ctx ELSE t)
            /\ thr' = [thr EXCEPT ![t] = Ready]
    /\ UNCHANGED <<build, mutex, reg, lib, main, todo, auto, history>>

-------------------------------------------------------------------------------
(* The events of a SIP thread that it answers with a message of its own. *)

\* An OPTIONS request, an INVITE that is challenged, or a request that is
\* answered with a status only.
Request(t, k) ==
    /\ t \in contexts
    /\ thr[t].pc = "ready"
    /\ thr' = [thr EXCEPT ![t] = [Ready EXCEPT !.event = k,
                                       !.pc = IF k = "reply" THEN "answer" ELSE "make"]]
    /\ UNCHANGED <<build, locks, reg, lib, main, todo, auto, history>>

\* thread::options answers without a message when none can be made; the
\* challenge of thread::invite then sends nothing.
MakeResponse(t, made) ==
    /\ thr[t].pc = "make"
    /\ MakeMessage(t, t, made)
    /\ thr' = IF made THEN [thr EXCEPT ![t].pc = "send"]
              ELSE IF thr[t].event = "options" THEN [thr EXCEPT ![t].pc = "sendnull"]
              ELSE [thr EXCEPT ![t] = Ready]
    /\ UNCHANGED <<build, mutex, reg, lib, main, todo, auto, history>>

\* An OPTIONS request gets the answer of every other request as well.
SendResponse(t) ==
    /\ \/ thr[t].pc = "send" /\ SendMessage(t)
       \/ thr[t].pc = "sendnull" /\ Call(t, t)
    /\ thr' = IF thr[t].event = "options" THEN [thr EXCEPT ![t] = [Ready EXCEPT !.pc = "answer"]]
              ELSE [thr EXCEPT ![t] = Ready]
    /\ UNCHANGED <<build, mutex, reg, lib, main, todo, auto, history>>

\* send_answer_response without a message.
SendAnswer(t) ==
    /\ thr[t].pc = "answer"
    /\ Call(t, t)
    /\ thr' = [thr EXCEPT ![t] = Ready]
    /\ UNCHANGED <<build, mutex, reg, lib, main, todo, auto, history>>

(* background::automatic visits every context. *)

BeginAutomatic ==
    /\ auto = {}
    /\ auto' = contexts
    /\ UNCHANGED <<build, locks, reg, lib, main, todo, thr, history>>

AutomaticAction(c) ==
    /\ c \in auto
    /\ Call(Background, c)
    /\ auto' = auto \ {c}
    /\ UNCHANGED <<build, mutex, reg, lib, main, todo, thr, history>>

-------------------------------------------------------------------------------
MainStep ==
    \/ \E r \in Registries, c \in contexts \cup {NoContext} : Enlist(r, c)
    \/ \E made \in BOOLEAN : MakeRegister(made)
    \/ SendRegister \/ Serve \/ Stopped
    \/ \E built \in BOOLEAN : ReleaseUnregisters(built)
    \/ \E r \in Registries : main.pc = "stop" /\ Release(r)

\* What a SIP thread does with the event it has in hand.
EventStep(t) ==
    \/ Ignore(t) \/ Confirm(t) \/ GiveUp(t)
    \/ \E built \in BOOLEAN : GiveUpUnregisters(t, built)
    \/ Authenticate(t) \/ AddAuthentication(t)
    \/ \E made \in BOOLEAN : MakeResponse(t, made)
    \/ SendResponse(t) \/ SendAnswer(t)

\* The operator and the library decide when these happen.
Environment ==
    \/ Stop
    \/ \E r \in Registries : main.pc = "serve" /\ Release(r)
    \/ \E t \in Transports : \/ \E i \in Rids, e \in Answers : Answer(t, i, e)
                             \/ \E k \in Requests : Request(t, k)
    \/ BeginAutomatic

Next ==
    \/ MainStep
    \/ \E t \in Transports : EventStep(t)
    \/ \E c \in Transports : AutomaticAction(c)
    \/ Environment

Spec == Init /\ [][Next]_vars

\* A thread with an event in hand goes on, and so does the main thread; who
\* waits for a lock gets it in the end if it becomes free again and again.
FairSpec ==
    /\ Spec
    /\ SF_vars(MainStep)
    /\ \A t \in Transports : SF_vars(EventStep(t))

-------------------------------------------------------------------------------
(* Properties *)

\* The library's lock, which the make functions take and the send functions
\* give back, is held by nobody but a thread that has made a message and is
\* about to send it on that context; the one exception is the lock that
\* make_registry_request of the earlier libraries keeps when it fails.
LockHeldForMessage ==
    /\ \A c \in Transports :
          \/ owner[c] = Nobody
          \/ owner[c] = Main /\ main.pc = "send" /\ reg[main.reg].context = c
          \/ owner[c] = Main /\ c \in leaked
          \/ owner[c] = c /\ thr[c].pc = "send"
    /\ leaked # {} => ~api4

\* The server and the library agree on what is registered, although answers
\* reach a registration that was given up in between: an active registration
\* is registered in the library under its id and context, and one that was
\* active is not given up before voip::release_registry was called for it.
\* Where that could not build a request the library keeps what the server gave
\* up, as its result is ignored (see ReleasedIsCleared).
LibraryAgrees ==
    /\ \A r \in Registries : reg[r].activated =>
          /\ reg[r].rid \in Rids
          /\ lib[reg[r].rid] = [state |-> "sent", context |-> reg[r].context]
    /\ \A i \in confirmed \cap dropped : lib[i].state = "ended" \/ i \in kept

\* An answer finds the registration whose request it answers, also when it
\* comes while the constructor runs: driver::locate finds another or none,
\* and authenticate meets no context (where eXosip 4 follows NULL), only after
\* the id was given up.
AnswerFindsRegistration ==
    \A t \in Transports :
        /\ thr[t].pc = "unknown" => thr[t].rid \in dropped
        /\ thr[t].pc = "fault" => thr[t].rid \in dropped
        /\ thr[t].pc \in {"located", "authenticate", "unregister"} =>
              \/ thr[t].rid \in dropped
              \/ reg[thr[t].reg].rid = thr[t].rid

\* Nobody waits for everybody: the library's lock and a registration that is
\* protected become free again, unless make_registry_request has kept a lock.
LocksFreed ==
    /\ \A c \in Transports : owner[c] # Nobody ~> owner[c] = Nobody \/ leaked # {}
    /\ \A r \in Registries : mutex[r] # Nobody ~> mutex[r] = Nobody \/ leaked # {}

-------------------------------------------------------------------------------
(* What the documentation says and the code does not keep: TLC refutes each. *)

\* "clear an active registration with a remote call server." (baycontrol(8)):
\* when registration::release is done for the operator's command, what was
\* active is unregistered.
ReleasedIsCleared ==
    [][LET i == reg[main.reg].rid
       IN  main.pc = "unregister" /\ main'.pc = "serve" /\ i \in confirmed
           => lib'[i].state = "ended"]_vars
===============================================================================
