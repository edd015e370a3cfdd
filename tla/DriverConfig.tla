----------------------------- MODULE DriverConfig -----------------------------
(***************************************************************************)
(* The active configuration of the server and its replacement while calls  *)
(* run: Driver::get, release, reload and commit of common/driver.cpp, the  *)
(* SIP driver's constructor, update() and start(), and the reference       *)
(* counts of the script images that calls hold beyond a reload.            *)
(*                                                                         *)
(* A configuration is a Driver object; it has one script image, named by   *)
(* it, and the keys of its registrations (regfile).  Readers are the SIP   *)
(* threads in timeslot::incoming.  The control thread boots the server,    *)
(* where driver::start reads the keys, and then serves commands, reload    *)
(* among them.  Driver::locking is external: a shared lock that lets no    *)
(* new reader in while a writer waits; so is keyfile::release, which frees *)
(* all keys of a file.                                                     *)
(***************************************************************************)
EXTENDS Naturals, FiniteSets

CONSTANTS
    Drivers,    \* Driver objects that can be constructed (bounds the reloads)
    First,      \* the one constructed by init()
    Readers,    \* the SIP threads
    Slots,      \* the timeslots
    Keys,       \* how many registrations a configuration has
    None        \* a NULL pointer

ASSUME DriversAssumption ==
    /\ First \in Drivers
    /\ None \notin Drivers
    /\ None \notin Slots
ASSUME KeysAssumption == Keys \in Nat
ASSUME KindsAssumption ==
    /\ IsFiniteSet(Readers) /\ IsFiniteSet(Slots)
    /\ Readers \cap Slots = {} /\ Drivers \cap (Readers \cup Slots) = {}

VARIABLES
    active,     \* Driver::active
    fresh,      \* drivers not constructed yet
    live,       \* drivers constructed and not deleted
    refs,       \* refs[d]: reference count of the script image of d
    purged,     \* drivers whose script image was destroyed
    unkeyed,    \* drivers whose registration keys were freed
    reader,     \* reader[t]: where thread t is and its local variables
    image,      \* image[s]: the script image that slot s is attached to
    ctl,        \* where the control thread is
    next,       \* the driver that the control thread commits
    orig,       \* the driver that was replaced
    settings,   \* the driver whose keys update() has applied
    kp,         \* driver::start: how many keys it has still to read
    started,    \* the SIP threads run
    contexts,   \* whether driver::udp_context and the others are set
    due         \* the SIP library has something to do for automatic_action

vars == <<active, fresh, live, refs, purged, unkeyed, reader, image, ctl, next, orig,
          settings, kp, started, contexts, due>>

Pointers == Drivers \cup {None}

ReaderType ==
    [pc : {"ready", "search", "release", "find", "initialize", "defaults", "attach"},
     driver : Pointers, scr : Pointers, slot : Slots \cup {None}]

TypeOK ==
    /\ active \in Pointers
    /\ fresh \in SUBSET Drivers
    /\ live \in SUBSET Drivers
    /\ refs \in [Drivers -> Nat]
    /\ purged \in SUBSET Drivers
    /\ unkeyed \in SUBSET Drivers
    /\ reader \in [Readers -> ReaderType]
    /\ image \in [Slots -> Pointers]
    /\ ctl \in {"ready", "create", "release", "update", "modify", "delete", "start",
               "activate", "registry", "register", "dead"}
    /\ kp \in 0..Keys
    /\ next \in Pointers
    /\ orig \in Pointers
    /\ settings \in Pointers
    /\ started \in BOOLEAN
    /\ contexts \in BOOLEAN
    /\ due \in BOOLEAN

Idle == [pc |-> "ready", driver |-> None, scr |-> None, slot |-> None]

\* init() has constructed the first driver and commits it.
Init ==
    /\ active = None
    /\ fresh = Drivers \ {First}
    /\ live = {First}
    /\ refs = [d \in Drivers |-> IF d = First THEN 1 ELSE 0]
    /\ purged = {}
    /\ unkeyed = {}
    /\ kp = 0
    /\ reader = [t \in Readers |-> Idle]
    /\ image = [s \in Slots |-> None]
    /\ ctl = "update"
    /\ next = First
    /\ orig = None
    /\ settings = None
    /\ started = FALSE
    /\ contexts = FALSE
    /\ due = FALSE

-------------------------------------------------------------------------------
(* The shared lock and the reference counts. *)

\* The process is there; undefined behaviour may end it (see Register).
Running == ctl # "dead"

\* The threads with shared access; that of the control thread, in create and in
\* start, ends before it asks for exclusive access itself.
Sharing == {t \in Readers : reader[t].pc \in {"search", "release", "defaults"}}

\* Driver::get by a thread: shared access, which waits behind a writer.
CanAccess == ctl # "modify"

Retain(d) == [refs EXCEPT ![d] = @ + 1]

\* Drop a reference; the last one destroys the image.
Unref(d) ==
    /\ refs' = [refs EXCEPT ![d] = @ - 1]
    /\ purged' = IF refs[d] = 1 THEN purged \cup {d} ELSE purged

\* Driver::release(Driver *) frees the registration keys of the driver that the
\* thread has worked with, with no more than shared access, and gives that back.
GiveBack(d) == unkeyed' = unkeyed \cup {d}

-------------------------------------------------------------------------------
(* Driver::getIncoming and the rest of timeslot::incoming, in a SIP thread.    *)

\* The parts of the state that only the control thread changes.
control == <<active, fresh, live, ctl, next, orig, settings, kp, started, contexts, due>>

\* Driver::get, for a slot that the thread has just assigned.
Access(t, s) ==
    /\ Running
    /\ reader[t].pc = "ready"
    /\ started
    /\ CanAccess
    /\ image[s] = None
    /\ \A u \in Readers : reader[u].slot # s
    /\ reader' = [reader EXCEPT ![t].pc = "search", ![t].driver = active, ![t].slot = s]
    /\ UNCHANGED <<refs, purged, unkeyed, image, control>>

\* The script is on the list of images, and retained, or is not.
Search(t) ==
    /\ reader[t].pc = "search"
    /\ \/ /\ refs' = Retain(reader[t].driver)
          /\ reader' = [reader EXCEPT ![t].pc = "release", ![t].scr = reader[t].driver]
       \/ /\ reader' = [reader EXCEPT ![t].pc = "release"]
          /\ UNCHANGED refs
    /\ UNCHANGED <<purged, unkeyed, image, control>>

\* Mutant of Release: a thread that found no script returns with the lock.
ReleaseFound(t) ==
    /\ reader[t].pc = "release"
    /\ reader[t].scr # None
    /\ reader' = [reader EXCEPT ![t].pc = "find", ![t].driver = None]
    /\ GiveBack(reader[t].driver)
    /\ UNCHANGED <<refs, purged, image, control>>

\* Driver::release of the driver.
Release(t) ==
    /\ reader[t].pc = "release"
    /\ reader' = [reader EXCEPT ![t] = IF @.scr = None THEN Idle
                                       ELSE [@ EXCEPT !.pc = "find", !.driver = None]]
    /\ GiveBack(reader[t].driver)
    /\ UNCHANGED <<refs, purged, image, control>>

\* Mutant of Find: the reference to a script that cannot be used is kept.
FindLeaks(t) ==
    /\ reader[t].pc = "find"
    /\ reader' \in {[reader EXCEPT ![t].pc = "initialize"], [reader EXCEPT ![t] = Idle]}
    /\ UNCHANGED <<refs, purged, unkeyed, image, control>>

\* Script::find: the script may have no incoming section.
Find(t) ==
    /\ reader[t].pc = "find"
    /\ \/ /\ reader' = [reader EXCEPT ![t].pc = "initialize"]
          /\ UNCHANGED <<refs, purged>>
       \/ /\ Unref(reader[t].scr)
          /\ reader' = [reader EXCEPT ![t] = Idle]
    /\ UNCHANGED <<unkeyed, image, control>>

\* Timeslot::initialize reads the defaults of the active driver.
Initialize(t) ==
    /\ reader[t].pc = "initialize"
    /\ CanAccess
    /\ reader' = [reader EXCEPT ![t].pc = "defaults", ![t].driver = active]
    /\ UNCHANGED <<refs, purged, unkeyed, image, control>>

Defaults(t) ==
    /\ reader[t].pc = "defaults"
    /\ GiveBack(reader[t].driver)
    /\ reader' = [reader EXCEPT ![t].pc = "attach", ![t].driver = None]
    /\ UNCHANGED <<refs, purged, image, control>>

\* The slot attaches, which takes a reference of its own, and the thread drops
\* the one that getIncoming took; or it fails to attach, and the thread drops it.
Attach(t) ==
    /\ reader[t].pc = "attach"
    /\ \/ /\ image' = [image EXCEPT ![reader[t].slot] = reader[t].scr]
          /\ UNCHANGED <<refs, purged>>
       \/ /\ Unref(reader[t].scr)
          /\ UNCHANGED image
    /\ reader' = [reader EXCEPT ![t] = Idle]
    /\ UNCHANGED <<unkeyed, control>>

\* The call of slot s is over: Timeslot::release detaches.
Detach(s) ==
    /\ Running
    /\ image[s] # None
    /\ Unref(image[s])
    /\ image' = [image EXCEPT ![s] = None]
    /\ UNCHANGED <<unkeyed, reader, control>>

-------------------------------------------------------------------------------
(* The control thread: init() commits and starts, "reload" replaces.         *)

\* What the control thread leaves alone, but for its own position.
others == <<refs, purged, reader, image, due>>

\* A command that is passed to the driver, under shared access.
Command ==
    /\ ctl = "ready"
    /\ GiveBack(active)
    /\ UNCHANGED <<active, fresh, live, ctl, next, orig, settings, kp, started, contexts, others>>

\* Driver::reload, from the control loop.
Reload ==
    /\ ctl = "ready"
    /\ fresh # {}
    /\ ctl' = "create"
    /\ UNCHANGED <<active, fresh, live, unkeyed, next, orig, settings, kp, started, contexts,
                   others>>

\* create() under shared access: the new driver compiles its scripts, and the
\* constructor of the SIP driver clears the contexts, which are static members.
Create(d) ==
    /\ ctl = "create"
    /\ d \in fresh
    /\ next' = d
    /\ fresh' = fresh \ {d}
    /\ live' = live \cup {d}
    /\ refs' = [refs EXCEPT ![d] = 1]
    /\ contexts' = FALSE
    /\ ctl' = "release"
    /\ UNCHANGED <<active, purged, unkeyed, reader, image, orig, settings, kp, started, due>>

EndCreate ==
    /\ ctl = "release"
    /\ ctl' = "update"
    /\ UNCHANGED <<active, fresh, live, unkeyed, next, orig, settings, kp, started, contexts,
                   others>>

\* The first part of commit() applies the new keys without a lock.
Update ==
    /\ ctl = "update"
    /\ settings' = next
    /\ ctl' = "modify"
    /\ UNCHANGED <<active, fresh, live, unkeyed, next, orig, kp, started, contexts, others>>

\* Mutant of Modify: the writer does not wait for the readers.
ModifyUnlocked ==
    /\ ctl = "modify"
    /\ orig' = active
    /\ active' = next
    /\ ctl' = IF active = None THEN "start" ELSE "delete"
    /\ UNCHANGED <<fresh, live, unkeyed, next, settings, kp, started, contexts, others>>

\* The exclusive section of commit().
Modify ==
    /\ ctl = "modify"
    /\ Sharing = {}
    /\ orig' = active
    /\ active' = next
    /\ ctl' = IF active = None THEN "start" ELSE "delete"
    /\ UNCHANGED <<fresh, live, unkeyed, next, settings, kp, started, contexts, others>>

\* After a second, the replaced driver is deleted and drops its image.
Delete ==
    /\ ctl = "delete"
    /\ live' = live \ {orig}
    /\ Unref(orig)
    /\ ctl' = "ready"
    /\ UNCHANGED <<active, fresh, unkeyed, reader, image, next, orig, settings, kp, started,
                   contexts, due>>

\* driver::start, with shared access from here to EndStart: it creates the
\* contexts, no thread being there yet.
Start ==
    /\ ctl = "start"
    /\ contexts' = TRUE
    /\ ctl' = "activate"
    /\ UNCHANGED <<active, fresh, live, unkeyed, next, orig, settings, kp, started, others>>

\* thread::activate: from here on SIP threads admit calls.
Activate ==
    /\ ctl = "activate"
    /\ started' = TRUE
    /\ ctl' = "registry"
    /\ UNCHANGED <<active, fresh, live, unkeyed, next, orig, settings, kp, contexts, others>>

\* driver::registry: the first of the keys, if they are still there.
Registry ==
    /\ ctl = "registry"
    /\ kp' = IF active \in unkeyed THEN 0 ELSE Keys
    /\ ctl' = "register"
    /\ UNCHANGED <<active, fresh, live, unkeyed, next, orig, settings, started, contexts, others>>

\* A registration is activated from its key.  Reading a key that was freed finds
\* what was there, or ends the process.
Register ==
    /\ ctl = "register"
    /\ kp > 0
    /\ kp' = kp - 1
    /\ \/ UNCHANGED ctl
       \/ active \in unkeyed /\ ctl' = "dead"
    /\ UNCHANGED <<active, fresh, live, unkeyed, next, orig, settings, started, contexts, others>>

EndStart ==
    /\ ctl = "register"
    /\ kp = 0
    /\ GiveBack(active)
    /\ ctl' = "ready"
    /\ UNCHANGED <<active, fresh, live, next, orig, settings, kp, started, contexts, others>>

-------------------------------------------------------------------------------
(* The library has something to do by itself: a registration to refresh, say. *)
Due ==
    /\ Running
    /\ started
    /\ ~due
    /\ due' = TRUE
    /\ UNCHANGED <<active, fresh, live, refs, purged, unkeyed, reader, image, ctl, next, orig,
                   settings, kp, started, contexts>>

\* background::automatic runs it, for the contexts that are set.
Automatic ==
    /\ Running
    /\ due
    /\ contexts
    /\ due' = FALSE
    /\ UNCHANGED <<active, fresh, live, refs, purged, unkeyed, reader, image, ctl, next, orig,
                   settings, kp, started, contexts>>

\* The process, if it is there, lets thread t take its next step.
ReaderStep(t) ==
    /\ Running
    /\ Search(t) \/ Release(t) \/ Find(t) \/ Initialize(t) \/ Defaults(t) \/ Attach(t)

ControlStep ==
    \/ \E d \in Drivers : Create(d)
    \/ EndCreate
    \/ Update
    \/ Modify
    \/ Delete
    \/ Start
    \/ Activate
    \/ Registry
    \/ Register
    \/ EndStart

Next ==
    \/ \E t \in Readers : ReaderStep(t) \/ \E s \in Slots : Access(t, s)
    \/ \E s \in Slots : Detach(s)
    \/ ControlStep
    \/ Command
    \/ Reload
    \/ Due
    \/ Automatic

Spec == Init /\ [][Next]_vars

\* The threads run, and the calls end.
FairSpec ==
    /\ Spec
    /\ \A t \in Readers : WF_vars(ReaderStep(t))
    /\ WF_vars(ControlStep)
    /\ WF_vars(Automatic)
    /\ \A s \in Slots : WF_vars(Detach(s))

-------------------------------------------------------------------------------
(* Properties *)

\* A SIP thread that has got the driver works with the active one until it gives
\* it back: commit() neither replaces nor deletes the object under it.  This is
\* no promise about all that belongs to it: see KeysHeld.
ReadersSeeActive ==
    \A t \in Sharing : reader[t].driver = active /\ active \in live

\* The references to the image of d: threads, slots, and the driver itself.
Holders(d) ==
    {t \in Readers : reader[t].scr = d} \cup {s \in Slots : image[s] = d} \cup (live \cap {d})

\* "Script images are reference counted, so existing calls will complete using
\* a prior script" (driver.h:145): no interleaving of reload, admission and
\* release of calls leaves a call or a thread with an image that is gone, and
\* one that nobody holds any more is gone.
ImagesCounted ==
    \A d \in Drivers \ fresh :
        /\ refs[d] = Cardinality(Holders(d))
        /\ d \in purged <=> Holders(d) = {}

\* A commit and the start after it come to their end although threads keep taking
\* the lock, unless the process dies of a freed key.
ReloadEnds == ctl # "ready" ~> ctl \in {"ready", "dead"}

\* The image of a driver that was replaced is destroyed when its calls are
\* over, and no call is admitted to it for ever.
OldImagePurged ==
    \A d \in Drivers : d \notin fresh /\ d # active /\ ctl = "ready" ~> d \in purged

-------------------------------------------------------------------------------
(* What the documentation says and the code does not keep: TLC refutes each. *)

\* "The driver also holds the currently active configuration for the running
\* server" (driver.h:92): driver::start, which has got the driver, finds the keys
\* of its registrations until it has read the last.  It does not: the SIP threads
\* run already, and the Driver::release of the first call frees them.
KeysHeld == ctl = "register" /\ kp > 0 => active \notin unkeyed

\* Registrations are refreshed for as long as the server runs: "default
\* expiration/refresh for SIP registrations" (config/bayonne.conf:20), also when
\* a reload has loaded a configuration "while live" (utils/baycontrol.8:57).
\* They are not: the constructor of the new driver clears the contexts, which
\* only start sets, and background::automatic finds none from then on.
AutomaticDone == due ~> ~due \/ ctl = "dead"
===============================================================================
