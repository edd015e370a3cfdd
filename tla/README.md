# A TLA+ model of GNU Bayonne

GNU Bayonne is a telephony application server. This directory holds a formal
model of the parts of it that run concurrently: TLA+ modules translated from
the source, TLC configurations that check them on small instances, and TLAPS
proofs of their main properties for instances of any size. `PROJECT.json`
lists the runs, which source lines every definition stands for, the hazards
the properties are aimed at, and what was found.

## The system

| Part | State | Operations | Hard behaviour |
|---|---|---|---|
| Timeslots (`common/timeslot.cpp`, `sipw/timeslot.cpp`) | one object per call slot: handler, call id, transaction, registration, timer, sequence; a free list and 177 hash chains | `assign`, `get`, `post`, `incoming`, `release`, `expire`, `enable`, `disable` | two locks (lists, slot) taken one after the other; `incoming` runs without the slot's mutex; several threads end one call |
| SIP threads (`sipw/thread.cpp`) | one thread per eXosip context (udp, tcp, tls); start, active and stop counters | `run`, `invite`, `options`, `activate`, `shutdown` | a slot found by `get` is used after the lock is gone; shutdown counts threads without a lock |
| Background thread (`common/thread.cpp`) | `running`, `signalled`, the time of the next scan | `run`, `notify`, `schedule`, `shutdown` | timers armed during a scan; one flag for many notifications; shutdown polls that flag |
| Call detail records (`common/dbi.cpp`) | run list, its last record, free list, `cdr`, the open log | `get`, `post`, `start`, `stop`, the thread | both lists use one link member; a record is freed while the list is walked |
| Statistics (`common/stats.cpp`) | current, peak and total calls of the system, a board, a span, a registration | `assign`, `update`, `release`, `period` | limits are checked against a count that is raised before a slot is found |
| Registrations (`common/registry.cpp`, `sipw/registry.cpp`) | state, limit, statistics node, eXosip id | `attach`, `release`, `confirm`, `failed`, `cancel`, `authenticate` | limit at its bound; events of a registration already given up; errors of the library that are ignored |
| Driver and configuration (`common/driver.cpp`, `sipw/driver.cpp`) | active driver, its registration keys, script image, reference counts, SIP contexts | `get`, `release`, `reload`, `update`, `commit`, `start`, `stop` | replaced while in use; `release` frees keys that `start` still reads |
| Control (`common/server.cpp`, `common/psignals.cpp`, `utils/baycontrol.cpp`) | fifo, reply file, run level | `receive`, `dispatch`, `reply`, `period` | a command's reply against the next command |
| Boards and spans (`common/segment.cpp`) | suspended and resumed lines | `suspend`, `resume`, `hangup` | commands to many slots at once |
| SIP wrapper (`sipw/voip.cpp`) | the lock of eXosip | one function per library call | lock and unlock in different functions |
| URIs (`common/uri.cpp`, `sipw/srv.cpp`) | records of a reply, host addresses, the one in use | `portid`, `hostid`, `userid`, `set`, `route` | a URI is taken apart by three functions that see its parts differently; a lookup that fails halfway |

How they interact: a SIP thread gets an INVITE, counts it under the called
registration (`Registration::attach`), takes a free slot
(`Timeslot::assign`, which counts the call, puts the slot on a hash chain and
posts a START record to the record queue) and calls `timeslot::incoming`,
which arms the slot's timer, notifies the background thread and starts a
script. Later events look the slot up by call id and are posted to its
handler. The background thread delivers timeouts to the same handlers, and the
control thread hangups. Whoever releases the slot posts the STOP record,
lowers the counters and returns the slot to the free list.

What makes it correct: no slot is lost or handed out twice; counters equal the
calls they count and limits hold; every START record has one STOP record; an
event reaches the call it belongs to; no caller is left without an answer; a
timer that is armed is served; a posted record is handled; shutdown ends.

## Modules

| Module | Models |
|---|---|
| `Timeslot` | the pool, its handlers, `thread::invite` and the call events of `thread::run`, timeouts, operator hangup, call counters and limits |
| `CallPool` | what the pool promises: one call per slot, one slot per call, limits kept |
| `TimeslotProofs` | theorems about `Timeslot`, its counters and its refinement of `CallPool` |
| `Background` | `Background::run`, `notify`, `shutdown`, with `arm`, `disarm` and `getExpires` of a slot |
| `BackgroundProofs` | theorems about `Background` |
| `Dbi` | the record queue with its two linked lists |
| `DbiProofs` | theorems about `Dbi` |
| `DriverConfig` | the active configuration, its registration keys, its start and reload, and the reference counts of script images |
| `DriverConfigProofs` | theorems about `DriverConfig` |
| `Registrations` | registrations with SIP providers, from constructor to release, and the lock of the SIP library in `sipw/voip.cpp` |
| `RegistrationsProofs` | theorems about `Registrations` |
| `Server` | the server process: start and stop, the control fifo, `psignals`, `baycontrol`, and the counting of the SIP threads |
| `ServerProofs` | theorems about `Server` |
| `Stats` | the statistics nodes, updated by calls and by the period command and read by `baycontrol` |
| `StatsProofs` | theorems about `Stats` |
| `Uri` | how a registration's URI is taken apart, its address of record written and its server found |
| `UriProofs` | theorems about `Uri` |
| `MCTimeslot`, `MCBackground`, `MCDbi`, `MCDriverConfig`, `MCRegistrations`, `MCServer`, `MCStats`, `MCUri` | instances for TLC |

Three modules look at `thread::run` from different sides: `Timeslot` at the
events of calls, `Registrations` at those of registrations and at the library's
lock, `Server` at the loop itself and its counts. Each takes the others' effect
as a step without state of its own: a command of `Server` succeeds or fails
where `Timeslot`, `DriverConfig` and `Stats` say what it does, and the calls of
`Stats` come in where `Timeslot` says which slot they get.

### Timeslot

A step is one critical section: of the list lock (`Assign`, `AssignFails`,
`Relist`, the lookup in `Fetch`), of a slot's mutex (`PostDrop`,
`PostRelease`, `StepScript`, `EndScript`, `TimeoutRelease`, `ControlHangup`),
or of a statistics node (`Invite`, `Unattach`). The stretches of `incoming`
that run without a lock are the steps `StartIncoming`, `RefuseIncoming`,
`SetScripting` and `ArmStepping`. `Timeslot::release` is two steps,
`ReleaseSlot` and `Relist`, because it gives up the slot's mutex before it
takes the list lock. The posting of the STOP record, the final response of
`drop`, `setIdle` and the counters are all part of `ReleaseSlot`: they happen
under the slot's mutex.

`slot[s]` has the members of the class that the code decides on. A handler
pointer is `"idle"`, `"release"` or `"script"`; `Dispatch` is the three event
handlers as a table. `mapped->started` is the Boolean `started`, the
transaction id `tid` is named by the call of its INVITE, and the timer is
disarmed, armed for a script step, or armed for the 16 seconds of an
unanswered call. `finals`, `served` and `stops` are history variables.
`thr[t]` has the position and the locals of each thread.

Abstractions: the lists are sets (which free slot is taken is left open, where
the code takes the head); which check of `incoming` fails is left open; a
script may go on or end at each step; `connected` is never set in this driver,
so its branch in `drop` is left out. One timing assumption is made
(`InIncoming`): `incoming`, which does not block, ends before the 16 second
timer it arms. The SIP library is external: it reports a new call once, a
closed call at most once, any number of BYE requests outside of the dialog,
and a released call last, in the order of the queue of its context.

Not in this module: DISABLE, which the SIP driver rejects; ENABLE, which only
an offline slot accepts; SHUTDOWN, which `Driver::stop` posts at the end of the
process; and the two `assign` functions over a range of slots, which nothing calls.

### Background

`timer[s]` is the time left of a slot's timer and `expires` that of the next
scan; `Tick` takes one from each. The lock of the Conditional covers the top
of the loop up to the wait (`Top`) and from the wait to the scan (`Wake`). The
scan visits one slot per step (`Visit`), so timers are armed behind and before
it, and a handler may arm its own slot again (`NotifySelf`). `arm` is two
steps, the timer and the notification, and so is the start of `shutdown`,
which clears `running` and notifies afterwards. `slack` counts the ticks
during a scan: the code computes the next scan from values read at different
times, and may be late by that much. Assumed: a thread does not arm a timer
that has already run out (the `InIncoming` assumption again), and
`shutdown` begins after the events in hand were taken (`TakeEvent`).

### Dbi

The lists are kept as pointers because `post` links a record behind `runlast`,
which never moves. `Take` is the section of the loop that empties the run
list; `Walk` handles and frees one record. `fp` keeps its value when the log is
closed, as in the code. `posted` is a history variable. `dbi::stop` is called
long after the thread has started.

### DriverConfig

`Driver::locking` is a shared lock that lets no new reader in while a writer
waits (`CanAccess`); it comes from an external library. A thread shares it
between `Driver::get` and `Driver::release`: in `getIncoming` (`Access`,
`Search`, `Release`) and in `Timeslot::initialize` (`Initialize`, `Defaults`).
`Search` takes the reference on the script image; `Find`, a failed `Attach`
and `Detach` drop it. A successful `Attach` is the interpreter's `retain` and
the thread's `release` in one. `Driver::release(Driver *)` also frees the keys
of the registrations of the driver (`GiveBack`), with no more than shared access.

The control thread boots: `Update`, `Modify`, then `driver::start`, which has
shared access from `Start` to `EndStart`. `Activate` lets the SIP threads run,
and only then are the registrations made from the keys, one by one (`Registry`,
`Register`; `kp` is how many are left). A key that was freed in between is read
with an arbitrary result, one of which is the end of the process (`dead`). After
that the thread hands commands to the driver (`Command`) and reloads: `Create`
constructs the new driver, `Modify` is the exclusive section of `commit`, and
`Delete` comes a second later. A driver and
its compiled scripts are one name: a driver has one image here. `contexts`
stands for the static members `udp_context`, `tcp_context` and `tls_context`,
`due` for work that the SIP library wants done in `automatic_action`. The
other uses of a context, by the threads that keep a copy of the pointer, go on
after a reload and are left out. A slot is taken by one thread at a time, which
`Timeslot` shows.

### Registrations

`reg[r]` has the members of a registration, `lib[i]` what the library knows of
the id `i`, `owner[c]` the holder of the lock of context `c`. The main thread
runs `driver::start` (`Enlist`, `MakeRegister`, `SendRegister` are the
constructor of a registration), then the operator's release command and
`driver::stop` (`Release`, `ReleaseUnregisters`). There is one SIP thread per
transport. `Answer` is `get_event` and `driver::locate`, which searches the
list without a lock; what follows is a step of its own, because the main thread
may release the registration in between: `Confirm`, `GiveUp` (`failed` and
`cancel`, which differ in one guard) with `GiveUpUnregisters`, `Authenticate`
with `AddAuthentication`, or `Ignore`. `Request`, `MakeResponse`,
`SendResponse` and `SendAnswer` are the messages a SIP thread answers itself:
OPTIONS requests, challenged calls, and plain answers.

The functions of `voip.cpp` are of three kinds: those that lock, call and
unlock (`Call`), those that return a message and keep the lock (`MakeMessage`),
and those that send a message and give it back (`SendMessage`). Both builds are
initial states: `api4` has one context per transport; the earlier libraries
have one for the process and their `make_registry_request` keeps the lock when
no message was made (`leaked`). Assumed of the library: its mutex is recursive,
ids are positive and never given twice, and a failure is a negative number
without a message. The number may be -1 or another one (`Errors`). The
constructor tests for -1 only, so that another one stays in `rid` as if it were
an id, and `driver::activate` reports success; no message is sent for it and no
answer can name it. `Unregister(i, built)` is `voip::release_registry`: the
library may be unable to build a request, for an error code always, and the
callers ignore its result. The registration is then given up by the server and
stays with its provider, which the history variable `kept` records. A NULL context that is followed (`fault`) stops that thread only, so
that everything that may still happen is explored. `confirmed`, `dropped`
and `kept` are history variables.

### Server

`main` is the position of the main thread in `init()` of `sipw/driver.cpp` and
the functions it calls. `Receive` and `Read` are `server::receive`: the first
reports the success of the last command, the second waits for the next, which
may name a client. `Handle` is the body of `server::dispatch`; `Outcomes` is
its table of commands, each of which may succeed, fail, end the loop or kill
the process. Commands with one effect on this module are one: `level` is
verbose, period (which ends the process when it is given 0 minutes, by an
assertion or by a division) and concurrency, `board` is suspend and resume, `post` is the
events posted to a slot, `dispatch` what is handed to the driver. `reply()` is
`Reply`, which clears the target. A client is one run of `baycontrol`:
`Command` opens the fifo and writes, `TakeReply` and `TimeOut` end its wait; a
command with no server, with no room in the fifo or with wrong arguments
(`Usage`) ends as `unsent`.

`psig` is the thread of `psignals`: it takes a signal in one step (`SigWait`)
and writes the command in another (`Control`), and does not notice a full fifo.
`Cancel` is called by `server::release` and again by the destructor. `thr[t]`
is the loop of a SIP thread; the three counts have no lock, so that each
increment is a read and a write (`val` is what was read) modulo `CountMod`, and
an update may be lost (`lost`). The ways to wait for ever that other modules
find are outcomes here: `ShutdownBackground` may not return (`hung`), as
`Background` shows of `Background::shutdown`, and the registrations may leave
the library's lock taken (`locked`), as `Registrations` shows of the earlier
build, so that the main thread may hang and an event may not end. When the contexts
are given up under a thread that waits in the library, the process may die
(`UseAfterQuit`).

Abstractions: a signal is raised once; process ids are not used again; what
the standard streams buffer of the fifo is part of `FifoSize`; exit codes are
left out.

### Stats

`node[n]` is a `statmap`, node 0 the system's. A call goes through
`attach` (registration), `assign` (system), `active`, `detach` and is counted
down in the same two nodes. `Protect` takes the mutex of the node, and `Work`
is one of three statements of `update` or `release`: the steps a reader in
another process can tell apart, which take effect in program order. The period
command visits the nodes (`PeriodNode`, `PeriodReset`) under the same mutexes.
`baycontrol` copies the members one by one (`Copy`) and compares them the same
way (`Compare`) until nothing differs; of a node it uses the total, current and
peak counts, so that the buffer has no others. `reported` is a history variable.

### Uri

What the constructor of a registration does with its URI. Text is a sequence of
words and marks, so that the searches for a colon, an "@" or a bracket are the
code's (`portid`, `hostid`, `userid`), and no word is put together from letters.
`asked` is what was meant, as a record of schema, user, host and port; `Text`
writes it. `Route` is `srv::route` up to its call of `set`: it chooses the
context and writes a local name or an address anew with a port (`Sid`).
`Query`, `Answer` and `Host` are the lookups of `set`, whose results are the
resolver's and arbitrary; each accepted record becomes the entry, because
`current` is declared inside the loop and NULL whenever it is tested. `Return` is
the rest of `route` and of the constructor up to the address of record
(`AddressOfRecord`), and `Clear` the end of its resolver. That address is text,
as the code writes it: always with the schema sip, without brackets around an
address with colons, and with an "@" also where there is no user.
The identity is also what is routed; a "server" key only replaces the latter.

## Runs

| Run | Expect | States | Shows |
|---|---|---|---|
| `timeslot_pool` | pass | 481,420 | all safety properties of the pool, and that it implements `CallPool` |
| `timeslot_live` | pass | 6,272 | every slot becomes free again |
| `timeslot_two_contexts` | violation | | an event reaches another call |
| `background` | pass | 91,342 | no timer is overlooked, timers are served, the thread ends |
| `background_shutdown` | violation | | `shutdown` may wait forever |
| `dbi` | pass | 50,368 | no record in two places, no write to a closed log, the queue drains and stops |
| `dbi_lost` | violation | | the third record posted unlinks the second |
| `driver_config` | pass | 30,268 | no driver object is deleted under a thread, script images are counted exactly and destroyed in the end, the start and the reloads end |
| `registrations` | pass | 79,468 | the library's lock is held for a message only and becomes free again; an active registration is registered in the library, and what was active is not given up before it is asked to unregister it; answers find their registration |
| `server` | pass | 1,203,152 | replies belong to their command, no SIP thread outlives `thread::shutdown`, SIGTERM ends the server but for named faults |
| `stats` | pass | 1,229,880 | the values of a node fit together, every call is in one period, a reader without the mutex sees what could have been |
| `uri` | pass | 26,556 | a registration goes to the context, host and port that its URI means, and its address of record names its user and host |

Bounds. `timeslot_pool` has two slots and three calls, so that a call finds all
slots taken and every slot can be used again; call ids 1 and 3 share a hash
chain (`TIMESLOT_INDEX_SIZE = 2`); one registration has a limit of one and a
second no statistics node; the server has a realm, so that calls are
challenged. The liveness run needs only two slots and two calls. `background`
has two slots, one to be visited before and one after a timer is armed, two
timeouts, and at most two ticks during a scan. `dbi` has three records, the
least number with which `runlast` matters, and two posting threads.
`driver_config` has three drivers, so that one reload follows another while
calls still hold the first image, two threads and slots, and two keys, so that
one is read before and one after they are freed.
`registrations` has two registrations on one transport, so that one is
constructed while answers for the other arrive, in both builds; what two
transports add is covered by the proofs, which have no bound. `server` has two
SIP threads, the least number with which an update of a count is lost, one
operator with one command of two that end differently (a reply by `receive` or
the end of the process, a reply at once), SIGTERM and the alarm, so that two
commands without a client come in between, a fifo of one command, which both
fill, and counts modulo 3. That any number of clients and threads behaves the
same is proved for the safety properties. `stats`
has two calls, so that they meet in a node and at a limit of one, two
registrations of which one finds no node (`Tables = 1`), and one period;
calls are symmetric. `uri` has every combination of schema (none and four), user
(none, a lower-case word, a number), seven hosts and port, in brackets and
without, the drivers of both protocols with one, two and three contexts, and
replies of up to two records, so that a name can be unreadable after a record
was accepted.
Deadlock is not checked where the system may rest: when all calls of the
instance are over, or the record thread has stopped. Slots, calls and records
are not declared symmetric: the call ids are numbers, and two of the other runs
check liveness.

Fairness. Threads run: weak fairness for the steps a thread takes on the event
it has in hand, for the loop of the background thread and for that of the
record thread. The clock ticks, and `shutdown` keeps polling. Two more
assumptions are premises of the property that needs them: `SlotReturned`
assumes that the library ends every call with a release event, as comments in
`sipw/timeslot.cpp` do ("no hangup timer needed for exosip, it will give timed
release"); `UnansweredFreed` assumes that a timer which keeps running out is
delivered, which is what `TimerServed` of `Background` establishes, and does
without the library's event. In `DriverConfig` calls end (`Detach`), which
`SlotReturned` establishes, and `OldImagePurged` needs it; `ReloadEnds` rests on
the lock's preference for the writer.
`LocksFreed` assumes strong fairness for the main thread and for each SIP thread
with an event in hand: who waits for a mutex gets it if it is free again and
again. Answers, requests, operator and background thread owe nothing. The
property excuses a lock that `make_registry_request` has kept. `TermStops`
assumes weak fairness for the main thread, `psignals` and the SIP threads;
signals, clients and SIP events need not come, and a SIP thread that handles an
event owes nothing while the library's lock is kept (`Unblocked`). It names its
exceptions, each of them a fault of the code: the fifo was full (`dropped`), so
that the command that the signal stands for was lost; a count lost an update
(`lost`), after which `thread::shutdown` may wait forever; the lock of the library
was kept (`locked`); `Background::shutdown` did not come back (`hung`).

### Findings

* **An event can reach another call.** `thread::run` looks a slot up and posts
  to it afterwards, with no lock held and no sequence number to compare
  (`sipw/thread.cpp:246`). With one SIP context this is harmless, because only
  that context's thread assigns slots: `DeliverySafe` proves it. With two, the
  background thread can free the slot and the other context's thread give it to
  a new call in between, which then is dropped. Builds for eXosip 4 always
  open a udp and a tcp context.
* **`Background::shutdown` can wait forever** (`common/thread.cpp:41`). It
  clears `running` and notifies afterwards; if the thread sees `running` first,
  it ends and clears `signalled`, and the notification sets it again for good.
* **A posted record can be lost** (`common/dbi.cpp:103`). `post` does not move
  `runlast`. The third record posted before the thread takes the list unlinks
  the second, which is neither logged nor freed.

The modules also state what the documentation says and the code does not keep in
five more cases. No configuration checks these statements, so that the runs stay
few; to see a counterexample, add the name to the configuration of its module.

* `DriverConfig!KeysHeld` (an invariant): a call frees the configuration's
  registration keys (`common/driver.cpp:353`). `Driver::release` of a driver
  frees them for everybody, under shared access. `driver::start` reads them after
  it has started the SIP threads, so that a call that comes in at that time leaves
  it with freed keys. "The driver also holds the currently active configuration
  for the running server" (`inc/bayonne/driver.h:92`).
* `DriverConfig!AutomaticDone` (a property): a reload ends the refreshing of
  registrations (`sipw/driver.cpp:47`). The constructor of the SIP driver clears
  the contexts, which are static, and `reload` runs it; only `start` sets them.
  `background::automatic` then skips every context. The configuration has a
  "default expiration/refresh for SIP registrations" (`config/bayonne.conf:20`),
  and reload is to "load server configuration while live." (`utils/baycontrol.8:57`).
* `Registrations!ReleasedIsCleared` (a property): a released registration may stay
  registered (`sipw/registry.cpp:139`). The result of `release_registry` is
  ignored, so that a registration for which no request was built is given up by
  the server only. Release is to "clear an active registration with a remote call
  server." (`utils/baycontrol.8:54`).
* `Uri!IdentityEnough` (an invariant): the port of `sip:user@[address]:port` is lost
  (`common/uri.cpp:493`). `portid` looks for a bracket at the begin of the text;
  with a user in front of it the colons of the address hide the one of the port,
  and the default port is used. "a single identity uri is all that is really
  essential" (`config/bayonne.conf:46`).
* `Uri!LookupUsed` (an invariant): a server's address can be read from freed
  records (`common/uri.cpp:228`). A name that cannot be read, after a record was
  accepted, frees the records but not the pointer to one of them; it is used when
  the host is not found either.

Also met, and not the subject of a run: a registration without a
statistics node has no limit (`registry.cpp:94`), so that the limit is stated
for metered ones; a call refused by `incoming` gets a second final response
when its slot is freed, since the transaction is kept; the plugins see records
only while a call log is open; a log is closed twice after a list without a
STOP record. In the registrations: an error code of the library other
than -1 is kept as an id (`sipw/registry.cpp:97`), and `activate` reports success
for it; `make_registry_request` for the earlier
libraries keeps the lock on failure, because it tests `!msg`, the address of
the result, and not the result (`voip.cpp:622`); `authenticate` may follow a
NULL context after a concurrent release (`sipw/registry.cpp:191`); an OPTIONS
request is answered twice; registrations are released while the SIP threads
still run, and the contexts given up while they may wait in `get_event`. In the
control interface: a full fifo loses the command of a signal (`psignals.cpp:75`),
which `TermStops` names as an exception, because nothing in the repository says
that a signal is never lost; a `static int exit_code` inside `dispatch` hides the one that
`release` exits with, so that a restart exits with 0 (`server.cpp:855`);
`psignals` sends "timer", which no command is named; the suspend and resume of
`baycontrol` use `single`, which takes no argument, and always fail; its usage
lists "release", which it has no command for; `snapshot` uses the file it could
not open; a malformed "timeslot" command releases the driver's shared lock once
too often; a late reply goes to the process id of a client that may have timed
out. In the statistics: a reader may see a current count one ahead of the peak,
which is why `SnapshotConsistent` says "at most one". In the URIs, named in
`RouteNamesTarget` and `IdentityNamed` as an exception because nothing says that a
URI may lack its schema: "pbx:5080" is taken for the schema "pbx" and the host
"5080", "fd::1" loses its first group and "::1" its first colon (`uri.cpp:482`,
`509`; the attempt to prove `RouteNamesTarget` found the second of them). The
address of record has no brackets around an address with colons, and an "@" also
where there is no user (`sipw/registry.cpp:78`). The last service record with
an address is used, not the one with the best priority and weight, and `next`,
which nothing calls, would read `srvlist` after a host lookup, when it is NULL.

## Proofs

TLAPS checks the theorems for every value of the constants that satisfies the
named assumptions of the modules: finitely many slots and contexts, positive
call ids, `NULL` values that are no slot, record or registration, limits that
are natural numbers, and for the statistics finitely many calls and at least one
registration.

* `TimeslotProofs!TypeCorrect`: types, for any number of contexts, from
  `TypeInv`, which adds that a thread has the call id and the slot its position
  needs.
* `TimeslotProofs!ListsSafe` (with its parts `FreeListSafe` and `IndexSafe`),
  `BillingSafe`, `DeliverySafe`: with one SIP context. The inductive invariant `Inv` adds to the types what an idle slot
  looks like (`SlotsOK`), that a slot is on the chain of its call id until it is
  free (`ChainsOK`), what each thread knows of its slot at each position
  (`ThreadOK`), that a slot neither busy nor free is being returned by exactly
  one thread (`ReturnsOK`), and that a call has one slot (`CallsOK`).
  `NoSlotLeaked` alone is not inductive: a second release is impossible only
  because a released slot is idle and the idle handler rejects the event, and
  `DeliverySafe` needs that no other thread can admit a call between a lookup
  and a post. The premise `OneContext` is needed: the run
  `timeslot_two_contexts` refutes the conclusion without it.
* `TimeslotProofs!CallersAnswered`: with one SIP context no caller is left
  without an answer. `NoCallForgotten` says nothing of a call while a slot has
  it, so `AnswerInv` adds what the end of that slot depends on. A slot whose
  timer is armed, or is about to be, has the transaction that `drop()` answers,
  or its call was answered (`Pending`): the timeout that releases it leaves no
  caller waiting. A slot that `disconnect()` has left without its transaction
  has no timer, and is released only by the library's RELEASE, which a thread
  posts for a call that is gone (`AnswerOK`). The stale write to fear is the arm
  step of `setScripting` after a hangup has taken the transaction; the hangup
  has answered, and `Pending` holds by its second half.
* `TimeslotProofs!CountersSafe` and `LimitsSafe`: the counters equal the calls
  they count and limits hold, from `Inv` and `CountInv`. Each step either starts a call, ends
  one, counts or discounts one under a registration, or changes neither
  (`StepKinds`), and the cardinalities follow.
* `TimeslotProofs!CallsSafe` and `Refinement`: no step moves a slot in use to
  another call, and `Timeslot` implements `CallPool`: `Assign` is `Admit`,
  `ReleaseSlot` is `Finish`, and everything else is a stutter.
* `BackgroundProofs!BackgroundTypeCorrect` and `TimersSafe`: the thread never
  sleeps past a timer. `TimerInv` adds that no scan is planned before the
  thread starts; the property is otherwise inductive as it is stated, because
  it names everything that can make the loop look again.
* `DbiProofs!LogSafe`: types, and no STOP record meets a closed log. The
  inductive invariant says that three disjoint sets of records hold the run
  list, the list being walked and the free list: links never leave their set,
  and a STOP record in the first is flagged by `cdr`. Sets that hold the lists
  are used instead of the lists themselves, which are defined by recursion.
* `DbiProofs!RecordsSafe`: no record is in two places and no list runs in a
  circle. The same invariant is enough, with what the recursion of `Nth` computes
  in such a set (`ListStays`). A list stays in its set, by induction on the
  number of links followed. If it did not end, one of the records would be met
  twice, there being more steps than records; take the earliest. It is not the
  head, which no link leads to, so the record before it was met twice already,
  since no two links lead to the same record. The induction goes through the
  least number that fails (`Least`, from `WFMin` of the library), because the
  induction theorems with an operator as parameter cannot be used here.
* `DriverConfigProofs!ConfigSafe` and `ReadersSafe`: no driver object is replaced or deleted under a
  SIP thread that has got it, and the count of every script image is the number of
  those who hold it, so that "existing calls will complete using a prior
  script" (`inc/bayonne/driver.h:145`). `ConfigInv` adds what a thread holds at
  each position (`ReadersOK`), that the active driver is neither the one to be
  deleted nor the one to come (`ControlOK`), and that nobody holds an image not
  made yet (`CountsOK`). A count never becomes negative because whoever drops a
  reference is a member of the set that is counted. The theorems say nothing of
  the keys that a driver owns: `KeysHeld` does not hold.
* `RegistrationsProofs!RegistrationsTypeCorrect`, `LocksSafe`, `LibrarySafe`,
  `AnswersSafe`: for any number of registrations and transports and both builds.
  `RegInv` adds who holds the lock of which context (`LocksOK`), what the main
  thread has in hand (`MainOK`), that an id belongs to one registration, which
  the library has under that id and context, and that only an active one was
  confirmed (`IdsOK`), that ids are used in order, at most one per registration
  (`UsedOK`, which makes the next id a new one), and that a SIP thread which has
  located a registration has its id or one that was given up (`EventOK`). The
  last is what makes a late answer harmless: a registration whose id was given
  up has -1, and gets no second id. An error code is never active, so that what is
  given up with it was never confirmed; for an id that was, the library was asked
  to unregister it or could not be (`kept`).
* `ServerProofs!ServerTypeCorrect`, `RepliesSafe`, `StopSafe`: for any number of
  clients and SIP threads. `ReplyInv` says that the command of a waiting client
  is in at most one place (the fifo, in hand, or done and not yet replied to),
  and what the outcome is in each. `StopInv` bounds the counts from above
  by the threads that have counted themselves, which a lost update cannot
  break: `shutdown_count >= startup_count`, with all threads started, then
  leaves none running.
* `StatsProofs!PeriodsSafe` and `SnapshotSafe`: for any number of calls, nodes
  and periods. `StatsInv` adds that who works on a node has its mutex
  (`WorkerOK`, `PeriodOK`), that the total is what was reported plus the running
  period, or without it between the two steps of a period (`SumOK`), in which
  step of an update the total and the current count are ahead (`CountOK`), and
  what the copy made so far is worth (`CopyOK`): totals and peaks never fall, so
  that an unchanged total covers the time of the copy.
* `StatsProofs!OrderSafe` and `StatsTypeSafe`: the values of a node fit together
  between updates, and no counter leaves its bounds. That a current count does
  not fall below the periodic minimum, or a minimum below zero, is true only
  because every decrement belongs to a call that was counted before. `OrderInv`
  therefore says that the current count of a node is the number of calls in it
  (`Counted`), a call in the middle of an update belonging to one side of each
  step, and that the total is at most the number that ever entered (`Entered`);
  it says which of the maxima an update still has to raise (`Ordered`, with the
  step of the call that has the mutex), that a node has one owner (`TableOK`),
  and that a registration stays below its limit from the check to the count,
  both under the mutex of its node (`LimitOK`).

* `UriProofs!RoutesSafe` and `IdentitiesSafe`: for every choice of schemata,
  users, hosts and ports, a registration goes where its URI means, and its address
  of record is the text of the user and the host it names. From `WordsKnown` and `HostsKnown`:
  users and ports are not marks, a port is not the name of a service, a host is
  one word or an address with two colons or more, and a name in a domain, which
  has a dot, is no lower-case word. The text is a concatenation,
  and a search finds the first mark (`Cutting`), the only one (`OneMark`) or two
  of them (`TwiceJoined`). `SchemaRead` says that the three functions agree where
  the schema ends, which fails exactly for the URIs of `HostMisread`; `HostRead`,
  `PortRead` and `UserRead` say that each reads what was written. They hold for
  the URIs that `Sid` writes as well (`Readable`), so the same lemmas serve for
  the second reading (`Rewritten`), and for what `Cut` leaves (`LookedUp`).
  `RouteInv` then adds to the property when an entry may point to records that
  were given up, and that only a service query has records.

Only model-checked: the liveness properties, `TermStops` and `LocksFreed` among
them, because the prover has no rule for fairness; and `NoRecordLost`, which a
run refutes.

## Not modelled

* The script engine, eXosip and the DNS resolver, which are external libraries,
  and the script keywords registered with the first.
* `next`, `create`, `dialed` and `server` of `uri.cpp`, which nothing calls, with
  the priorities and weights that only `next` reads.
* Boards, spans and line timeslots, with `enable`, `disable` and the SHUTDOWN
  event of a slot: the SIP driver rejects the first two, the last is posted when
  the process ends, and the Voicetronix driver, which would use them, has no
  source of events.
* Functions of `voip.cpp` that nothing calls, `listen`, and the contents of
  messages.
* Start-up, options, logging, the text of reports and snapshots, the other
  displays of `baycontrol`, `baylint`, and the branches for Windows.

## Plan

1. `DriverConfig`: an abstract specification in which a reader always sees one
   configuration, and the refinement, which needs the keys to be freed by the
   driver that owns them.
2. Line timeslots with `enable`, `disable`, SHUTDOWN, boards and spans, when a
   driver has events for them.
