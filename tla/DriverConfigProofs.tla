-------------------------- MODULE DriverConfigProofs --------------------------
(***************************************************************************)
(* Proofs about DriverConfig, for any number of reloads, threads and slots.*)
(***************************************************************************)
EXTENDS DriverConfig, FiniteSetTheorems, TLAPS

\* What a thread holds where: a thread with a driver works with the active
\* one, and the slot it works on runs no script.
ReaderOK(t) ==
    /\ reader[t].pc = "ready" => reader[t] = Idle
    /\ reader[t].pc # "ready" =>
          /\ started
          /\ reader[t].slot \in Slots
          /\ image[reader[t].slot] = None
    /\ t \in Sharing => reader[t].driver = active
    /\ reader[t].pc = "search" => reader[t].scr = None
    /\ reader[t].pc \in {"find", "initialize", "defaults", "attach"} => reader[t].scr # None

ReadersOK ==
    /\ \A t \in Readers : ReaderOK(t)
    /\ \A t, u \in Readers : reader[t].slot # None /\ reader[t].slot = reader[u].slot => t = u

\* The active driver is never the one to be deleted, nor the one to come.
ControlOK ==
    /\ live \cap fresh = {}
    /\ active # None => active \in live
    /\ started => active # None
    /\ ctl \in {"start", "activate", "registry", "register", "delete", "ready", "create",
               "release"} => active # None
    /\ ctl \in {"release", "update", "modify"} => next \in live /\ next # active
    /\ ctl = "delete" => orig \in live /\ orig # active
    /\ ctl = "start" => ~started

CountAt(d) ==
    /\ refs[d] = Cardinality(Holders(d))
    /\ d \in purged <=> Holders(d) = {}

CountsOK ==
    /\ \A d \in Drivers \ fresh : CountAt(d)
    /\ \A d \in fresh : Holders(d) = {} /\ d \notin purged

ConfigInv == TypeOK /\ ReadersOK /\ ControlOK /\ CountsOK

-------------------------------------------------------------------------------
\* Types are kept; a count never falls below zero, because whoever drops a
\* reference is counted.
LEMMA ConfigTypes == TypeOK /\ ReadersOK /\ CountsOK /\ ControlOK /\ [Next]_vars => TypeOK'
<1> SUFFICES ASSUME TypeOK, ReadersOK, CountsOK, ControlOK, [Next]_vars PROVE TypeOK'
  OBVIOUS
<1> USE DriversAssumption, KeysAssumption DEF TypeOK, Pointers, ReaderType
<1>u. ASSUME NEW d \in Drivers, refs[d] # 0, Unref(d)
      PROVE  refs' \in [Drivers -> Nat] /\ purged' \in SUBSET Drivers
  BY <1>u DEF Unref
<1>i. Idle \in ReaderType
  BY DEF Idle
<1>h. ASSUME NEW d \in Drivers \ fresh, NEW x \in Holders(d) PROVE refs[d] # 0
  <2>1. IsFiniteSet(Holders(d))
    <3>1. Holders(d) \subseteq Readers \cup Slots \cup {d}
      BY DEF Holders
    <3>2. IsFiniteSet(Readers \cup Slots \cup {d})
      BY KindsAssumption, FS_Union, FS_Singleton
    <3> QED
      BY <3>1, <3>2, FS_Subset
  <2>2. Cardinality(Holders(d)) # 0
    BY <2>1, FS_EmptySet
  <2> QED
    BY <2>2 DEF CountsOK, CountAt
<1>1. ASSUME NEW t \in Readers, ReaderStep(t) PROVE TypeOK'
  <2>0. reader[t] \in ReaderType
    OBVIOUS
  <2>s. ASSUME reader[t].scr # None
        PROVE  reader[t].scr \in Drivers /\ refs[reader[t].scr] # 0
    <3>1. reader[t].scr \in Drivers
      BY <2>s, <2>0
    <3>2. t \in Holders(reader[t].scr)
      BY DEF Holders
    <3>3. reader[t].scr \notin fresh
      BY <3>2 DEF CountsOK
    <3> QED
      BY <3>1, <3>2, <3>3, <1>h
  <2>d. t \in Sharing => reader[t].driver \in Drivers
    BY DEF ReadersOK, ReaderOK, Sharing, ControlOK
  <2>1. CASE Search(t)
    <3>1. reader[t].driver \in Drivers
      BY <2>1, <2>d DEF Search, Sharing
    <3> QED
      BY <2>1, <3>1, <2>0 DEF Search, Retain, control
  <2>2. CASE Release(t)
    <3>1. [reader[t] EXCEPT !.pc = "find", !.driver = None] \in ReaderType
      BY <2>0
    <3>2. reader' \in [Readers -> ReaderType]
      BY <2>2, <3>1, <1>i DEF Release
    <3>3. unkeyed' \in SUBSET Drivers
      BY <2>2, <2>d DEF Release, GiveBack, Sharing
    <3> QED
      BY <2>2, <3>2, <3>3 DEF Release, control
  <2>3. CASE Find(t)
    BY <2>3, <2>s, <1>i, <1>u DEF Find, control, ReadersOK, ReaderOK
  <2>4. CASE Initialize(t) \/ Defaults(t)
    BY <2>4, <2>d DEF Initialize, Defaults, GiveBack, Sharing, control
  <2>5. CASE Attach(t)
    <3>1. reader[t].scr \in Drivers /\ refs[reader[t].scr] # 0 /\ reader[t].slot \in Slots
      BY <2>5, <2>s DEF Attach, ReadersOK, ReaderOK
    <3>2. refs' \in [Drivers -> Nat] /\ purged' \in SUBSET Drivers
      BY <2>5, <3>1, <1>u DEF Attach
    <3>3. image' \in [Slots -> Pointers] /\ reader' \in [Readers -> ReaderType]
      BY <2>5, <3>1, <1>i DEF Attach
    <3> QED
      BY <2>5, <3>2, <3>3 DEF Attach, control
  <2> QED
    BY <1>1, <2>1, <2>2, <2>3, <2>4, <2>5 DEF ReaderStep
<1>2. ASSUME NEW t \in Readers, NEW s \in Slots, Access(t, s) PROVE TypeOK'
  BY <1>2 DEF Access, control
<1>3. ASSUME NEW s \in Slots, Detach(s) PROVE TypeOK'
  <2>1. image[s] \in Drivers /\ s \in Holders(image[s])
    BY <1>3 DEF Detach, Holders
  <2>2. image[s] \notin fresh
    BY <2>1 DEF CountsOK
  <2>3. refs' \in [Drivers -> Nat] /\ purged' \in SUBSET Drivers
    BY <1>3, <2>1, <2>2, <1>h, <1>u DEF Detach
  <2> QED
    BY <1>3, <2>3 DEF Detach, control
<1>4. CASE ControlStep
  <2>1. ASSUME NEW d \in Drivers, Create(d) PROVE TypeOK'
    BY <2>1 DEF Create
  <2>k. 0 \in 0..Keys /\ Keys \in 0..Keys /\ \A k \in 0..Keys : k > 0 => k - 1 \in 0..Keys
    OBVIOUS
  <2>2. CASE EndCreate \/ Update \/ Modify
    BY <2>2 DEF EndCreate, Update, Modify, others
  <2>5. CASE Start \/ Activate \/ Registry
    BY <2>5, <2>k DEF Start, Activate, Registry, others
  <2>4. CASE Register \/ EndStart
    BY <2>4, <2>k DEF Register, EndStart, GiveBack, others, ControlOK
  <2>3. CASE Delete
    <3>1. orig \in Drivers \ fresh /\ orig \in Holders(orig)
      BY <2>3 DEF Delete, ControlOK, Holders
    <3>2. refs' \in [Drivers -> Nat] /\ purged' \in SUBSET Drivers
      BY <2>3, <3>1, <1>h, <1>u DEF Delete
    <3> QED
      BY <2>3, <3>2 DEF Delete
  <2> QED
    BY <1>4, <2>1, <2>2, <2>3, <2>4, <2>5 DEF ControlStep
<1>5. CASE Command \/ Reload \/ Due \/ Automatic
  BY <1>5 DEF Command, GiveBack, Reload, Due, Automatic, others, ControlOK
<1>6. CASE UNCHANGED vars
  BY <1>6 DEF vars
<1> QED
  BY <1>1, <1>2, <1>3, <1>4, <1>5, <1>6 DEF Next

-------------------------------------------------------------------------------
\* No step takes a thread's driver or slot away: only commit() replaces the
\* active driver, and it waits for the threads that share the lock.
LEMMA StepReaders ==
    ASSUME TypeOK, TypeOK', ReadersOK, ControlOK, [Next]_vars
    PROVE  ReadersOK'
<1> USE DriversAssumption DEF TypeOK, ReaderType, Pointers, Idle
<1>1. ASSUME NEW t \in Readers, ReaderStep(t) PROVE ReadersOK'
  <2>0. /\ \A u \in Readers : u # t => reader'[u] = reader[u]
        /\ started' = started /\ active' = active
    BY <1>1 DEF ReaderStep, Search, Release, Find, Initialize, Defaults, Attach, control
  <2>1. reader[t].pc # "ready" /\ ReaderOK(t)
    BY <1>1 DEF ReaderStep, Search, Release, Find, Initialize, Defaults, Attach, ReadersOK
  <2>2. reader'[t].slot \in {reader[t].slot, None}
    <3>1. CASE Search(t) \/ Initialize(t) \/ Defaults(t)
      BY <3>1 DEF Search, Initialize, Defaults
    <3>2. CASE Release(t)
      BY <3>2 DEF Release
    <3>3. CASE Find(t) \/ Attach(t)
      BY <3>3 DEF Find, Attach
    <3> QED
      BY <1>1, <3>1, <3>2, <3>3 DEF ReaderStep
  <2>3. \A s \in Slots : image'[s] = image[s] \/ s = reader[t].slot
    BY <1>1 DEF ReaderStep, Search, Release, Find, Initialize, Defaults, Attach
  <2>4. ASSUME NEW u \in Readers, u # t PROVE ReaderOK(u)'
    <3>1. reader[u].slot = None \/ reader[u].slot # reader[t].slot
      BY <2>4 DEF ReadersOK
    <3> QED
      BY <2>0, <2>3, <2>4, <3>1 DEF ReadersOK, ReaderOK, Sharing
  <2>5. ReaderOK(t)'
    <3>1. CASE Search(t)
      BY <2>1, <3>1 DEF Search, ReaderOK, Sharing, control
    <3>2. CASE Release(t)
      <4>1. CASE reader[t].scr = None
        BY <2>1, <3>2, <4>1 DEF Release, ReaderOK, Sharing, control
      <4>2. CASE reader[t].scr # None
        <5>1. reader'[t] = [reader[t] EXCEPT !.pc = "find", !.driver = None]
          BY <3>2, <4>2 DEF Release
        <5> QED
          BY <2>1, <3>2, <4>2, <5>1 DEF Release, ReaderOK, Sharing, control
      <4> QED
        BY <4>1, <4>2
    <3>3. CASE Find(t)
      BY <2>1, <3>3 DEF Find, ReaderOK, Sharing, control
    <3>4. CASE Attach(t)
      BY <2>1, <3>4 DEF Attach, ReaderOK, Sharing
    <3>5. CASE Initialize(t)
      BY <2>1, <3>5 DEF Initialize, ReaderOK, Sharing, control
    <3>6. CASE Defaults(t)
      BY <2>1, <3>6 DEF Defaults, ReaderOK, Sharing, control
    <3> QED
      BY <1>1, <3>1, <3>2, <3>3, <3>4, <3>5, <3>6 DEF ReaderStep
  <2> QED
    BY <2>0, <2>2, <2>4, <2>5 DEF ReadersOK
<1>2. ASSUME NEW t \in Readers, NEW s \in Slots, Access(t, s) PROVE ReadersOK'
  <2>0. /\ \A u \in Readers : u # t => reader'[u] = reader[u]
        /\ started' = started /\ active' = active /\ image' = image
    BY <1>2 DEF Access, control
  <2>1. reader'[t] = [pc |-> "search", driver |-> active, scr |-> None, slot |-> s]
    BY <1>2 DEF Access, ReadersOK, ReaderOK
  <2>2. ASSUME NEW u \in Readers, u # t PROVE ReaderOK(u)'
    BY <2>0, <2>2 DEF ReadersOK, ReaderOK, Sharing
  <2>3. ReaderOK(t)'
    BY <1>2, <2>0, <2>1 DEF Access, ReaderOK, Sharing
  <2>4. \A u \in Readers : reader[u].slot # s
    BY <1>2 DEF Access
  <2> QED
    BY <2>0, <2>1, <2>2, <2>3, <2>4 DEF ReadersOK
<1>3. ASSUME NEW s \in Slots, Detach(s) PROVE ReadersOK'
  BY <1>3 DEF Detach, control, ReadersOK, ReaderOK, Sharing
<1>4. CASE ControlStep
  <2>1. reader' = reader /\ image' = image /\ (started => started')
    BY <1>4 DEF ControlStep, Create, EndCreate, Update, Modify, Delete, Start, Activate,
                Registry, Register, EndStart, others
  <2>2. Sharing # {} => active' = active
    BY <1>4 DEF ControlStep, Create, EndCreate, Update, Modify, Delete, Start, Activate,
                Registry, Register, EndStart, others
  <2> QED
    BY <2>1, <2>2 DEF ReadersOK, ReaderOK, Sharing
<1>5. CASE Command \/ Reload \/ Due \/ Automatic
  BY <1>5 DEF Command, Reload, Due, Automatic, others, ReadersOK, ReaderOK, Sharing
<1>6. CASE UNCHANGED vars
  BY <1>6 DEF vars, ReadersOK, ReaderOK, Sharing
<1> QED
  BY <1>1, <1>2, <1>3, <1>4, <1>5, <1>6 DEF Next

\* Commit and delete leave an active driver that is alive.
LEMMA StepControl ==
    ASSUME TypeOK, ReadersOK, ControlOK, [Next]_vars
    PROVE  ControlOK'
<1> USE DriversAssumption DEF TypeOK, Pointers, ControlOK
<1>1. ASSUME NEW t \in Readers, ReaderStep(t) PROVE ControlOK'
  BY <1>1 DEF ReaderStep, Search, Release, Find, Initialize, Defaults, Attach, control
<1>2. ASSUME NEW t \in Readers, NEW s \in Slots, Access(t, s) PROVE ControlOK'
  BY <1>2 DEF Access, control
<1>3. ASSUME NEW s \in Slots, Detach(s) PROVE ControlOK'
  BY <1>3 DEF Detach, control
<1>4. CASE ControlStep
  <2>1. ASSUME NEW d \in Drivers, Create(d) PROVE ControlOK'
    BY <2>1 DEF Create
  <2>2. CASE EndCreate \/ Update \/ Start \/ Activate
    BY <2>2 DEF EndCreate, Update, Start, Activate, others
  <2>5. CASE Registry \/ Register \/ EndStart
    BY <2>5 DEF Registry, Register, EndStart, others
  <2>3. CASE Modify
    BY <2>3 DEF Modify
  <2>4. CASE Delete
    BY <2>4 DEF Delete
  <2> QED
    BY <1>4, <2>1, <2>2, <2>3, <2>4, <2>5 DEF ControlStep
<1>5. CASE Command \/ Reload \/ Due \/ Automatic
  BY <1>5 DEF Command, Reload, Due, Automatic, others
<1>6. CASE UNCHANGED vars
  BY <1>6 DEF vars
<1> QED
  BY <1>1, <1>2, <1>3, <1>4, <1>5, <1>6 DEF Next

-------------------------------------------------------------------------------
(* The reference counts. *)

\* An image has finitely many holders.
LEMMA FiniteHolders == ASSUME NEW d PROVE IsFiniteSet(Holders(d))
<1>1. Holders(d) \subseteq Readers \cup Slots \cup {d}
  BY DEF Holders
<1>2. IsFiniteSet(Readers \cup Slots \cup {d})
  BY KindsAssumption, FS_Union, FS_Singleton
<1> QED
  BY <1>1, <1>2, FS_Subset

\* A step that leaves d's image alone.
LEMMA CountFrame ==
    ASSUME NEW d \in Drivers, CountAt(d), Holders(d)' = Holders(d), refs'[d] = refs[d],
           d \in purged' <=> d \in purged
    PROVE  CountAt(d)'
BY DEF CountAt

\* A step that takes a reference.
LEMMA CountRetain ==
    ASSUME NEW d \in Drivers, CountAt(d), d \notin purged, purged' = purged,
           NEW x, x \notin Holders(d), Holders(d)' = Holders(d) \cup {x},
           refs'[d] = refs[d] + 1
    PROVE  CountAt(d)'
<1>1. Cardinality(Holders(d)') = Cardinality(Holders(d)) + 1
  BY FiniteHolders, FS_AddElement
<1> QED
  BY <1>1 DEF CountAt

\* A step that drops one.
LEMMA CountUnref ==
    ASSUME NEW d \in Drivers, TypeOK, CountAt(d), NEW x \in Holders(d),
           Holders(d)' = Holders(d) \ {x}, Unref(d)
    PROVE  CountAt(d)'
<1>1. IsFiniteSet(Holders(d))
  BY FiniteHolders
<1>2. Cardinality(Holders(d) \ {x}) = Cardinality(Holders(d)) - 1
  BY <1>1, FS_RemoveElement
<1>3. IsFiniteSet(Holders(d) \ {x})
  BY <1>1, FS_Subset
<1>4. Cardinality(Holders(d) \ {x}) = 0 <=> Holders(d) \ {x} = {}
  BY <1>3, FS_EmptySet
<1>5. d \notin purged
  BY DEF CountAt
<1>6. refs'[d] = refs[d] - 1 /\ (d \in purged' <=> refs[d] = 1)
  BY <1>5 DEF Unref, TypeOK
<1>7. refs[d] \in Nat /\ refs[d] = Cardinality(Holders(d))
  BY DEF TypeOK, CountAt
<1> QED
  BY <1>2, <1>4, <1>6, <1>7 DEF CountAt

\* A step after which no other image is counted or held differently.
Apart(d) ==
    \A e \in Drivers \ {d} : /\ Holders(e)' = Holders(e)
                             /\ refs'[e] = refs[e]
                             /\ e \in purged' <=> e \in purged

\* Such a step keeps the counts if it keeps that of d.
LEMMA CountOne ==
    ASSUME TypeOK, CountsOK, NEW d \in Drivers \ fresh, Apart(d), fresh' = fresh, CountAt(d)'
    PROVE  CountsOK'
<1>1. ASSUME NEW e \in Drivers \ fresh, e # d PROVE CountAt(e)'
  BY <1>1, CountFrame DEF CountsOK, Apart
<1>2. ASSUME NEW e \in fresh PROVE Holders(e)' = {} /\ e \notin purged'
  BY <1>2 DEF CountsOK, Apart, TypeOK
<1> QED
  BY <1>1, <1>2 DEF CountsOK

\* A step that changes neither counts nor holders.
LEMMA CountSame ==
    ASSUME CountsOK, \A d \in Drivers : Holders(d)' = Holders(d), TypeOK,
           refs' = refs, purged' = purged, fresh' = fresh
    PROVE  CountsOK'
BY DEF CountsOK, CountAt, TypeOK

\* Every step of a thread, a slot or the control thread keeps the counts right.
LEMMA StepCounts ==
    ASSUME ConfigInv, [Next]_vars
    PROVE  CountsOK'
<1> USE DriversAssumption, KindsAssumption DEF ConfigInv, TypeOK, Pointers, ReaderType
<1>r. ASSUME NEW t \in Readers, reader[t].scr # None
      PROVE  reader[t].scr \in Drivers \ fresh /\ t \in Holders(reader[t].scr)
  <2>1. reader[t].scr \in Drivers /\ t \in Holders(reader[t].scr)
    BY <1>r DEF Holders
  <2> QED
    BY <2>1 DEF CountsOK
<1>a. Sharing # {} => active \in Drivers \ fresh /\ active \in Holders(active)
  BY DEF Sharing, ReadersOK, ReaderOK, ControlOK, Holders
<1>1. ASSUME NEW t \in Readers, ReaderStep(t) PROVE CountsOK'
  <2>0. live' = live /\ fresh' = fresh
    BY <1>1 DEF ReaderStep, Search, Release, Find, Initialize, Defaults, Attach, control
  <2>k. ASSUME reader'[t].scr = reader[t].scr, \A u \in Readers \ {t} : reader'[u] = reader[u],
               image' = image, refs' = refs, purged' = purged
        PROVE  CountsOK'
    <3>1. ASSUME NEW d \in Drivers PROVE Holders(d)' = Holders(d)
      BY <2>k, <2>0 DEF Holders
    <3> QED
      BY <3>1, <2>k, <2>0, CountSame
  <2>u. ASSUME reader[t].scr # None, reader' = [reader EXCEPT ![t] = Idle], image' = image,
               Unref(reader[t].scr)
        PROVE  CountsOK'
    <3>1. PICK d \in Drivers \ fresh : d = reader[t].scr /\ t \in Holders(d)
      BY <2>u, <1>r
    <3>2. Holders(d)' = Holders(d) \ {t}
      BY <2>u, <2>0, <3>1 DEF Holders, Idle
    <3>3. Apart(d)
      BY <2>u, <2>0, <3>1 DEF Holders, Idle, Apart, Unref
    <3>4. CountAt(d)'
      BY <2>u, <3>1, <3>2, CountUnref DEF CountsOK
    <3> QED
      BY <2>0, <3>1, <3>3, <3>4, CountOne
  <2>1. CASE Search(t)
    <3>1. CASE refs' = refs /\ reader' = [reader EXCEPT ![t].pc = "release"]
      BY <2>1, <3>1, <2>k DEF Search
    <3>2. CASE /\ refs' = Retain(reader[t].driver)
               /\ reader' = [reader EXCEPT ![t].pc = "release", ![t].scr = reader[t].driver]
      <4>1. PICK d \in Drivers \ fresh : /\ d = active /\ d = reader[t].driver
                                        /\ d \in Holders(d) /\ reader[t].scr = None
        BY <2>1, <1>a DEF Search, Sharing, ReadersOK, ReaderOK
      <4>2. t \notin Holders(d) /\ Holders(d)' = Holders(d) \cup {t}
        BY <2>1, <3>2, <2>0, <4>1 DEF Search, Holders
      <4>3. CountAt(d) /\ d \notin purged
        BY <4>1 DEF CountsOK, CountAt
      <4>4. refs'[d] = refs[d] + 1 /\ purged' = purged
        BY <2>1, <3>2, <4>1 DEF Search, Retain
      <4>5. CountAt(d)'
        BY <4>1, <4>2, <4>3, <4>4, CountRetain
      <4>6. Apart(d)
        BY <2>1, <3>2, <2>0, <4>1 DEF Search, Retain, Holders, Apart
      <4> QED
        BY <2>0, <4>1, <4>5, <4>6, CountOne
    <3> QED
      BY <2>1, <3>1, <3>2 DEF Search
  <2>2. CASE Release(t)
    <3>1. CASE reader[t].scr = None
      BY <2>2, <3>1, <2>k DEF Release, Idle
    <3>2. CASE reader[t].scr # None
      <4>1. reader'[t] = [reader[t] EXCEPT !.pc = "find", !.driver = None]
        BY <2>2, <3>2 DEF Release
      <4> QED
        BY <2>2, <4>1, <2>k DEF Release
    <3> QED
      BY <3>1, <3>2
  <2>3. CASE Find(t)
    <3>1. CASE Unref(reader[t].scr) /\ reader' = [reader EXCEPT ![t] = Idle]
      BY <2>3, <3>1, <2>u DEF Find, ReadersOK, ReaderOK
    <3>2. CASE reader' = [reader EXCEPT ![t].pc = "initialize"] /\ UNCHANGED <<refs, purged>>
      BY <2>3, <3>2, <2>k DEF Find
    <3> QED
      BY <2>3, <3>1, <3>2 DEF Find
  <2>4. CASE Initialize(t) \/ Defaults(t)
    BY <2>4, <2>k DEF Initialize, Defaults
  <2>5. CASE Attach(t)
    <3>1. CASE Unref(reader[t].scr) /\ image' = image
      BY <2>5, <3>1, <2>u DEF Attach, ReadersOK, ReaderOK
    <3>2. CASE /\ image' = [image EXCEPT ![reader[t].slot] = reader[t].scr]
               /\ UNCHANGED <<refs, purged>>
      <4>1. PICK d \in Drivers \ fresh, s \in Slots :
                d = reader[t].scr /\ s = reader[t].slot /\ t \in Holders(d) /\ image[s] = None
        BY <2>5, <1>r DEF Attach, ReadersOK, ReaderOK
      <4>2. s \notin Holders(d) /\ Holders(d)' = (Holders(d) \ {t}) \cup {s}
        BY <2>5, <3>2, <2>0, <4>1 DEF Attach, Holders, Idle
      <4>3. Apart(d)
        BY <2>5, <3>2, <2>0, <4>1 DEF Attach, Holders, Idle, Apart
      <4>4. Cardinality(Holders(d)') = Cardinality(Holders(d))
        <5>1. IsFiniteSet(Holders(d)) /\ IsFiniteSet(Holders(d) \ {t})
          BY FiniteHolders, FS_Subset
        <5>2. Cardinality(Holders(d) \ {t}) = Cardinality(Holders(d)) - 1
          BY <5>1, <4>1, FS_RemoveElement
        <5>3. Cardinality((Holders(d) \ {t}) \cup {s}) = Cardinality(Holders(d) \ {t}) + 1
          BY <5>1, <4>2, FS_AddElement
        <5>4. Cardinality(Holders(d)) \in Nat
          BY <5>1, FS_CardinalityType
        <5> QED
          BY <4>2, <5>2, <5>3, <5>4
      <4>5. CountAt(d)'
        BY <3>2, <4>1, <4>2, <4>4 DEF CountsOK, CountAt
      <4> QED
        BY <2>0, <4>1, <4>3, <4>5, CountOne
    <3> QED
      BY <2>5, <3>1, <3>2 DEF Attach
  <2> QED
    BY <1>1, <2>1, <2>2, <2>3, <2>4, <2>5 DEF ReaderStep
<1>2. ASSUME NEW t \in Readers, NEW s \in Slots, Access(t, s) PROVE CountsOK'
  <2>1. ASSUME NEW d \in Drivers PROVE Holders(d)' = Holders(d)
    BY <1>2 DEF Access, control, Holders
  <2> QED
    BY <1>2, <2>1, CountSame DEF Access, control
<1>3. ASSUME NEW s \in Slots, Detach(s) PROVE CountsOK'
  <2>1. PICK d \in Drivers : d = image[s] /\ s \in Holders(d)
    BY <1>3 DEF Detach, Holders
  <2>2. d \in Drivers \ fresh
    BY <2>1 DEF CountsOK
  <2>3. Holders(d)' = Holders(d) \ {s}
    BY <1>3, <2>1 DEF Detach, control, Holders
  <2>4. Apart(d)
    BY <1>3, <2>1 DEF Detach, control, Holders, Apart, Unref
  <2>5. CountAt(d)'
    BY <1>3, <2>1, <2>2, <2>3, CountUnref DEF Detach, CountsOK
  <2> QED
    BY <1>3, <2>2, <2>4, <2>5, CountOne DEF Detach, control
<1>4. CASE ControlStep
  <2>1. ASSUME NEW d \in Drivers, Create(d) PROVE CountsOK'
    <3>1. d \in fresh /\ Holders(d) = {} /\ d \notin purged
      BY <2>1 DEF Create, CountsOK
    <3>2. Holders(d)' = {d}
      BY <2>1, <3>1 DEF Create, Holders
    <3>3. CountAt(d)'
      BY <2>1, <3>1, <3>2, FS_Singleton DEF Create, CountAt
    <3>4. Apart(d)
      BY <2>1 DEF Create, Apart, Holders
    <3>5. ASSUME NEW e \in Drivers \ fresh PROVE CountAt(e)'
      BY <3>1, <3>4, CountFrame DEF Apart, CountsOK
    <3>6. ASSUME NEW e \in fresh \ {d} PROVE Holders(e)' = {} /\ e \notin purged'
      BY <3>4 DEF Apart, CountsOK
    <3>7. fresh' = fresh \ {d}
      BY <2>1 DEF Create
    <3> QED
      BY <3>3, <3>5, <3>6, <3>7 DEF CountsOK
  <2>2. CASE \/ EndCreate \/ Update \/ Modify \/ Start
             \/ Activate \/ Registry \/ Register \/ EndStart
    <3>1. /\ \A d \in Drivers : Holders(d)' = Holders(d)
          /\ refs' = refs /\ purged' = purged /\ fresh' = fresh
      BY <2>2 DEF EndCreate, Update, Modify, Start, Activate, Registry, Register, EndStart,
                  others, Holders
    <3> QED
      BY <3>1, CountSame
  <2>3. CASE Delete
    <3>1. PICK d \in Drivers \ fresh : d = orig /\ d \in Holders(d)
      BY <2>3 DEF Delete, ControlOK, Holders
    <3>2. Holders(d)' = Holders(d) \ {d}
      BY <2>3, <3>1 DEF Delete, Holders
    <3>3. Apart(d)
      BY <2>3, <3>1 DEF Delete, Holders, Apart, Unref
    <3>4. CountAt(d)'
      BY <2>3, <3>1, <3>2, CountUnref DEF Delete, CountsOK
    <3> QED
      BY <2>3, <3>1, <3>3, <3>4, CountOne DEF Delete
  <2> QED
    BY <1>4, <2>1, <2>2, <2>3 DEF ControlStep
<1>5. CASE Command \/ Reload \/ Due \/ Automatic
  <2>1. /\ \A d \in Drivers : Holders(d)' = Holders(d)
        /\ refs' = refs /\ purged' = purged /\ fresh' = fresh
    BY <1>5 DEF Command, Reload, Due, Automatic, others, Holders
  <2> QED
    BY <2>1, CountSame
<1>6. CASE UNCHANGED vars
  <2>1. /\ \A d \in Drivers : Holders(d)' = Holders(d)
        /\ refs' = refs /\ purged' = purged /\ fresh' = fresh
    BY <1>6 DEF vars, Holders
  <2> QED
    BY <2>1, CountSame
<1> QED
  BY <1>1, <1>2, <1>3, <1>4, <1>5, <1>6 DEF Next

-------------------------------------------------------------------------------
\* For every number of reloads, SIP threads and timeslots: the types, no driver
\* object replaced or deleted under a SIP thread that has got it (Driver::get,
\* release and commit of driver.cpp), and every script image alive exactly as
\* long as a call, a thread or its driver refers to it, although any of them may
\* free the registration keys of the active driver at any time.
THEOREM ConfigSafe == Spec => [](TypeOK /\ ReadersSeeActive /\ ImagesCounted)
<1>1. Init => ConfigInv
  <2> SUFFICES ASSUME Init PROVE ConfigInv
    OBVIOUS
  <2> USE DriversAssumption, KindsAssumption, KeysAssumption
  <2>1. TypeOK
    <3>1. 0 \in 0..Keys
      OBVIOUS
    <3> QED
      BY <3>1 DEF Init, TypeOK, ReaderType, Pointers, Idle
  <2>2. ReadersOK
    BY DEF Init, ReadersOK, ReaderOK, Sharing, Idle
  <2>3. ControlOK
    BY DEF Init, ControlOK
  <2>4. Holders(First) = {First} /\ \A d \in fresh : Holders(d) = {}
    BY DEF Init, Holders, Idle
  <2>5. Cardinality({First}) = 1
    BY FS_Singleton
  <2>6. CountsOK
    BY <2>4, <2>5 DEF Init, CountsOK, CountAt
  <2> QED
    BY <2>1, <2>2, <2>3, <2>6 DEF ConfigInv
<1>2. ConfigInv /\ [Next]_vars => ConfigInv'
  BY ConfigTypes, StepReaders, StepControl, StepCounts DEF ConfigInv
<1>3. ConfigInv => TypeOK /\ ReadersSeeActive /\ ImagesCounted
  BY DEF ConfigInv, ReadersSeeActive, ImagesCounted, ReadersOK, ReaderOK, Sharing, ControlOK,
         CountsOK, CountAt
<1> QED
  BY <1>1, <1>2, <1>3, PTL DEF Spec

\* Driver::get gives a SIP thread the active driver, and commit() neither replaces
\* nor deletes the object before the thread releases it.  The registration keys
\* in it are not covered: Driver::release frees them under shared access.
THEOREM ReadersSafe == Spec => []ReadersSeeActive
BY ConfigSafe, PTL
===============================================================================
