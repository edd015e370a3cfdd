------------------------------- MODULE DbiProofs -------------------------------
(***************************************************************************)
(* Proofs about Dbi, for any number of records and posting threads.        *)
(***************************************************************************)
EXTENDS Dbi, FiniteSetTheorems, WellFoundedInduction, TLAPS

\* S holds a list with head h: links stay in S, and no record of S is linked
\* to twice or is linked to and the head.
ListIn(S, h) ==
    /\ h \in S \cup {NULL}
    /\ \A r \in S : Link[r] \in S \cup {NULL} /\ (h # NULL => Link[r] # h)
    /\ \A q, r \in S : Link[q] = Link[r] /\ Link[q] # NULL => q = r

\* No record is in two of the sets, or is new or held and in one of them.
Disjoint(Q, T, F) ==
    /\ Q \cap T = {} /\ Q \cap F = {} /\ T \cap F = {}
    /\ fresh \cap (Q \cup T \cup F) = {}
    /\ \A p \in Posters : holds[p] \notin Q \cup T \cup F \cup fresh
    /\ \A p, q \in Posters : holds[p] # NULL /\ holds[p] = holds[q] => p = q

\* Q, T and F hold the run list, the list the thread walks and the free list;
\* a STOP record in Q is flagged, and for one in T the call log was opened.
Parts(Q, T, F) ==
    /\ Disjoint(Q, T, F)
    /\ ListIn(Q, runlist) /\ ListIn(T, cp) /\ ListIn(F, freelist)
    /\ runlast = runlist
    /\ runlist = NULL => Q = {}
    /\ pc # "walk" => T = {}
    /\ \A r \in Q : type[r] = "STOP" => cdr
    /\ \A r \in T : type[r] = "STOP" => fp # "closed"

DbiInv == TypeOK /\ \E Q, T, F \in SUBSET Records : Parts(Q, T, F)

-------------------------------------------------------------------------------
LEMMA DbiInit == Init => DbiInv
<1> SUFFICES ASSUME Init PROVE DbiInv
  OBVIOUS
<1>1. TypeOK
  BY DEF Init, TypeOK, Pointers
<1>2. Parts({}, {}, {})
  BY RecordsAssumption DEF Init, Parts, Disjoint, ListIn
<1> QED
  BY <1>1, <1>2 DEF DbiInv

LEMMA DbiTypes == TypeOK /\ [Next]_vars => TypeOK'
<1> SUFFICES ASSUME TypeOK, [Next]_vars PROVE TypeOK'
  OBVIOUS
<1> USE DEF TypeOK, Pointers
<1>1. ASSUME NEW p \in Posters, Get(p) PROVE TypeOK'
  BY <1>1 DEF Get
<1>2. ASSUME NEW p \in Posters, NEW kind \in {"START", "STOP"}, Post(p, kind) PROVE TypeOK'
  BY <1>2 DEF Post, Signal
<1>3. ASSUME Take PROVE TypeOK'
  BY <1>3 DEF Take, OpenLog
<1>4. CASE Start \/ Wake \/ EndWalk
  BY <1>4, <1>3 DEF Start, Wake, EndWalk
<1>5. CASE Top
  BY <1>5, <1>3 DEF Top
<1>6. CASE Walk
  BY <1>6 DEF Walk
<1>7. CASE Stop
  BY <1>7 DEF Stop, Signal
<1>8. CASE UNCHANGED vars
  BY <1>8 DEF vars
<1> QED
  BY <1>1, <1>2, <1>4, <1>5, <1>6, <1>7, <1>8 DEF Next, Run

\* Without its first record, a list is a list.
LEMMA ListTail ==
    ASSUME NEW S, NEW h, ListIn(S, h), h # NULL, NULL \notin S
    PROVE  ListIn(S \ {h}, Link[h])
BY DEF ListIn

LEMMA StepParts ==
    ASSUME DbiInv, [Next]_vars
    PROVE  \E Q, T, F \in SUBSET Records : Parts(Q, T, F)'
<1> USE RecordsAssumption
<1>0. PICK Q \in SUBSET Records, T \in SUBSET Records, F \in SUBSET Records : Parts(Q, T, F)
  BY DEF DbiInv
<1>t. TypeOK /\ NULL \notin Q /\ NULL \notin T /\ NULL \notin F
  BY DEF DbiInv
<1>1. ASSUME NEW p \in Posters, Get(p)
      PROVE  \E G \in SUBSET Records : Parts(Q, T, G)'
  <2>0. /\ Link' = Link /\ type' = type /\ runlist' = runlist /\ runlast' = runlast
        /\ cdr' = cdr /\ pc' = pc /\ cp' = cp /\ fp' = fp /\ holds[p] = NULL
    BY <1>1 DEF Get
  <2>1. CASE freelist # NULL
    <3>0. PICK h \in F : h = freelist
      BY <1>0, <2>1 DEF Parts, ListIn
    <3>1. /\ holds' = [holds EXCEPT ![p] = h] /\ freelist' = Link[h]
          /\ fresh' = fresh
      BY <1>1, <2>1, <3>0 DEF Get
    <3>2. ListIn(F \ {h}, Link[h])
      BY <1>0, <1>t, <2>1, <3>0, ListTail DEF Parts
    <3>3. Disjoint(Q, T, F \ {h})'
      BY <1>0, <1>t, <3>0, <3>1 DEF Parts, Disjoint, TypeOK
    <3>4. ListIn(Q, runlist)' /\ ListIn(T, cp)' /\ ListIn(F \ {h}, freelist)'
      BY <1>0, <2>0, <3>1, <3>2 DEF Parts, ListIn
    <3>5. Parts(Q, T, F \ {h})'
      BY <1>0, <2>0, <3>3, <3>4 DEF Parts
    <3> QED
      BY <3>5
  <2>2. CASE freelist = NULL
    <3>1. PICK r \in fresh : /\ holds' = [holds EXCEPT ![p] = r] /\ fresh' = fresh \ {r}
                             /\ freelist' = freelist
      BY <1>1, <2>2 DEF Get
    <3>2. Disjoint(Q, T, F)'
      BY <1>0, <1>t, <3>1 DEF Parts, Disjoint, TypeOK
    <3>3. ListIn(Q, runlist)' /\ ListIn(T, cp)' /\ ListIn(F, freelist)'
      BY <1>0, <2>0, <3>1 DEF Parts, ListIn
    <3>4. Parts(Q, T, F)'
      BY <1>0, <2>0, <3>2, <3>3 DEF Parts
    <3> QED
      BY <3>4
  <2> QED
    BY <2>1, <2>2
<1>2. ASSUME NEW p \in Posters, NEW kind \in {"START", "STOP"}, Post(p, kind)
      PROVE  \E P \in SUBSET Records : Parts(P, T, F)'
  <2>r. PICK r \in Records : r = holds[p]
    BY <1>2, <1>t DEF Post, TypeOK, Pointers
  <2> DEFINE P == Q \cup {r}
  <2>0. /\ r \in Records /\ r \notin Q \cup T \cup F \cup fresh
        /\ fresh' = fresh /\ freelist' = freelist /\ pc' = pc /\ cp' = cp /\ fp' = fp
        /\ holds' = [holds EXCEPT ![p] = NULL]
        /\ type' = [type EXCEPT ![r] = kind] /\ cdr' = (cdr \/ kind = "STOP")
    BY <1>0, <1>2, <2>r DEF Post, Parts, Disjoint
  <2>1. Disjoint(P, T, F)'
    <3>1. holds'[p] = NULL /\ \A q \in Posters : q # p => holds'[q] = holds[q] /\ holds[q] # r
      BY <1>0, <1>t, <2>0, <2>r DEF Parts, Disjoint, TypeOK
    <3>2. \A q \in Posters : holds'[q] \notin P \cup T \cup F \cup fresh
      BY <1>0, <1>t, <2>0, <3>1 DEF Parts, Disjoint, TypeOK
    <3>3. \A q, u \in Posters : holds'[q] # NULL /\ holds'[q] = holds'[u] => q = u
      BY <1>0, <3>1 DEF Parts, Disjoint
    <3> QED
      BY <1>0, <2>0, <3>2, <3>3 DEF Parts, Disjoint
  <2>2. ListIn(P, runlist)' /\ runlast' = runlist' /\ runlist' # NULL
        /\ \A x \in T \cup F : Link'[x] = Link[x]
    <3>1. CASE runlast # NULL
      <4>1. /\ Link' = [Link EXCEPT ![r] = NULL, ![runlast] = r]
            /\ runlist' = runlist /\ runlast' = runlast
        BY <1>2, <2>r, <3>1 DEF Post
      <4>2. runlast \in Q /\ runlast = runlist /\ runlast # r
        BY <1>0, <2>0, <3>1 DEF Parts, ListIn
      <4>3. /\ Link'[r] = NULL /\ Link'[runlast] = r
            /\ \A x \in Records : x # r /\ x # runlast => Link'[x] = Link[x]
        BY <4>1, <4>2, <2>0, <1>t DEF TypeOK
      <4>4. \A x \in Q : Link[x] # r
        BY <1>0, <2>0 DEF Parts, ListIn
      <4>5. ListIn(P, runlist)'
        <5>1. \A x \in Q : x # runlist => Link'[x] = Link[x] /\ Link[x] \in Q \cup {NULL}
                                          /\ Link[x] # runlist
          BY <1>0, <2>0, <4>2, <4>3 DEF Parts, ListIn
        <5>2. \A x \in P : Link'[x] \in P \cup {NULL} /\ Link'[x] # runlist
          BY <5>1, <2>0, <4>2, <4>3
        <5>3. ASSUME NEW x \in P, NEW y \in P, Link'[x] = Link'[y], Link'[x] # NULL
              PROVE  x = y
          <6>1. x # r /\ y # r
            BY <5>3, <4>3
          <6>2. CASE x = runlist \/ y = runlist
            BY <5>3, <6>1, <6>2, <5>1, <4>2, <4>3, <4>4
          <6>3. CASE x # runlist /\ y # runlist
            BY <5>3, <6>1, <6>3, <5>1, <1>0 DEF Parts, ListIn
          <6> QED
            BY <6>2, <6>3
        <5> QED
          BY <5>2, <5>3, <4>1, <4>2 DEF ListIn
      <4>6. \A x \in T \cup F : Link'[x] = Link[x]
        BY <1>0, <2>0, <4>2, <4>3 DEF Parts, Disjoint
      <4> QED
        BY <4>1, <4>2, <4>5, <4>6
    <3>2. CASE runlast = NULL
      <4>1. Link' = [Link EXCEPT ![r] = NULL] /\ runlist' = r /\ runlast' = r
        BY <1>2, <2>r, <3>2 DEF Post
      <4>2. P = {r} /\ Link'[r] = NULL
        BY <4>1, <1>0, <3>2, <2>0, <1>t DEF Parts, TypeOK
      <4>3. ListIn(P, runlist)'
        BY <4>1, <4>2 DEF ListIn
      <4>4. \A x \in T \cup F : Link'[x] = Link[x]
        BY <4>1, <2>0, <1>t DEF TypeOK
      <4> QED
        BY <4>1, <4>3, <4>4, <2>0
    <3> QED
      BY <3>1, <3>2
  <2>3. ListIn(T, cp)' /\ ListIn(F, freelist)'
    BY <1>0, <2>0, <2>2 DEF Parts, ListIn
  <2>4. ASSUME NEW x \in P, type'[x] = "STOP" PROVE cdr'
    <3>1. CASE x = r
      <4>1. kind = "STOP"
        BY <2>4, <3>1, <1>t, <2>0 DEF TypeOK
      <4> QED
        BY <4>1, <2>0
    <3>2. CASE x # r
      <4>1. x \in Q /\ type[x] = "STOP"
        BY <2>4, <3>2, <1>t, <2>0 DEF TypeOK
      <4>2. cdr
        BY <4>1, <1>0 DEF Parts
      <4> QED
        BY <4>2, <2>0
    <3> QED
      BY <3>1, <3>2
  <2>5. \A x \in T : type'[x] = "STOP" => fp' # "closed"
    BY <1>0, <1>t, <2>0 DEF Parts, TypeOK
  <2>6. pc' # "walk" => T = {}
    BY <1>0, <2>0 DEF Parts
  <2>7. Parts(P, T, F)'
    BY <2>1, <2>2, <2>3, <2>4, <2>5, <2>6 DEF Parts
  <2> QED
    BY <2>7, <2>0
<1>3. ASSUME Take, pc # "walk" PROVE Parts({}, Q, F)'
  <2>0. /\ Link' = Link /\ type' = type /\ fresh' = fresh /\ freelist' = freelist
        /\ holds' = holds /\ cp' = runlist /\ runlist' = NULL /\ runlast' = NULL
        /\ pc' = "walk" /\ T = {}
    BY <1>0, <1>3 DEF Take, Parts
  <2>1. Disjoint({}, Q, F)'
    BY <1>0, <2>0 DEF Parts, Disjoint
  <2>2. ListIn({}, runlist)' /\ ListIn(Q, cp)' /\ ListIn(F, freelist)'
    BY <1>0, <2>0 DEF Parts, ListIn
  <2>3. \A r \in Q : type'[r] = "STOP" => fp' # "closed"
    <3> SUFFICES ASSUME NEW r \in Q, type[r] = "STOP" PROVE fp' # "closed"
      BY <2>0
    <3>1. cdr /\ runlist # NULL
      BY <1>0 DEF Parts
    <3> QED
      BY <3>1, <1>3 DEF Take, OpenLog
  <2> QED
    BY <2>0, <2>1, <2>2, <2>3 DEF Parts
<1>4. CASE Walk
  <2>x. PICK x \in T : x = cp
    BY <1>0, <1>4 DEF Walk, Parts, ListIn
  <2>0. /\ pc = "walk" /\ pc' = pc /\ cp' = Link[x] /\ freelist' = x
        /\ Link' = [Link EXCEPT ![x] = freelist] /\ fp' = fp /\ type' = type /\ cdr' = cdr
        /\ fresh' = fresh /\ holds' = holds /\ runlist' = runlist /\ runlast' = runlast
    BY <1>4, <2>x DEF Walk
  <2>1. /\ x \in Records /\ Link'[x] = freelist
        /\ \A y \in Records : y # x => Link'[y] = Link[y]
    BY <2>0, <1>t DEF TypeOK
  <2>2. Disjoint(Q, T \ {x}, F \cup {x})'
    BY <1>0, <2>0, <2>x DEF Parts, Disjoint
  <2>3. ListIn(Q, runlist)'
    BY <1>0, <2>0, <2>1, <2>x DEF Parts, Disjoint, ListIn
  <2>4. ListIn(T \ {x}, cp)'
    <3>1. ListIn(T \ {x}, Link[x])
      BY <1>0, <1>t, <2>x, ListTail DEF Parts
    <3> QED
      BY <3>1, <2>0, <2>1 DEF ListIn
  <2>5. ListIn(F \cup {x}, freelist)'
    <3>1. x \notin F /\ x # NULL /\ \A y \in F : Link'[y] = Link[y]
      BY <1>0, <1>t, <2>x, <2>1 DEF Parts, Disjoint
    <3> QED
      BY <1>0, <2>0, <2>1, <3>1 DEF Parts, ListIn
  <2>6. Parts(Q, T \ {x}, F \cup {x})'
    BY <1>0, <2>0, <2>2, <2>3, <2>4, <2>5 DEF Parts
  <2> QED
    BY <2>6, <2>1
<1>5. CASE EndWalk
  <2>0. /\ Link' = Link /\ type' = type /\ fresh' = fresh /\ freelist' = freelist /\ cdr' = cdr
        /\ holds' = holds /\ cp' = cp /\ cp = NULL /\ runlist' = runlist /\ runlast' = runlast
    BY <1>5 DEF EndWalk
  <2>1. Parts(Q, {}, F)'
    BY <1>0, <2>0 DEF Parts, Disjoint, ListIn
  <2> QED
    BY <2>1
<1>6. ASSUME /\ Link' = Link /\ type' = type /\ fresh' = fresh /\ freelist' = freelist
             /\ holds' = holds /\ cp' = cp /\ runlist' = runlist /\ runlast' = runlast
             /\ cdr' = cdr /\ fp' = fp /\ (pc' = "walk" <=> pc = "walk")
      PROVE  Parts(Q, T, F)'
  BY <1>0, <1>6 DEF Parts, Disjoint, ListIn
<1>7. CASE Start \/ Stop \/ UNCHANGED vars
  <2>1. Parts(Q, T, F)'
    BY <1>7, <1>6 DEF Start, Stop, vars
  <2> QED
    BY <2>1
<1>8. CASE Top
  <2>1. CASE Take
    <3>1. Parts({}, Q, F)'
      BY <1>8, <2>1, <1>3 DEF Top
    <3> QED
      BY <3>1
  <2>2. CASE ~Take
    <3>1. Parts(Q, T, F)'
      BY <1>8, <2>2, <1>6 DEF Top
    <3> QED
      BY <3>1
  <2> QED
    BY <2>1, <2>2
<1>9. CASE Wake
  <2>1. Parts({}, Q, F)'
    BY <1>9, <1>3 DEF Wake
  <2> QED
    BY <2>1
<1> QED
  BY <1>1, <1>2, <1>4, <1>5, <1>7, <1>8, <1>9 DEF Next, Run

\* For any number of records and threads, every step of the queue keeps its
\* pointers to records, and a call detail record is never written to a closed
\* call log.
THEOREM LogSafe == Spec => [](TypeOK /\ LogOpenForStops)
<1>1. DbiInv /\ [Next]_vars => DbiInv'
  BY DbiTypes, StepParts DEF DbiInv
<1>2. DbiInv => TypeOK /\ LogOpenForStops
  <2> SUFFICES ASSUME DbiInv, pc = "walk", cp # NULL, type[cp] = "STOP" PROVE fp # "closed"
    BY DEF DbiInv, LogOpenForStops
  <2>1. PICK Q \in SUBSET Records, T \in SUBSET Records, F \in SUBSET Records : Parts(Q, T, F)
    BY DEF DbiInv
  <2> QED
    BY <2>1 DEF Parts, ListIn
<1> QED
  BY <1>1, <1>2, DbiInit, PTL DEF Spec

-------------------------------------------------------------------------------
(***************************************************************************)
(* What following the links computes.  The induction is on the steps from  *)
(* the head of a list, as an argument about the least step that fails.     *)
(***************************************************************************)

\* A set of numbers that is not empty has a least one.
LEMMA Least ==
    ASSUME NEW S \in SUBSET Nat, S # {}
    PROVE  \E n \in S : \A m \in S : n <= m
<1> DEFINE Less == {ss \in Nat \X Nat : ss[1] < ss[2]}
<1>1. IsWellFoundedOn(Less, Nat)
  BY NatLessThanWellFounded DEF OpToRel
<1> HIDE DEF Less
<1>2. PICK n \in S : \A m \in S : ~(<<m, n>> \in Less)
  BY <1>1, WFMin
<1>3. ASSUME NEW m \in S PROVE n <= m
  <2>1. ~(m < n)
    BY <1>2 DEF Less
  <2> QED
    BY <2>1
<1> QED
  BY <1>3

\* What holds of 0, and of n + 1 when it holds of n, holds up to N.
LEMMA Steps ==
    ASSUME NEW N \in Nat, NEW S, 0 \in S, \A n \in 0 .. N - 1 : n \in S => n + 1 \in S
    PROVE  0 .. N \subseteq S
<1> DEFINE Out == (0 .. N) \ S
<1> SUFFICES ASSUME Out # {} PROVE FALSE
  OBVIOUS
<1>1. Out \in SUBSET Nat
  OBVIOUS
<1> HIDE DEF Out
<1>2. PICK n \in Out : \A m \in Out : n <= m
  BY <1>1, Least
<1> USE DEF Out
<1>3. n \in 1 .. N /\ n - 1 \in 0 .. N - 1
  BY <1>2
<1>4. n - 1 \in S
  BY <1>2, <1>3
<1> QED
  BY <1>2, <1>3, <1>4

\* f follows the links from h for n steps.
Follows(f, h, n) ==
    f = [i \in 0 .. n |-> IF i = 0 THEN h
                          ELSE IF f[i - 1] = NULL THEN NULL ELSE Link[f[i - 1]]]

LEMMA FollowsExists ==
    ASSUME NEW h, NEW N \in Nat
    PROVE  \E f : Follows(f, h, N)
<1> DEFINE S == {n \in 0 .. N : \E f : Follows(f, h, n)}
<1>1. 0 \in S
  <2>1. Follows([i \in 0 .. 0 |-> h], h, 0)
    BY DEF Follows
  <2> QED
    BY <2>1
<1>2. ASSUME NEW n \in 0 .. N - 1, n \in S PROVE n + 1 \in S
  <2>1. PICK f : Follows(f, h, n)
    BY <1>2
  <2> DEFINE v == IF f[n] = NULL THEN NULL ELSE Link[f[n]]
             g == [i \in 0 .. n + 1 |-> IF i = n + 1 THEN v ELSE f[i]]
  <2>2. \A i \in 0 .. n : g[i] = f[i]
    OBVIOUS
  <2>3. ASSUME NEW i \in 0 .. n + 1
        PROVE  g[i] = IF i = 0 THEN h ELSE IF g[i - 1] = NULL THEN NULL ELSE Link[g[i - 1]]
    <3>1. CASE i = n + 1
      <4>1. i # 0 /\ i - 1 = n /\ g[i - 1] = f[n] /\ g[i] = v
        BY <3>1, <2>2
      <4> QED
        BY <4>1
    <3>2. CASE i # n + 1
      <4>1. i \in 0 .. n
        BY <3>2
      <4>2. g[i] = f[i] /\ (i # 0 => i - 1 \in 0 .. n /\ g[i - 1] = f[i - 1])
        BY <4>1, <2>2
      <4>3. f[i] = IF i = 0 THEN h ELSE IF f[i - 1] = NULL THEN NULL ELSE Link[f[i - 1]]
        BY <4>1, <2>1 DEF Follows
      <4> HIDE DEF g, v
      <4> QED
        BY <4>2, <4>3
    <3> QED
      BY <3>1, <3>2
  <2>4. Follows(g, h, n + 1)
    <3>1. g = [i \in 0 .. n + 1 |-> g[i]]
      OBVIOUS
    <3> HIDE DEF g
    <3> QED
      BY <2>3, <3>1 DEF Follows
  <2> QED
    BY <2>4, <1>2
<1> HIDE DEF S
<1>3. N \in S
  BY <1>1, <1>2, Steps
<1> QED
  BY <1>3 DEF S

\* Nth follows the links from the head, for as many steps as there are records.
LEMMA NthFollows ==
    ASSUME NEW h
    PROVE  Follows(Nth(h), h, Cardinality(Records))
<1>1. Cardinality(Records) \in Nat
  BY RecordsAssumption, FS_CardinalityType
<1>2. \E f : Follows(f, h, Cardinality(Records))
  BY <1>1, FollowsExists
<1>3. Nth(h) = CHOOSE f : Follows(f, h, Cardinality(Records))
  BY DEF Nth, Follows
<1> QED
  BY <1>2, <1>3

\* A list that a set holds, in the sense of ListIn, ends, and stays in the set.
LEMMA ListStays ==
    ASSUME NEW S \in SUBSET Records, NEW h, ListIn(S, h)
    PROVE  List(h) \subseteq S /\ Ends(h)
<1> DEFINE N == Cardinality(Records)
           f == Nth(h)
<1>n. N \in Nat /\ NULL \notin S
  BY RecordsAssumption, FS_CardinalityType
<1>f. /\ DOMAIN f = 0 .. N
      /\ f[0] = h
      /\ \A i \in 1 .. N : f[i] = IF f[i - 1] = NULL THEN NULL ELSE Link[f[i - 1]]
  <2>1. Follows(f, h, N)
    BY NthFollows
  <2> HIDE DEF f, N
  <2> QED
    BY <2>1, <1>n DEF Follows
<1> HIDE DEF f, N
<1>1. \A i \in 0 .. N : f[i] \in S \cup {NULL}
  <2> DEFINE In == {i \in 0 .. N : f[i] \in S \cup {NULL}}
  <2>1. 0 \in In
    BY <1>n, <1>f DEF ListIn
  <2>2. ASSUME NEW i \in 0 .. N - 1, i \in In PROVE i + 1 \in In
    <3>1. i + 1 \in 1 .. N /\ (i + 1) - 1 = i
      BY <1>n
    <3>2. f[i + 1] = IF f[i] = NULL THEN NULL ELSE Link[f[i]]
      BY <3>1, <1>f
    <3> QED
      BY <2>2, <3>1, <3>2, <1>n DEF ListIn
  <2> HIDE DEF In
  <2>3. 0 .. N \subseteq In
    BY <1>n, <2>1, <2>2, Steps
  <2> QED
    BY <2>3 DEF In
<1>2. List(h) \subseteq S
  BY <1>1, <1>f DEF List, f
<1>3. ASSUME f[N] # NULL PROVE FALSE
  <2>1. \A i \in 0 .. N : f[i] \in S
    <3> DEFINE Back == {i \in 0 .. N : f[N - i] # NULL}
    <3>1. 0 \in Back
      BY <1>3, <1>n
    <3>2. ASSUME NEW i \in 0 .. N - 1, i \in Back PROVE i + 1 \in Back
      <4>1. N - i \in 1 .. N /\ (N - i) - 1 = N - (i + 1) /\ i + 1 \in 0 .. N
        BY <1>n
      <4> QED
        BY <3>2, <4>1, <1>f
    <3> HIDE DEF Back
    <3>3. 0 .. N \subseteq Back
      BY <1>n, <3>1, <3>2, Steps
    <3>4. \A i \in 0 .. N : N - i \in 0 .. N /\ N - (N - i) = i
      BY <1>n
    <3>5. \A i \in 0 .. N : f[i] # NULL
      BY <3>3, <3>4 DEF Back
    <3> QED
      BY <3>5, <1>1
  <2> DEFINE Twice == {i \in 0 .. N : \E j \in 0 .. N : i < j /\ f[i] = f[j]}
  <2>2. Twice # {}
    <3> DEFINE g == [i \in 0 .. N |-> f[i]]
    <3>1. g \in [0 .. N -> Records]
      BY <2>1
    <3>2. IsFiniteSet(0 .. N) /\ Cardinality(0 .. N) = N + 1
      BY <1>n, FS_Interval
    <3>3. IsFiniteSet(Records) /\ Cardinality(Records) < Cardinality(0 .. N)
      BY <1>n, <3>2, RecordsAssumption DEF N
    <3> HIDE DEF g
    <3>4. \E i, j \in 0 .. N : i # j /\ g[i] = g[j]
      BY <3>1, <3>2, <3>3, FS_PigeonHole
    <3>5. PICK i \in 0 .. N, j \in 0 .. N : i # j /\ f[i] = f[j]
      BY <3>4 DEF g
    <3>6. i < j \/ j < i
      BY <3>5, <1>n
    <3> QED
      BY <3>5, <3>6
  <2>3. Twice \in SUBSET Nat
    BY <1>n
  <2> HIDE DEF Twice
  <2>4. PICK i \in Twice : \A m \in Twice : i <= m
    BY <2>2, <2>3, Least
  <2>5. PICK j \in 0 .. N : i \in 0 .. N /\ i < j /\ f[i] = f[j]
    BY <2>4 DEF Twice
  <2>6. /\ j \in 1 .. N /\ j - 1 \in 0 .. N
        /\ f[j] = Link[f[j - 1]] /\ f[j - 1] \in S /\ f[j] # NULL
    <3>1. j \in 1 .. N /\ j - 1 \in 0 .. N
      BY <1>n, <2>5
    <3> QED
      BY <3>1, <2>1, <1>n, <1>f
  <2>7. CASE i = 0
    BY <2>5, <2>6, <2>7, <1>f DEF ListIn
  <2>8. CASE i # 0
    <3>1. i \in 1 .. N /\ i - 1 \in 0 .. N /\ i - 1 < j - 1
      BY <2>5, <2>8, <1>n
    <3>2. f[i] = Link[f[i - 1]] /\ f[i - 1] \in S
      BY <3>1, <2>1, <1>n, <1>f
    <3>3. f[i - 1] = f[j - 1]
      BY <3>2, <2>5, <2>6 DEF ListIn
    <3>4. i - 1 \in Twice
      BY <3>1, <3>3, <2>6 DEF Twice
    <3> QED
      BY <3>1, <3>4, <2>4
  <2> QED
    BY <2>7, <2>8
<1> QED
  BY <1>2, <1>3 DEF Ends, f, N

\* For any number of records and threads, a record is never in two places:
\* get(), post() and the thread that walks the list may interleave as they
\* like, the free list, the run list and the list in hand share no record and
\* run in no circle, although post() overwrites the link of runlast.
THEOREM RecordsSafe == Spec => []RecordInOnePlace
<1>1. DbiInv /\ [Next]_vars => DbiInv'
  BY DbiTypes, StepParts DEF DbiInv
<1>2. DbiInv => RecordInOnePlace
  <2> SUFFICES ASSUME DbiInv PROVE RecordInOnePlace
    OBVIOUS
  <2>1. PICK Q \in SUBSET Records, T \in SUBSET Records, F \in SUBSET Records : Parts(Q, T, F)
    BY DEF DbiInv
  <2>2. /\ List(runlist) \subseteq Q /\ Ends(runlist)
        /\ List(cp) \subseteq T /\ Ends(cp)
        /\ List(freelist) \subseteq F /\ Ends(freelist)
    BY <2>1, ListStays DEF Parts
  <2> QED
    BY <2>1, <2>2 DEF Parts, Disjoint, RecordInOnePlace
<1> QED
  BY <1>1, <1>2, DbiInit, PTL DEF Spec
===============================================================================
