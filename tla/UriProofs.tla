------------------------------- MODULE UriProofs -------------------------------
(***************************************************************************)
(* Proofs about Uri: what portid, hostid and userid read of the text of a  *)
(* URI is what was written, before and after srv::route writes it anew,    *)
(* for every choice of schemata, users, hosts, ports and replies.          *)
(***************************************************************************)
EXTENDS Uri, SequenceTheorems, TLAPS

-------------------------------------------------------------------------------
(* Text that is put together from parts *)

\* The members of a text that is put together from two.
LEMMA Joined ==
    ASSUME NEW W, NEW a \in Seq(W), NEW b \in Seq(W)
    PROVE  /\ a \o b \in Seq(W)
           /\ Len(a) \in Nat /\ Len(b) \in Nat /\ Len(a \o b) = Len(a) + Len(b)
           /\ \A i \in 1 .. Len(a) : (a \o b)[i] = a[i]
           /\ \A i \in 1 .. Len(b) : (a \o b)[Len(a) + i] = b[i]
OBVIOUS

\* A word is in a text if it is in one of its two parts.
LEMMA Members ==
    ASSUME NEW W, NEW a \in Seq(W), NEW b \in Seq(W), NEW c
    PROVE  Has(a \o b, c) <=> Has(a, c) \/ Has(b, c)
<1>1. \A i \in 1 .. Len(a) + Len(b) :
         i \in 1 .. Len(a) \/ \E j \in 1 .. Len(b) : i = Len(a) + j
  <2> SUFFICES ASSUME NEW i \in 1 .. Len(a) + Len(b), i \notin 1 .. Len(a)
               PROVE  \E j \in 1 .. Len(b) : i = Len(a) + j
    OBVIOUS
  <2>1. i - Len(a) \in 1 .. Len(b) /\ i = Len(a) + (i - Len(a))
    BY Joined
  <2> QED
    BY <2>1
<1>2. Len(a) \in Nat /\ Len(b) \in Nat
  BY Joined
<1>3. \A i \in 1 .. Len(a) : i \in 1 .. Len(a) + Len(b)
  BY <1>2
<1>4. \A i \in 1 .. Len(b) : Len(a) + i \in 1 .. Len(a) + Len(b)
  BY <1>2
<1>5. ASSUME Has(a \o b, c) PROVE Has(a, c) \/ Has(b, c)
  <2>1. PICK i \in 1 .. Len(a) + Len(b) : (a \o b)[i] = c
    BY <1>5, Joined DEF Has, Contains
  <2> QED
    BY <2>1, <1>1, Joined DEF Has, Contains
<1>6. ASSUME Has(a, c) \/ Has(b, c) PROVE Has(a \o b, c)
  <2>1. Len(a \o b) = Len(a) + Len(b)
    BY Joined
  <2>2. ASSUME NEW i \in 1 .. Len(a), a[i] = c PROVE Has(a \o b, c)
    <3>1. (a \o b)[i] = c
      BY <2>2, Joined
    <3> QED
      BY <3>1, <2>1, <1>3 DEF Has, Contains
  <2>3. ASSUME NEW i \in 1 .. Len(b), b[i] = c PROVE Has(a \o b, c)
    <3>1. (a \o b)[Len(a) + i] = c
      BY <2>3, Joined
    <3> QED
      BY <3>1, <2>1, <1>4 DEF Has, Contains
  <2> QED
    BY <1>6, <2>2, <2>3 DEF Has, Contains
<1> QED
  BY <1>5, <1>6

\* A text of one word, of two, and of none.
LEMMA Few ==
    ASSUME NEW W, NEW v \in W, NEW w \in W
    PROVE  /\ <<>> \in Seq(W) /\ Len(<<>>) = 0
           /\ <<v>> \in Seq(W) /\ Len(<<v>>) = 1 /\ <<v>>[1] = v
           /\ <<v, w>> \in Seq(W) /\ Len(<<v, w>>) = 2 /\ <<v, w>>[1] = v /\ <<v, w>>[2] = w
           /\ <<v, w>> = <<v>> \o <<w>>
<1>1. /\ <<>> \in Seq(W) /\ Len(<<>>) = 0
      /\ <<v>> \in Seq(W) /\ Len(<<v>>) = 1 /\ <<v>>[1] = v
      /\ <<w>> \in Seq(W) /\ Len(<<w>>) = 1 /\ <<w>>[1] = w
  OBVIOUS
<1>2. <<v, w>> \in Seq(W) /\ Len(<<v, w>>) = 2 /\ <<v, w>>[1] = v /\ <<v, w>>[2] = w
  OBVIOUS
<1>3. <<v, w>> = <<v>> \o <<w>>
  <2> DEFINE one == <<v>>
             two == <<w>>
  <2> HIDE DEF one, two
  <2>1. /\ one \in Seq(W) /\ Len(one) = 1 /\ one[1] = v
        /\ two \in Seq(W) /\ Len(two) = 1 /\ two[1] = w
    BY <1>1 DEF one, two
  <2>2. /\ one \o two \in Seq(W) /\ Len(one \o two) = Len(one) + Len(two)
        /\ \A i \in 1 .. Len(one) : (one \o two)[i] = one[i]
        /\ \A i \in 1 .. Len(two) : (one \o two)[Len(one) + i] = two[i]
    BY <2>1, Joined
  <2>3. Len(one \o two) = 2 /\ (one \o two)[1] = v /\ (one \o two)[2] = w
    BY <2>1, <2>2
  <2>4. <<v, w>> = one \o two
    BY <1>2, <2>2, <2>3, SeqEqual
  <2> QED
    BY <2>4 DEF one, two
<1> QED
  BY <1>1, <1>2, <1>3

\* The words of a short text.
LEMMA FewMembers ==
    ASSUME NEW v, NEW w, NEW c
    PROVE  /\ ~Has(<<>>, c)
           /\ Has(<<v>>, c) <=> v = c
           /\ Has(<<v, w>>, c) <=> v = c \/ w = c
BY DEF Has, Contains

\* Where the first c is.
LEMMA FirstAt ==
    ASSUME NEW W, NEW s \in Seq(W), NEW c, NEW n \in 1 .. Len(s), s[n] = c,
           \A i \in 1 .. n - 1 : s[i] # c
    PROVE  /\ Has(s, c)
           /\ After(s, c) = SubSeq(s, n + 1, Len(s))
           /\ Before(s, c) = SubSeq(s, 1, n - 1)
<1> DEFINE I == {i \in 1 .. Len(s) : s[i] = c}
<1>1. Has(s, c)
  BY DEF Has, Contains
<1>2. n \in I /\ \A m \in I : n <= m
  OBVIOUS
<1>3. \A x \in I : (\A y \in I : x <= y) => x = n
  BY <1>2
<1>4. Min(I) = n
  <2> HIDE DEF I
  <2> QED
    BY <1>2, <1>3 DEF Min
<1>5. SelectInSeq(s, LAMBDA x : x = c) = n
  BY <1>2, <1>4 DEF SelectInSeq
<1> QED
  BY <1>1, <1>5 DEF After, Before

\* The two parts of a text.
LEMMA Parts ==
    ASSUME NEW W, NEW a \in Seq(W), NEW b \in Seq(W)
    PROVE  /\ SubSeq(a \o b, 1, Len(a)) = a
           /\ SubSeq(a \o b, Len(a) + 1, Len(a \o b)) = b
<1> DEFINE s == a \o b
<1>1. /\ s \in Seq(W) /\ Len(s) = Len(a) + Len(b) /\ Len(a) \in Nat /\ Len(b) \in Nat
      /\ \A i \in 1 .. Len(a) : s[i] = a[i]
      /\ \A i \in 1 .. Len(b) : s[Len(a) + i] = b[i]
  BY Joined
<1> HIDE DEF s
<1>2. \A i \in 1 .. Len(s) : s[i] \in W
  BY <1>1, ElementOfSeq
<1>3. SubSeq(s, 1, Len(a)) = a
  <2>1. \A i \in 1 .. Len(a) : s[i] \in W
    BY <1>1, <1>2
  <2>2. /\ SubSeq(s, 1, Len(a)) \in Seq(W) /\ Len(SubSeq(s, 1, Len(a))) = Len(a)
        /\ \A i \in 1 .. Len(a) : SubSeq(s, 1, Len(a))[i] = s[i]
    BY <1>1, <2>1, SubSeqProperties
  <2> QED
    BY <2>2, <1>1, SeqEqual
<1>4. SubSeq(s, Len(a) + 1, Len(s)) = b
  <2>1. \A i \in Len(a) + 1 .. Len(s) : s[i] \in W
    BY <1>1, <1>2
  <2>2. /\ SubSeq(s, Len(a) + 1, Len(s)) \in Seq(W)
        /\ Len(SubSeq(s, Len(a) + 1, Len(s))) = Len(b)
        /\ \A i \in 1 .. Len(b) : SubSeq(s, Len(a) + 1, Len(s))[i] = s[Len(a) + i]
    BY <1>1, <2>1, SubSeqProperties
  <2> QED
    BY <2>2, <1>1, SeqEqual
<1> QED
  BY <1>3, <1>4 DEF s

\* The first c, at the end of the first part, cuts a text in two.
LEMMA Cutting ==
    ASSUME NEW W, NEW a \in Seq(W), NEW b \in Seq(W), NEW c \in W, ~Has(a, c)
    PROVE  /\ Has((a \o <<c>>) \o b, c)
           /\ After((a \o <<c>>) \o b, c) = b
           /\ Before((a \o <<c>>) \o b, c) = a
<1> DEFINE one == <<c>>
           t == a \o one
           s == t \o b
           n == Len(a) + 1
<1>0. one \in Seq(W) /\ Len(one) = 1 /\ one[1] = c
  BY Few
<1> HIDE DEF one
<1>1. /\ t \in Seq(W) /\ Len(t) = n /\ Len(a) \in Nat /\ t[n] = c
      /\ \A i \in 1 .. Len(a) : t[i] = a[i]
  <2>1. /\ t \in Seq(W) /\ Len(a) \in Nat /\ Len(t) = Len(a) + Len(one)
        /\ \A i \in 1 .. Len(a) : t[i] = a[i]
        /\ \A i \in 1 .. Len(one) : t[Len(a) + i] = one[i]
    <3>1. one \in Seq(W)
      BY <1>0
    <3> QED
      BY <3>1, Joined
  <2> QED
    BY <1>0, <2>1
<1>1a. SubSeq(t, 1, Len(a)) = a
  BY <1>0, Parts
<1> HIDE DEF t
<1>2. /\ s \in Seq(W) /\ Len(s) = n + Len(b) /\ Len(b) \in Nat
      /\ \A i \in 1 .. n : s[i] = t[i]
  <2>1. /\ s \in Seq(W) /\ Len(b) \in Nat /\ Len(s) = Len(t) + Len(b)
        /\ \A i \in 1 .. Len(t) : s[i] = t[i]
    BY <1>1, Joined
  <2> QED
    BY <1>1, <2>1
<1>2a. SubSeq(s, n + 1, Len(s)) = b
  BY <1>1, Parts
<1>3. SubSeq(s, 1, n - 1) = a
  <2>1. CASE Len(a) = 0
    <3>1. a = <<>>
      BY <2>1, EmptySeq
    <3>2. SubSeq(s, 1, n - 1) = <<>>
      BY <2>1, SubSeqEmpty
    <3> QED
      BY <3>1, <3>2
  <2>2. CASE Len(a) # 0
    <3>1. 1 \in 1 .. Len(t) /\ Len(a) \in 1 .. Len(t) /\ n - 1 = Len(a)
      BY <2>2, <1>1
    <3> QED
      BY <3>1, <1>1, <1>1a, SubSeqOfConcat1
  <2> QED
    BY <2>1, <2>2
<1> HIDE DEF s
<1>4. n \in 1 .. Len(s) /\ s[n] = c
  BY <1>1, <1>2
<1>5. \A i \in 1 .. n - 1 : s[i] # c
  BY <1>1, <1>2 DEF Has, Contains
<1>6. n \in Int
  BY <1>1
<1>7. /\ Has(s, c) /\ After(s, c) = SubSeq(s, n + 1, Len(s))
      /\ Before(s, c) = SubSeq(s, 1, n - 1)
  <2> HIDE DEF n
  <2> QED
    BY <1>2, <1>4, <1>5, FirstAt
<1> QED
  BY <1>7, <1>3, <1>2a DEF s, t, one

\* A text that starts with a word, or with two.
LEMMA Headed ==
    ASSUME NEW W, NEW v \in W, NEW b \in Seq(W)
    PROVE  /\ <<v>> \o b \in Seq(W) /\ <<v>> \o b # <<>> /\ Len(<<v>> \o b) = Len(b) + 1
           /\ (<<v>> \o b)[1] = v
           /\ Tail(<<v>> \o b) = b
           /\ \A i \in 1 .. Len(b) : (<<v>> \o b)[i + 1] = b[i]
<1> DEFINE one == <<v>>
           t == one \o b
<1>1. one \in Seq(W) /\ Len(one) = 1 /\ one[1] = v
  BY Few
<1> HIDE DEF one
<1>2. /\ t \in Seq(W) /\ Len(b) \in Nat /\ Len(t) = Len(one) + Len(b)
      /\ \A i \in 1 .. Len(one) : t[i] = one[i]
      /\ \A i \in 1 .. Len(b) : t[Len(one) + i] = b[i]
  <2>1. one \in Seq(W)
    BY <1>1
  <2> QED
    BY <2>1, Joined
<1> HIDE DEF t
<1>3. /\ Len(t) = Len(b) + 1 /\ t[1] = v
      /\ \A i \in 1 .. Len(b) : t[i + 1] = b[i]
  BY <1>1, <1>2
<1>4. t # <<>>
  BY <1>2, <1>3, EmptySeq
<1>5. /\ Tail(t) \in Seq(W) /\ Len(Tail(t)) = Len(t) - 1
      /\ \A i \in 1 .. Len(Tail(t)) : Tail(t)[i] = t[i + 1]
  BY <1>2, <1>4, HeadTailProperties
<1>6. Len(Tail(t)) = Len(b) /\ \A i \in 1 .. Len(Tail(t)) : Tail(t)[i] = b[i]
  BY <1>2, <1>3, <1>5
<1>7. Tail(t) = b
  BY <1>5, <1>6, SeqEqual
<1> QED
  BY <1>2, <1>3, <1>4, <1>7 DEF t, one

\* The same for two words.
LEMMA HeadedByTwo ==
    ASSUME NEW W, NEW v \in W, NEW w \in W, NEW b \in Seq(W)
    PROVE  /\ <<v, w>> \o b \in Seq(W)
           /\ <<v, w>> \o b # <<>> /\ Len(<<v, w>> \o b) >= 2
           /\ (<<v, w>> \o b)[1] = v
           /\ (<<v, w>> \o b)[2] = w
           /\ Tail(Tail(<<v, w>> \o b)) = b
           /\ <<v, w>> \o b = <<v>> \o (<<w>> \o b)
<1>1. <<v>> \in Seq(W) /\ <<w>> \in Seq(W)
  BY Few
<1>2. <<v, w>> \o b = <<v>> \o (<<w>> \o b)
  BY <1>1, Few, ConcatAssociative
<1> DEFINE r == <<w>> \o b
<1>3. r \in Seq(W) /\ Len(r) = Len(b) + 1 /\ r[1] = w /\ Tail(r) = b
  BY Headed
<1>4. Len(b) \in Nat
  BY LenProperties
<1> HIDE DEF r
<1> DEFINE t == <<v>> \o r
<1>5. /\ t \in Seq(W) /\ t # <<>> /\ Len(t) = Len(r) + 1 /\ t[1] = v /\ Tail(t) = r
      /\ \A i \in 1 .. Len(r) : t[i + 1] = r[i]
  <2>1. r \in Seq(W)
    BY <1>3
  <2> QED
    BY <2>1, Headed
<1> HIDE DEF t
<1>6. Len(t) >= 2 /\ t[2] = w /\ Tail(Tail(t)) = b
  BY <1>3, <1>4, <1>5
<1> QED
  BY <1>2, <1>5, <1>6 DEF t, r

\* A colon that is the only one, none at all, and two of them.
LEMMA OneMark ==
    ASSUME NEW W, NEW a \in Seq(W), NEW b \in Seq(W), NEW c \in W, ~Has(a, c), ~Has(b, c)
    PROVE  Single((a \o <<c>>) \o b, c)
<1> DEFINE one == <<c>>
           t == a \o one
           s == t \o b
           n == Len(a) + 1
<1>0. one \in Seq(W) /\ Len(one) = 1 /\ one[1] = c
  BY Few
<1> HIDE DEF one
<1>1. /\ t \in Seq(W) /\ Len(t) = n /\ Len(a) \in Nat /\ t[n] = c
      /\ \A i \in 1 .. Len(a) : t[i] = a[i]
  <2>1. /\ t \in Seq(W) /\ Len(a) \in Nat /\ Len(t) = Len(a) + Len(one)
        /\ \A i \in 1 .. Len(a) : t[i] = a[i]
        /\ \A i \in 1 .. Len(one) : t[Len(a) + i] = one[i]
    <3>1. one \in Seq(W)
      BY <1>0
    <3> QED
      BY <3>1, Joined
  <2> QED
    BY <1>0, <2>1
<1> HIDE DEF t
<1>2. /\ Len(b) \in Nat /\ Len(s) = Len(t) + Len(b)
      /\ \A i \in 1 .. Len(t) : s[i] = t[i]
      /\ \A i \in 1 .. Len(b) : s[Len(t) + i] = b[i]
  <2>1. t \in Seq(W)
    BY <1>1
  <2> QED
    BY <2>1, Joined
<1> HIDE DEF s
<1>3. n \in 1 .. Len(s) /\ s[n] = c
  BY <1>1, <1>2
<1>4. ASSUME NEW i \in 1 .. Len(s), i # n PROVE s[i] # c
  <2>1. CASE i < n
    <3>1. i \in 1 .. Len(a) /\ s[i] = a[i]
      BY <2>1, <1>1, <1>2
    <3> QED
      BY <3>1 DEF Has, Contains
  <2>2. CASE i > n
    <3>1. i - n \in 1 .. Len(b) /\ Len(t) + (i - n) = i
      BY <2>2, <1>1, <1>2
    <3>2. s[i] = b[i - n]
      BY <3>1, <1>2
    <3> QED
      BY <3>1, <3>2 DEF Has, Contains
  <2> QED
    BY <2>1, <2>2, <1>1, <1>4
<1>5. Single(s, c)
  BY <1>3, <1>4 DEF Single
<1> QED
  BY <1>5 DEF s, t, one

\* A mark that is missing is not single, nor is one that is there twice.
LEMMA NoMark == ASSUME NEW s, NEW c, ~Has(s, c) PROVE ~Single(s, c)
BY DEF Has, Contains, Single

\* A mark is there more than once.
Twice(s, c) == \E i, j \in 1 .. Len(s) : i # j /\ s[i] = c /\ s[j] = c

LEMMA TwoMarks == ASSUME NEW s, NEW c, Twice(s, c) PROVE ~Single(s, c)
BY DEF Single, Twice

\* A mark that is twice in a part is twice in the text.
LEMMA TwiceJoined ==
    ASSUME NEW W, NEW a \in Seq(W), NEW b \in Seq(W), NEW c, Twice(a, c) \/ Twice(b, c)
    PROVE  Twice(a \o b, c)
<1>1. /\ Len(a) \in Nat /\ Len(b) \in Nat /\ Len(a \o b) = Len(a) + Len(b)
      /\ \A k \in 1 .. Len(a) : (a \o b)[k] = a[k]
      /\ \A k \in 1 .. Len(b) : (a \o b)[Len(a) + k] = b[k]
  BY Joined
<1> DEFINE s == a \o b
<1> HIDE DEF s
<1>2. /\ Len(s) = Len(a) + Len(b)
      /\ \A k \in 1 .. Len(a) : s[k] = a[k]
      /\ \A k \in 1 .. Len(b) : s[Len(a) + k] = b[k]
  BY <1>1 DEF s
<1>3. ASSUME Twice(a, c) PROVE Twice(s, c)
  <2>1. PICK i \in 1 .. Len(a), j \in 1 .. Len(a) : i # j /\ a[i] = c /\ a[j] = c
    BY <1>3 DEF Twice
  <2>2. i \in 1 .. Len(s) /\ j \in 1 .. Len(s) /\ s[i] = c /\ s[j] = c
    BY <1>1, <1>2, <2>1
  <2> QED
    BY <2>1, <2>2 DEF Twice
<1>4. ASSUME Twice(b, c) PROVE Twice(s, c)
  <2>1. PICK i \in 1 .. Len(b), j \in 1 .. Len(b) : i # j /\ b[i] = c /\ b[j] = c
    BY <1>4 DEF Twice
  <2>2. /\ Len(a) + i \in 1 .. Len(s) /\ Len(a) + j \in 1 .. Len(s)
        /\ Len(a) + i # Len(a) + j
        /\ s[Len(a) + i] = c /\ s[Len(a) + j] = c
    BY <1>1, <1>2, <2>1
  <2> QED
    BY <2>2 DEF Twice
<1> QED
  BY <1>3, <1>4 DEF s

\* The last two words as texts of their own.
LEMMA LastTwo ==
    ASSUME NEW W, NEW a \in Seq(W), NEW b \in Seq(W), NEW v \in W, NEW w \in W
    PROVE  a \o (b \o <<v, w>>) = ((a \o b) \o <<v>>) \o <<w>>
<1> DEFINE one == <<v>>
           two == <<w>>
<1>1. one \in Seq(W) /\ two \in Seq(W) /\ <<v, w>> = one \o two
  BY Few
<1>2. one \in Seq(W)
  BY <1>1
<1>3. two \in Seq(W)
  BY <1>1
<1> HIDE DEF one, two
<1>4. b \o one \in Seq(W)
  BY <1>2, Joined
<1>5. a \o b \in Seq(W)
  BY Joined
<1>6. b \o (one \o two) = (b \o one) \o two
  BY <1>2, <1>3, ConcatAssociative
<1>7. a \o ((b \o one) \o two) = (a \o (b \o one)) \o two
  <2> DEFINE m == b \o one
  <2>1. m \in Seq(W)
    BY <1>4
  <2> HIDE DEF m
  <2>2. (a \o m) \o two = a \o (m \o two)
    BY <1>3, <2>1, ConcatAssociative
  <2> QED
    BY <2>2 DEF m
<1>8. a \o (b \o one) = (a \o b) \o one
  BY <1>2, ConcatAssociative
<1> QED
  BY <1>1, <1>6, <1>7, <1>8 DEF one, two

-------------------------------------------------------------------------------
(* The parts of a URI's text *)

\* The marks, and all text: marks and words.
Marks == {":", "@", "[", "]"}

Words == STRING \cup Marks

\* The URIs of a configuration, and those that route writes.
Readable ==
    {u \in [schema : {NoWord, "sip", "sips", "tcp", "udp"}, user : Users \cup {NoWord}, host : Hosts,
            bracket : BOOLEAN, port : Ports \cup {NoWord}] :
        /\ u.bracket => Has(u.host, ":")
        /\ Has(u.host, ":") /\ u.port # NoWord => u.bracket}

\* Text(u) is Word(u.schema, ":") and Rest(u), which is Word(u.user, "@") and Body(u).
HostPart(u) == IF u.bracket THEN <<"[">> \o u.host \o <<"]">> ELSE u.host
PortPart(u) == IF u.port = NoWord THEN <<>> ELSE <<":", u.port>>
Body(u) == HostPart(u) \o PortPart(u)
Rest(u) == Word(u.user, "@") \o Body(u)

\* The words of a URI are not marks, and its brackets are where they must be.
LEMMA Vocabulary ==
    ASSUME NEW u \in Readable
    PROVE  /\ Marks \subseteq Words
           /\ u.schema # NoWord => u.schema \in Lower /\ u.schema \in Words /\ u.schema \notin Marks
           /\ u.user # NoWord => u.user \in Words /\ u.user \notin Marks
           /\ u.port # NoWord => u.port \in Ports /\ u.port \in Words /\ u.port \notin Marks
           /\ u.bracket \in BOOLEAN
           /\ u.bracket => Has(u.host, ":")
           /\ Has(u.host, ":") /\ u.port # NoWord => u.bracket
<1>1. Marks \subseteq Words
  BY DEF Words
<1>2. /\ Lower \subseteq STRING /\ Ports \subseteq STRING /\ Users \ {NoWord} \subseteq STRING
      /\ Lower \cap Marks = {} /\ Ports \cap Marks = {} /\ Users \cap Marks = {}
  BY WordsKnown DEF Marks
<1>3. {"sip", "sips", "tcp", "udp"} \subseteq Lower
  BY WordsKnown
<1>4. /\ u.schema \in {NoWord, "sip", "sips", "tcp", "udp"} /\ u.user \in Users \cup {NoWord}
      /\ u.port \in Ports \cup {NoWord} /\ u.bracket \in BOOLEAN
      /\ u.bracket => Has(u.host, ":")
      /\ Has(u.host, ":") /\ u.port # NoWord => u.bracket
  BY DEF Readable
<1> QED
  BY <1>1, <1>2, <1>3, <1>4 DEF Words

\* A host is one word, or has two colons.
LEMMA HostText ==
    ASSUME NEW u \in Readable
    PROVE  /\ u.host \in Hosts /\ u.host \in Seq(Words) /\ u.host # <<>>
           /\ Len(u.host) \in Nat \ {0} /\ u.host[1] \in Words
           /\ ~Has(u.host, "@") /\ ~Has(u.host, "[") /\ ~Has(u.host, "]")
           /\ u.host[1] \notin {"@", "[", "]"}
           /\ IF Has(u.host, ":")
              THEN Twice(u.host, ":")
              ELSE Len(u.host) = 1
<1> DEFINE h == u.host
<1>1. h \in Hosts
  BY DEF Readable
<1> HIDE DEF h
<1>2. h \in Seq(Words) /\ h # <<>> /\ \A i \in 1 .. Len(h) : h[i] \notin {"@", "[", "]"}
  <2>1. h \in Seq(STRING) /\ h # <<>> /\ \A i \in 1 .. Len(h) : h[i] \notin {"@", "[", "]"}
    BY <1>1, HostsKnown
  <2>2. STRING \subseteq Words
    BY DEF Words
  <2> QED
    BY <2>1, <2>2, SeqMonotonic
<1>3. Len(h) \in Nat \ {0}
  BY <1>2, EmptySeq
<1>4. 1 \in 1 .. Len(h)
  BY <1>3
<1>5. h[1] \in Words /\ h[1] \notin {"@", "[", "]"}
  BY <1>2, <1>4, ElementOfSeq
<1>6. ~Has(h, "@") /\ ~Has(h, "[") /\ ~Has(h, "]")
  BY <1>2 DEF Has, Contains
<1>7. IF Has(h, ":") THEN Twice(h, ":") ELSE Len(h) = 1
  BY <1>1, HostsKnown DEF Has, Twice
<1> QED
  BY <1>1, <1>2, <1>3, <1>5, <1>6, <1>7 DEF h

\* Every part is text.
LEMMA PartTypes ==
    ASSUME NEW u \in Readable
    PROVE  /\ Word(u.schema, ":") \in Seq(Words) /\ Word(u.user, "@") \in Seq(Words)
           /\ HostPart(u) \in Seq(Words) /\ PortPart(u) \in Seq(Words)
           /\ Body(u) \in Seq(Words) /\ Rest(u) \in Seq(Words)
<1>1. "[" \in Words /\ "]" \in Words /\ ":" \in Words /\ "@" \in Words
  BY Vocabulary DEF Marks
<1>2. Word(u.schema, ":") \in Seq(Words) /\ Word(u.user, "@") \in Seq(Words)
  BY <1>1, Vocabulary, Few DEF Word
<1>3. PortPart(u) \in Seq(Words)
  BY <1>1, Vocabulary, Few DEF PortPart
<1>4. HostPart(u) \in Seq(Words)
  <2>1. u.host \in Seq(Words) /\ <<"[">> \in Seq(Words) /\ <<"]">> \in Seq(Words)
    BY <1>1, HostText, Few
  <2>2. <<"[">> \o u.host \in Seq(Words)
    BY <2>1, Joined
  <2>3. (<<"[">> \o u.host) \o <<"]">> \in Seq(Words)
    BY <2>1, <2>2, Joined
  <2> QED
    BY <2>1, <2>3 DEF HostPart
<1>5. Body(u) \in Seq(Words)
  BY <1>3, <1>4, Joined DEF Body
<1>6. Rest(u) \in Seq(Words)
  BY <1>2, <1>5, Joined DEF Rest
<1> QED
  BY <1>2, <1>3, <1>4, <1>5, <1>6

\* The text of a URI is its schema and the rest.
LEMMA TextParts ==
    ASSUME NEW u \in Readable
    PROVE  Text(u) = Word(u.schema, ":") \o Rest(u)
<1> DEFINE a == Word(u.schema, ":")
           b == Word(u.user, "@")
           c == HostPart(u)
           d == PortPart(u)
<1>1. Text(u) = ((a \o b) \o c) \o d
  BY DEF Text, HostPart, PortPart
<1>2. a \in Seq(Words) /\ b \in Seq(Words) /\ c \in Seq(Words) /\ d \in Seq(Words)
  BY PartTypes
<1>3. Rest(u) = b \o (c \o d)
  BY DEF Rest, Body
<1> HIDE DEF a, b, c, d
<1>4. ((a \o b) \o c) \o d = a \o (b \o (c \o d))
  <2>1. a \in Seq(Words)
    BY <1>2
  <2>2. b \in Seq(Words)
    BY <1>2
  <2>3. c \in Seq(Words)
    BY <1>2
  <2>4. d \in Seq(Words)
    BY <1>2
  <2>5. a \o b \in Seq(Words)
    BY <2>1, <2>2, Joined
  <2>6. c \o d \in Seq(Words)
    BY <2>3, <2>4, Joined
  <2>7. ((a \o b) \o c) \o d = (a \o b) \o (c \o d)
    <3> DEFINE m == a \o b
    <3>1. m \in Seq(Words)
      BY <2>5
    <3> HIDE DEF m
    <3>2. (m \o c) \o d = m \o (c \o d)
      BY <2>3, <2>4, <3>1, ConcatAssociative
    <3> QED
      BY <3>2 DEF m
  <2>8. (a \o b) \o (c \o d) = a \o (b \o (c \o d))
    <3> DEFINE m == c \o d
    <3>1. m \in Seq(Words)
      BY <2>6
    <3> HIDE DEF m
    <3>2. (a \o b) \o m = a \o (b \o m)
      BY <2>1, <2>2, <3>1, ConcatAssociative
    <3> QED
      BY <3>2 DEF m
  <2> QED
    BY <2>7, <2>8
<1> QED
  BY <1>1, <1>3, <1>4 DEF a

\* The first word of a text that has two parts.
LEMMA Leading ==
    ASSUME NEW W, NEW a \in Seq(W), NEW b \in Seq(W), a # <<>>
    PROVE  a \o b # <<>> /\ (a \o b)[1] = a[1] /\ Len(a) \in Nat \ {0}
<1>1. Len(a) \in Nat \ {0}
  BY EmptySeq
<1>2. 1 \in 1 .. Len(a)
  BY <1>1
<1>3. (a \o b)[1] = a[1]
  BY <1>2, Joined
<1>4. a \o b # <<>>
  BY ConcatEqualIffEmpty
<1> QED
  BY <1>1, <1>3, <1>4

\* How host and port begin; they have no "@".
LEMMA BodyHead ==
    ASSUME NEW u \in Readable
    PROVE  /\ Body(u) # <<>>
           /\ Body(u)[1] = IF u.bracket THEN "[" ELSE u.host[1]
           /\ ~u.bracket /\ u.port = NoWord => Body(u) = u.host
           /\ u.bracket => /\ Body(u) = ((<<"[">> \o u.host) \o <<"]">>) \o PortPart(u)
                           /\ Tail(Body(u)) = (u.host \o <<"]">>) \o PortPart(u)
           /\ ~Has(Body(u), "@")
<1>1. "[" \in Words /\ "]" \in Words
  BY Vocabulary DEF Marks
<1>2. u.host \in Seq(Words) /\ u.host # <<>> /\ ~Has(u.host, "@")
  BY HostText
<1>3. PortPart(u) \in Seq(Words)
  BY PartTypes
<1>4. ~Has(PortPart(u), "@")
  <2>1. CASE u.port = NoWord
    BY <2>1, FewMembers DEF PortPart
  <2>2. CASE u.port # NoWord
    <3>1. u.port # "@"
      BY <2>2, Vocabulary DEF Marks
    <3>2. ~Has(<<":", u.port>>, "@")
      BY <3>1, FewMembers
    <3> QED
      BY <2>2, <3>2 DEF PortPart
  <2> QED
    BY <2>1, <2>2
<1>5. CASE ~u.bracket
  <2>1. Body(u) = u.host \o PortPart(u)
    BY <1>5 DEF Body, HostPart
  <2>2. Body(u) # <<>> /\ Body(u)[1] = u.host[1]
    BY <1>2, <1>3, <2>1, Leading
  <2>3. ~Has(Body(u), "@")
    BY <1>2, <1>3, <1>4, <2>1, Members
  <2>4. u.port = NoWord => Body(u) = u.host
    BY <1>2, <2>1, ConcatEmptySeq DEF PortPart
  <2> QED
    BY <1>5, <2>2, <2>3, <2>4
<1>6. CASE u.bracket
  <2> DEFINE open == <<"[">>
             shut == <<"]">>
             h == u.host
             p == PortPart(u)
             rest == (h \o shut) \o p
  <2>1. open \in Seq(Words) /\ shut \in Seq(Words) /\ h \in Seq(Words) /\ p \in Seq(Words)
    BY <1>1, <1>2, <1>3, Few
  <2>2. Body(u) = ((open \o h) \o shut) \o p
    BY <1>6 DEF Body, HostPart
  <2>3. ~Has(open, "@") /\ ~Has(shut, "@") /\ ~Has(h, "@") /\ ~Has(p, "@")
    BY <1>2, <1>4, FewMembers
  <2> HIDE DEF shut, h, p
  <2>4. open \in Seq(Words)
    BY <2>1
  <2>5. shut \in Seq(Words)
    BY <2>1
  <2>6. h \in Seq(Words)
    BY <2>1
  <2>7. p \in Seq(Words)
    BY <2>1
  <2>8. h \o shut \in Seq(Words) /\ ~Has(h \o shut, "@")
    <3>1. h \o shut \in Seq(Words)
      BY <2>5, <2>6, Joined
    <3>2. ~Has(h \o shut, "@")
      BY <2>3, <2>5, <2>6, Members
    <3> QED
      BY <3>1, <3>2
  <2>9. rest \in Seq(Words) /\ ~Has(rest, "@")
    <3> DEFINE hs == h \o shut
    <3>1. hs \in Seq(Words) /\ ~Has(hs, "@")
      BY <2>8
    <3> HIDE DEF hs
    <3>2. hs \o p \in Seq(Words) /\ ~Has(hs \o p, "@")
      BY <2>3, <2>7, <3>1, Joined, Members
    <3> QED
      BY <3>2 DEF hs
  <2>10. ((open \o h) \o shut) \o p = open \o rest
    <3> HIDE DEF open
    <3>1. (open \o h) \o shut = open \o (h \o shut)
      BY <2>4, <2>5, <2>6, ConcatAssociative
    <3>2. (open \o (h \o shut)) \o p = open \o ((h \o shut) \o p)
      <4> DEFINE hs == h \o shut
      <4>1. hs \in Seq(Words)
        BY <2>8
      <4> HIDE DEF hs
      <4>2. (open \o hs) \o p = open \o (hs \o p)
        BY <2>4, <2>7, <4>1, ConcatAssociative
      <4> QED
        BY <4>2 DEF hs
    <3> QED
      BY <3>1, <3>2
  <2> HIDE DEF rest
  <2>11. ~Has(open \o rest, "@")
    <3> HIDE DEF open
    <3> QED
      BY <2>3, <2>4, <2>9, Members
  <2>12. /\ open \o rest # <<>> /\ (open \o rest)[1] = "["
         /\ Tail(open \o rest) = rest
    <3>1. rest \in Seq(Words)
      BY <2>9
    <3> QED
      BY <1>1, <3>1, Headed
  <2> HIDE DEF open
  <2>13. /\ Body(u) # <<>> /\ Body(u)[1] = "[" /\ Tail(Body(u)) = rest /\ ~Has(Body(u), "@")
    BY <2>2, <2>10, <2>11, <2>12
  <2> QED
    BY <1>6, <2>2, <2>13 DEF rest, open, h, shut, p
<1> QED
  BY <1>5, <1>6, Vocabulary

\* The text behind the schema is not taken for one with a schema.
PlainStart(u) ==
    u.user = NoWord /\ ~u.bracket =>
        /\ u.host[1] # ":"
        /\ u.host[1] \in Lower => u.port = NoWord /\ ~Has(u.host, ":")

\* How the text behind the schema begins.
LEMMA RestHead ==
    ASSUME NEW u \in Readable
    PROVE  /\ Rest(u) \in Seq(Words) /\ Rest(u) # <<>>
           /\ Rest(u)[1] = IF u.user # NoWord THEN u.user
                           ELSE IF u.bracket THEN "[" ELSE u.host[1]
           /\ u.user = NoWord => Rest(u) = Body(u)
           /\ u.user # NoWord => Rest(u)[2] = "@" /\ Rest(u) = (<<u.user>> \o <<"@">>) \o Body(u)
           /\ PlainStart(u) => Rest(u)[1] # ":" /\ \A w \in Lower : ~Schema(Rest(u), w)
<1>1. Body(u) \in Seq(Words) /\ Rest(u) \in Seq(Words)
  BY PartTypes
<1>2. CASE u.user = NoWord
  <2>1. Rest(u) = Body(u)
    BY <1>1, <1>2, ConcatEmptySeq DEF Rest, Word
  <2>2. /\ Body(u) # <<>>
        /\ Body(u)[1] = IF u.bracket THEN "[" ELSE u.host[1]
    BY BodyHead
  <2>3. ASSUME PlainStart(u) PROVE Rest(u)[1] # ":" /\ \A w \in Lower : ~Schema(Rest(u), w)
    <3>1. CASE u.bracket
      BY <2>1, <2>2, <3>1, WordsKnown DEF Schema
    <3>2. CASE ~u.bracket /\ u.host[1] \notin Lower
      BY <1>2, <2>1, <2>2, <2>3, <3>2 DEF Schema, PlainStart
    <3>3. CASE ~u.bracket /\ u.host[1] \in Lower
      <4>1. u.port = NoWord /\ ~Has(u.host, ":") /\ u.host[1] # ":"
        BY <1>2, <2>3, <3>3 DEF PlainStart
      <4>2. Body(u) = u.host /\ Len(u.host) = 1
        BY <3>3, <4>1, BodyHead, HostText
      <4> QED
        BY <2>1, <4>1, <4>2 DEF Schema
    <3> QED
      BY <3>1, <3>2, <3>3
  <2> QED
    BY <1>1, <1>2, <2>1, <2>2, <2>3
<1>3. CASE u.user # NoWord
  <2>1. u.user \in Words /\ u.user \notin Marks /\ "@" \in Words
    BY <1>3, Vocabulary DEF Marks
  <2>2. Rest(u) = <<u.user, "@">> \o Body(u)
    BY <1>3 DEF Rest, Word
  <2>3. Rest(u) # <<>> /\ Rest(u)[1] = u.user /\ Rest(u)[2] = "@"
    BY <1>1, <2>1, <2>2, HeadedByTwo
  <2>4. <<u.user, "@">> = <<u.user>> \o <<"@">>
    BY <2>1, Few
  <2>5. Rest(u)[1] # ":" /\ \A w \in Lower : ~Schema(Rest(u), w)
    BY <2>1, <2>3 DEF Schema, Marks
  <2> QED
    BY <1>1, <1>3, <2>2, <2>3, <2>4, <2>5
<1> QED
  BY <1>2, <1>3

\* The search for a schema finds the one that was written.
LEMMA SchemaRead ==
    ASSUME NEW u \in Readable, u.schema # NoWord \/ PlainStart(u)
    PROVE  /\ Text(u) \in Seq(Words) /\ Text(u) # <<>>
           /\ SkipSchema(Text(u)) = Rest(u)
           /\ \A w \in Lower : Schema(Text(u), w) <=> u.schema = w
           /\ u.schema # NoWord => /\ Tail(Tail(Text(u))) = Rest(u)
                                   /\ \A w : Schema(Text(u), w) <=> u.schema = w
           /\ u.schema = NoWord => Text(u) = Rest(u)
<1>1. Text(u) = Word(u.schema, ":") \o Rest(u)
  BY TextParts
<1>2. Rest(u) \in Seq(Words) /\ Rest(u) # <<>>
  BY RestHead
<1>3. CASE u.schema = NoWord
  <2>1. Text(u) = Rest(u)
    BY <1>1, <1>2, <1>3, ConcatEmptySeq DEF Word
  <2>2. Rest(u)[1] # ":" /\ \A w \in Lower : ~Schema(Rest(u), w)
    BY <1>3, RestHead
  <2>3. NoWord \notin Lower
    BY WordsKnown
  <2> QED
    BY <1>2, <1>3, <2>1, <2>2, <2>3 DEF SkipSchema
<1>4. CASE u.schema # NoWord
  <2>1. u.schema \in Lower /\ u.schema \in Words /\ u.schema \notin Marks /\ ":" \in Words
    BY <1>4, Vocabulary DEF Marks
  <2>2. Text(u) = <<u.schema, ":">> \o Rest(u)
    BY <1>1, <1>4 DEF Word
  <2>3. /\ Text(u) \in Seq(Words)
        /\ Text(u) # <<>> /\ Len(Text(u)) >= 2
        /\ Text(u)[1] = u.schema /\ Text(u)[2] = ":"
        /\ Tail(Tail(Text(u))) = Rest(u)
    <3> DEFINE t == <<u.schema, ":">> \o Rest(u)
    <3>1. t \in Seq(Words) /\ t # <<>> /\ Len(t) >= 2 /\ t[1] = u.schema /\ t[2] = ":"
      BY <1>2, <2>1, HeadedByTwo
    <3>2. Tail(Tail(t)) = Rest(u)
      <4> DEFINE v == u.schema
                 b == Rest(u)
                 w == ":"
      <4>1. v \in Words /\ w \in Words /\ b \in Seq(Words)
        BY <1>2, <2>1
      <4> HIDE DEF v, w, b
      <4>2. Tail(Tail(<<v, w>> \o b)) = b
        BY <4>1, HeadedByTwo
      <4> QED
        BY <4>2 DEF v, w, b
    <3> QED
      BY <2>2, <3>1, <3>2
  <2>4. \A w : Schema(Text(u), w) <=> u.schema = w
    BY <2>3 DEF Schema
  <2>5. SkipSchema(Text(u)) = Rest(u)
    BY <2>1, <2>3, <2>4 DEF SkipSchema, Marks
  <2> QED
    BY <1>4, <2>3, <2>4, <2>5
<1> QED
  BY <1>3, <1>4

-------------------------------------------------------------------------------
(* What the three functions read *)

\* The first "@" is the one behind the user.
LEMMA UserCut ==
    ASSUME NEW u \in Readable
    PROVE  /\ u.user = NoWord => ~Has(Rest(u), "@")
           /\ u.user # NoWord => /\ Has(Rest(u), "@")
                                 /\ After(Rest(u), "@") = Body(u)
                                 /\ Before(Rest(u), "@") = <<u.user>>
<1>1. CASE u.user = NoWord
  BY <1>1, RestHead, BodyHead
<1>2. CASE u.user # NoWord
  <2> DEFINE a == <<u.user>>
             b == Body(u)
             c == "@"
  <2>1. u.user \in Words /\ u.user # "@" /\ "@" \in Words
    BY <1>2, Vocabulary DEF Marks
  <2>2. a \in Seq(Words)
    BY <2>1, Few
  <2>3. ~Has(a, c)
    BY <2>1, FewMembers
  <2>4. b \in Seq(Words)
    BY PartTypes
  <2>5. c \in Words
    BY <2>1
  <2>6. Rest(u) = (a \o <<c>>) \o b
    BY <1>2, RestHead
  <2> HIDE DEF a, b, c
  <2>7. /\ Has((a \o <<c>>) \o b, c)
        /\ After((a \o <<c>>) \o b, c) = b
        /\ Before((a \o <<c>>) \o b, c) = a
    BY <2>2, <2>3, <2>4, <2>5, Cutting
  <2> QED
    BY <1>2, <2>6, <2>7 DEF a, b, c
<1> QED
  BY <1>1, <1>2

\* An address in brackets, and what follows it.
LEMMA BracketCut ==
    ASSUME NEW u \in Readable, u.bracket
    PROVE  /\ Has(Body(u), "]") /\ After(Body(u), "]") = PortPart(u)
           /\ Before(Tail(Body(u)), "]") = u.host
<1> DEFINE open == <<"[">>
           h == u.host
           c == "]"
           p == PortPart(u)
           a == open \o h
<1>1. open \in Seq(Words) /\ ~Has(open, c)
  <2>1. "[" \in Words
    BY Vocabulary DEF Marks
  <2>2. open \in Seq(Words)
    BY <2>1, Few
  <2>3. ~Has(open, c)
    BY FewMembers
  <2> QED
    BY <2>2, <2>3
<1>2. h \in Seq(Words) /\ ~Has(h, c)
  BY HostText
<1>3. c \in Words
  BY Vocabulary DEF Marks
<1>4. p \in Seq(Words)
  BY PartTypes
<1>5. Body(u) = (a \o <<c>>) \o p /\ Tail(Body(u)) = (h \o <<c>>) \o p
  BY BodyHead
<1> HIDE DEF open, h, c, p
<1>6. a \in Seq(Words) /\ ~Has(a, c)
  BY <1>1, <1>2, Joined, Members
<1> HIDE DEF a
<1>7. Has((a \o <<c>>) \o p, c) /\ After((a \o <<c>>) \o p, c) = p
  BY <1>3, <1>4, <1>6, Cutting
<1>8. Before((h \o <<c>>) \o p, c) = h
  BY <1>2, <1>3, <1>4, Cutting
<1> QED
  BY <1>5, <1>7, <1>8 DEF c, h, p

\* A port at the end of a text without brackets, and no port.
LEMMA PortCut ==
    ASSUME NEW u \in Readable, ~u.bracket, NEW a \in Seq(Words), ~Has(a, ":")
    PROVE  /\ u.port # NoWord => /\ Single(a \o Body(u), ":")
                                 /\ After(a \o Body(u), ":") = <<u.port>>
                                 /\ Before(a \o Body(u), ":") = a \o u.host
           /\ u.port = NoWord => ~Single(a \o Body(u), ":")
<1> DEFINE h == u.host
           c == ":"
<1>1. h \in Seq(Words) /\ c \in Words
  BY HostText, Vocabulary DEF Marks
<1>2. CASE u.port # NoWord
  <2> DEFINE w == u.port
             one == <<w>>
             ah == a \o h
  <2>1. w \in Words /\ w # c /\ ~Has(h, c)
    BY <1>2, Vocabulary DEF Marks
  <2>2. Body(u) = h \o <<c, w>>
    BY <1>2 DEF Body, HostPart, PortPart
  <2> HIDE DEF h, c, w
  <2>3. a \o (h \o <<c, w>>) = ((a \o h) \o <<c>>) \o <<w>>
    BY <1>1, <2>1, LastTwo
  <2>4. one \in Seq(Words) /\ ~Has(one, c)
    BY <2>1, Few, FewMembers
  <2>5. ah \in Seq(Words)
    BY <1>1, Joined
  <2>6. ~Has(a, c)
    BY DEF c
  <2>7. ~Has(ah, c)
    BY <1>1, <2>1, <2>6, Members
  <2>8. a \o Body(u) = (ah \o <<c>>) \o one
    BY <2>2, <2>3
  <2> HIDE DEF one, ah
  <2>9. Single((ah \o <<c>>) \o one, c)
    BY <1>1, <2>4, <2>5, <2>7, OneMark
  <2>10. After((ah \o <<c>>) \o one, c) = one /\ Before((ah \o <<c>>) \o one, c) = ah
    BY <1>1, <2>4, <2>5, <2>7, Cutting
  <2>11. Single(a \o Body(u), c) /\ After(a \o Body(u), c) = one /\ Before(a \o Body(u), c) = ah
    BY <2>8, <2>9, <2>10
  <2> QED
    BY <1>2, <2>11 DEF c, one, w, ah, h
<1>3. CASE u.port = NoWord
  <2>1. Body(u) = h
    BY <1>3, BodyHead
  <2>2. CASE Has(h, ":")
    <3>1. Twice(h, ":")
      BY <2>2, HostText
    <3>2. Twice(a \o h, ":")
      <4> HIDE DEF h
      <4> QED
        BY <1>1, <3>1, TwiceJoined
    <3> QED
      BY <1>3, <2>1, <3>2, TwoMarks
  <2>3. CASE ~Has(h, ":")
    <3>1. ~Has(a \o h, ":")
      <4> HIDE DEF h
      <4> QED
        BY <1>1, <2>3, Members
    <3> QED
      BY <1>3, <2>1, <3>1, NoMark
  <2> QED
    BY <2>2, <2>3
<1> QED
  BY <1>2, <1>3

\* uri::hostid, portid and userid read what was written; portid does not find the
\* port behind a user and an address in brackets.
LEMMA HostRead ==
    ASSUME NEW u \in Readable, u.schema # NoWord \/ PlainStart(u)
    PROVE  hostid(Text(u)) = u.host
<1> DEFINE s == SkipSchema(Text(u))
           h == IF Has(s, "@") THEN After(s, "@") ELSE s
<1>1. s = Rest(u)
  BY SchemaRead
<1>2. h = Body(u)
  BY <1>1, UserCut, RestHead
<1>3. hostid(Text(u)) = IF h # <<>> /\ h[1] = "["
                        THEN IF Has(h, "]") THEN Before(Tail(h), "]") ELSE Tail(h)
                        ELSE IF Single(h, ":") THEN Before(h, ":") ELSE h
  BY DEF hostid
<1> HIDE DEF s, h
<1>4. h # <<>> /\ h[1] = IF u.bracket THEN "[" ELSE u.host[1]
  BY <1>2, BodyHead
<1>5. CASE u.bracket
  BY <1>2, <1>3, <1>4, <1>5, BracketCut
<1>6. CASE ~u.bracket
  <2>1. h[1] # "["
    BY <1>4, <1>6, HostText
  <2>2. <<>> \in Seq(Words) /\ ~Has(<<>>, ":")
    BY EmptySeq, FewMembers
  <2>3. <<>> \o Body(u) = Body(u) /\ <<>> \o u.host = u.host
    BY PartTypes, HostText, ConcatEmptySeq
  <2>4. /\ u.port # NoWord => Single(Body(u), ":") /\ Before(Body(u), ":") = u.host
        /\ u.port = NoWord => ~Single(Body(u), ":")
    BY <1>6, <2>2, <2>3, PortCut
  <2>5. u.port = NoWord => Body(u) = u.host
    BY <1>6, BodyHead
  <2> QED
    BY <1>2, <1>3, <2>1, <2>4, <2>5
<1> QED
  BY <1>5, <1>6

LEMMA PortRead ==
    ASSUME NEW u \in Readable, u.schema # NoWord \/ PlainStart(u)
    PROVE  portid(Text(u)) = IF PortMisread(u) THEN NoWord ELSE u.port
<1>0. ~(u.bracket /\ u.user # NoWord) => ~PortMisread(u)
  BY DEF PortMisread
<1> DEFINE s == SkipSchema(Text(u))
           w == Word(u.user, "@")
<1>1. s = Rest(u)
  BY SchemaRead
<1>2. portid(Text(u)) =
          IF s # <<>> /\ s[1] = "["
          THEN IF Has(s, "]") /\ Has(After(s, "]"), ":") THEN Atoi(After(After(s, "]"), ":")) ELSE NoWord
          ELSE IF Single(s, ":") THEN Atoi(After(s, ":")) ELSE NoWord
  BY DEF portid
<1> HIDE DEF s
<1>3. Rest(u) = w \o Body(u)
  BY DEF Rest
<1>4. w \in Seq(Words)
  BY PartTypes
<1>5. ~Has(w, ":")
  <2>1. CASE u.user = NoWord
    BY <2>1, FewMembers DEF Word
  <2>2. CASE u.user # NoWord
    <3>1. u.user # ":"
      BY <2>2, Vocabulary DEF Marks
    <3>2. ~Has(<<u.user, "@">>, ":")
      BY <3>1, FewMembers
    <3> QED
      BY <2>2, <3>2 DEF Word
  <2> QED
    BY <2>1, <2>2
<1>6. u.port # NoWord => Atoi(<<u.port>>) = u.port
  <2> SUFFICES ASSUME u.port # NoWord PROVE Atoi(<<u.port>>) = u.port
    OBVIOUS
  <2>1. u.port \in Ports
    BY Vocabulary
  <2>2. <<u.port>> # <<>> /\ <<u.port>>[1] = u.port
    OBVIOUS
  <2> QED
    BY <2>1, <2>2 DEF Atoi
<1>7. CASE ~u.bracket
  <2>1. s # <<>> /\ s[1] # "["
    <3>1. u.user # NoWord => u.user # "["
      BY Vocabulary DEF Marks
    <3> QED
      BY <1>1, <1>7, <3>1, RestHead, HostText
  <2> HIDE DEF w
  <2>2. /\ u.port # NoWord => Single(s, ":") /\ After(s, ":") = <<u.port>>
        /\ u.port = NoWord => ~Single(s, ":")
    BY <1>1, <1>3, <1>4, <1>5, <1>7, PortCut
  <2> QED
    BY <1>0, <1>2, <1>6, <1>7, <2>1, <2>2
<1>8. CASE u.bracket /\ u.user = NoWord
  <2>1. s = Body(u) /\ s # <<>> /\ s[1] = "["
    BY <1>1, <1>8, RestHead, BodyHead
  <2>2. Has(s, "]") /\ After(s, "]") = PortPart(u)
    BY <1>8, <2>1, BracketCut
  <2>3. CASE u.port = NoWord
    <3>1. ~Has(PortPart(u), ":")
      BY <2>3, FewMembers DEF PortPart
    <3> QED
      BY <1>0, <1>2, <1>8, <2>1, <2>2, <2>3, <3>1
  <2>4. CASE u.port # NoWord
    <3> DEFINE c == ":"
               b == <<u.port>>
               one == <<c>>
    <3>1. u.port \in Words /\ c \in Words
      BY <2>4, Vocabulary DEF Marks
    <3>2. b \in Seq(Words) /\ one \in Seq(Words) /\ PortPart(u) = one \o b
      BY <2>4, <3>1, Few DEF PortPart
    <3>3. <<>> \in Seq(Words) /\ ~Has(<<>>, c)
      BY EmptySeq, FewMembers
    <3>4. <<>> \o one = one
      BY <3>2, ConcatEmptySeq
    <3> HIDE DEF c, b
    <3>5. b \in Seq(Words)
      BY <3>2
    <3>6. Has((<<>> \o <<c>>) \o b, c) /\ After((<<>> \o <<c>>) \o b, c) = b
      BY <3>1, <3>3, <3>5, Cutting
    <3>7. Has(PortPart(u), c) /\ After(PortPart(u), c) = b
      BY <3>2, <3>4, <3>6
    <3>8. Has(PortPart(u), ":") /\ After(PortPart(u), ":") = <<u.port>>
      BY <3>7 DEF b, c
    <3> QED
      BY <1>0, <1>2, <1>6, <1>8, <2>1, <2>2, <2>4, <3>8
  <2> QED
    BY <2>3, <2>4
<1>9. CASE u.bracket /\ u.user # NoWord
  <2>1. u.port = NoWord \/ PortMisread(u)
    BY <1>9 DEF PortMisread
  <2>2. s # <<>> /\ s[1] # "["
    <3>1. u.user # "["
      BY <1>9, Vocabulary DEF Marks
    <3> QED
      BY <1>1, <1>9, <3>1, RestHead
  <2>3. ~Single(s, ":")
    <3> DEFINE open == <<"[">>
               shut == <<"]">>
               h == u.host
               p == PortPart(u)
               oh == open \o h
               b == oh \o shut
    <3>1. "[" \in Words /\ "]" \in Words
      BY Vocabulary DEF Marks
    <3>2. open \in Seq(Words)
      BY <3>1, Few
    <3>3. shut \in Seq(Words)
      BY <3>1, Few
    <3>4. h \in Seq(Words) /\ Twice(h, ":")
      BY <1>9, HostText, Vocabulary
    <3>5. p \in Seq(Words)
      BY PartTypes
    <3>6. Body(u) = b \o p
      BY <1>9, BodyHead
    <3> HIDE DEF open, shut, h, p
    <3>7. oh \in Seq(Words) /\ Twice(oh, ":")
      BY <3>2, <3>4, Joined, TwiceJoined
    <3> HIDE DEF oh
    <3>8. b \in Seq(Words) /\ Twice(b, ":")
      BY <3>3, <3>7, Joined, TwiceJoined
    <3> HIDE DEF b
    <3>9. Twice(b \o p, ":")
      BY <3>5, <3>8, TwiceJoined
    <3>10. Body(u) \in Seq(Words) /\ Twice(Body(u), ":")
      BY <3>6, <3>9, PartTypes
    <3> HIDE DEF w
    <3>11. Twice(w \o Body(u), ":")
      BY <1>4, <3>10, TwiceJoined
    <3> QED
      BY <1>1, <1>3, <3>11, TwoMarks
  <2> QED
    BY <1>2, <2>1, <2>2, <2>3
<1> QED
  BY <1>7, <1>8, <1>9, Vocabulary

LEMMA UserRead ==
    ASSUME NEW u \in Readable, u.schema # NoWord \/ PlainStart(u)
    PROVE  userid(Text(u)) = IF u.user = NoWord THEN <<>> ELSE <<u.user>>
<1> DEFINE known == {"sip", "sips", "tcp", "udp", "iax", "h323"}
           t == Text(u)
           s == IF \E w \in known : Schema(t, w) THEN Tail(Tail(t)) ELSE t
<1>1. userid(t) = IF Has(s, "@") THEN Before(s, "@") ELSE <<>>
  BY DEF userid
<1>2. CASE u.schema # NoWord
  <2>1. u.schema \in known
    BY <1>2 DEF Readable
  <2>2. s = Rest(u)
    BY <1>2, <2>1, SchemaRead
  <2> QED
    BY <1>1, <2>2, UserCut
<1>3. CASE u.schema = NoWord
  <2>1. t = Rest(u)
    BY <1>3, SchemaRead
  <2>2. CASE u.user # NoWord
    <3>1. ~\E w \in known : Schema(t, w)
      BY <2>1, <2>2, RestHead DEF Schema
    <3>2. s = Rest(u)
      BY <2>1, <3>1
    <3> QED
      BY <1>1, <2>2, <3>2, UserCut
  <2>3. CASE u.user = NoWord
    <3>1. ~Has(t, "@") /\ t \in Seq(Words)
      BY <2>1, <2>3, UserCut, PartTypes
    <3> HIDE DEF t
    <3>2. ASSUME NEW w, Schema(t, w) PROVE ~Has(Tail(Tail(t)), "@")
      <4>1. Len(t) >= 2 /\ Len(t) \in Nat /\ t # <<>>
        BY <3>1, <3>2, EmptySeq DEF Schema
      <4> DEFINE r == Tail(t)
      <4>2. r \in Seq(Words) /\ Len(r) = Len(t) - 1 /\ \A i \in 1 .. Len(r) : r[i] = t[i + 1]
        BY <3>1, <4>1, HeadTailProperties
      <4> HIDE DEF r
      <4>3. r # <<>>
        BY <4>1, <4>2, EmptySeq
      <4> DEFINE q == Tail(r)
      <4>4. q \in Seq(Words) /\ Len(q) = Len(r) - 1 /\ \A i \in 1 .. Len(q) : q[i] = r[i + 1]
        BY <4>2, <4>3, HeadTailProperties
      <4> HIDE DEF q
      <4>5. \A i \in 1 .. Len(q) : i + 2 \in 1 .. Len(t) /\ q[i] = t[i + 2]
        BY <4>1, <4>2, <4>4
      <4>6. ~Has(q, "@")
        BY <3>1, <4>5 DEF Has, Contains
      <4> QED
        BY <4>6 DEF q, r
    <3>3. ~Has(s, "@")
      BY <3>1, <3>2
    <3> QED
      BY <1>1, <2>3, <3>3 DEF t
  <2> QED
    BY <2>2, <2>3
<1> QED
  BY <1>2, <1>3

-------------------------------------------------------------------------------
(* What route chooses and what set looks up *)

\* What the URI means, as TargetMeant says it.
MeantContext(u) == CASE u.schema = "sips" -> "tls"
                     [] u.schema \in {"tcp", "udp"} -> u.schema
                     [] OTHER -> setup.protocol

MeantPort(u) == IF u.port # NoWord /\ ~PortMisread(u) THEN u.port
                ELSE IF u.schema = "sips" THEN "5061" ELSE "5060"

MeantService(u) ==
    [svc |-> IF u.schema = "sips" THEN "sips" ELSE "sip",
     protocol |-> CASE u.schema \in {"tcp", "udp"} -> u.schema
                    [] u.schema = "sips" -> "tcp"
                    [] OTHER -> setup.protocol]

\* A URI of the configuration is one of these.
LEMMA UriReadable == ASSUME NEW u \in Uris
                     PROVE  u \in Readable /\ (~HostMisread(u) => u.schema # NoWord \/ PlainStart(u))
<1>1. u \in Readable
  BY WordsKnown DEF Uris, Readable
<1> QED
  BY <1>1 DEF HostMisread, PlainStart

\* The context that route chooses is the one of the schema.
LEMMA ContextChosen ==
    ASSUME NEW u \in Readable, u.schema # NoWord \/ PlainStart(u), Chosen(Text(u)) # NoContext
    PROVE  Chosen(Text(u)) = MeantContext(u)
<1>1. /\ Schema(Text(u), "sips") <=> u.schema = "sips"
      /\ Schema(Text(u), "tcp") <=> u.schema = "tcp"
      /\ Schema(Text(u), "udp") <=> u.schema = "udp"
  <2>1. "sips" \in Lower /\ "tcp" \in Lower /\ "udp" \in Lower
    BY WordsKnown
  <2> QED
    BY <2>1, SchemaRead
<1> QED
  BY <1>1 DEF Chosen, MeantContext

\* A number is no name of a service.
LEMMA PortKept == ASSUME NEW p \in Ports PROVE HostPort(p) = p /\ p # NoWord
<1>1. p \notin {"sip", "sips", "iax", "h323cs"} /\ p # NoWord
  BY WordsKnown
<1> QED
  BY <1>1 DEF HostPort

\* A local name or an address is written anew, with a port.
LEMMA Rewritten ==
    ASSUME NEW u \in Readable, u.schema # NoWord \/ PlainStart(u), u.host \notin Domains
    PROVE  LET l == Lookup(Sid(Text(u)))
           IN  l.host = u.host /\ ~l.srv /\ HostPort(l.service.svc) = MeantPort(u)
<1> DEFINE schema == IF u.schema = "sips" THEN "sips" ELSE "sip"
           port == MeantPort(u)
           v == [schema |-> schema, user |-> NoWord, host |-> u.host,
                 bracket |-> Has(u.host, ":"), port |-> port]
           s == Text(v)
<1>1. portid(Text(u)) = (IF PortMisread(u) THEN NoWord ELSE u.port) /\ hostid(Text(u)) = u.host
  BY PortRead, HostRead
<1>2. Schema(Text(u), "sips") <=> u.schema = "sips"
  BY SchemaRead, WordsKnown
<1>3. Sid(Text(u)) =
          <<schema, ":">> \o (IF Has(u.host, ":") THEN <<"[">> \o u.host \o <<"]">> ELSE u.host)
          \o <<":", port>>
  BY <1>1, <1>2 DEF Sid, MeantPort
<1>4. port \in Ports /\ port # NoWord /\ schema # NoWord
  <2>1. u.port # NoWord => u.port \in Ports
    BY Vocabulary
  <2>2. port \in Ports
    BY <2>1, WordsKnown DEF MeantPort
  <2> QED
    BY <2>2, PortKept, WordsKnown
<1>5. v \in Readable
  <2>1. u.host \in Hosts
    BY HostText
  <2>2. Has(u.host, ":") \in BOOLEAN
    BY DEF Has, Contains
  <2> HIDE DEF port
  <2> QED
    BY <1>4, <2>1, <2>2 DEF Readable
<1>6. v.schema # NoWord /\ v.user = NoWord /\ v.port = port /\ v.host = u.host
  BY <1>4
<1>7. s = Sid(Text(u))
  <2> DEFINE a == <<schema, ":">>
             h == IF Has(u.host, ":") THEN <<"[">> \o u.host \o <<"]">> ELSE u.host
             p == <<":", port>>
  <2>1. s = ((Word(v.schema, ":") \o Word(v.user, "@")) \o h) \o p
    <3>1. v.bracket = Has(u.host, ":")
      OBVIOUS
    <3>2. (IF v.bracket THEN <<"[">> \o v.host \o <<"]">> ELSE v.host) = h
      BY <1>6, <3>1
    <3>3. (IF v.port = NoWord THEN <<>> ELSE <<":", v.port>>) = p
      BY <1>4, <1>6
    <3> HIDE DEF v, h, p
    <3> QED
      BY <3>2, <3>3 DEF Text
  <2>2. Word(v.schema, ":") = a /\ Word(v.user, "@") = <<>>
    BY <1>6 DEF Word
  <2>3. a \o <<>> = a
    <3>1. a \in Seq(Words)
      BY <1>5, <2>2, PartTypes
    <3> HIDE DEF a
    <3> QED
      BY <3>1, ConcatEmptySeq
  <2> HIDE DEF a, h, p, s
  <2>4. s = (a \o h) \o p
    BY <2>1, <2>2, <2>3
  <2> QED
    BY <1>3, <2>4 DEF a, h, p
<1> HIDE DEF v, port, schema
<1>8. portid(s) = port /\ hostid(s) = u.host
  BY <1>5, <1>6, PortRead, HostRead DEF PortMisread
<1> HIDE DEF s
<1>9. Cut(s) = s
  BY <1>4, <1>8 DEF Cut
<1>10. nosrv(s) /\ Service(s, setup.protocol) = [svc |-> port, protocol |-> setup.protocol]
  BY <1>4, <1>8 DEF nosrv, Service
<1>11. /\ Lookup(s).host = u.host /\ ~Lookup(s).srv
       /\ Lookup(s).service.svc = port
  <2>1. /\ Lookup(s).host = hostid(Cut(s)) /\ Lookup(s).srv = ~nosrv(s)
        /\ Lookup(s).service = Service(s, setup.protocol)
    BY DEF Lookup
  <2>2. Lookup(s).host = u.host
    BY <1>8, <1>9, <2>1
  <2>3. ~Lookup(s).srv
    BY <1>10, <2>1, Zenon
  <2>4. Lookup(s).service.svc = port
    BY <1>10, <2>1
  <2> QED
    BY <2>2, <2>3, <2>4
<1>12. HostPort(port) = MeantPort(u)
  BY <1>4, PortKept DEF port
<1> QED
  BY <1>7, <1>11, <1>12

\* A name in a domain stays as it is written, and is a service unless it has a port.
LEMMA LookedUp ==
    ASSUME NEW u \in Readable, u.schema # NoWord \/ PlainStart(u), u.host \in Domains
    PROVE  LET l == Lookup(Sid(Text(u)))
           IN  /\ l.host = u.host
               /\ l.srv => u.port = NoWord /\ l.service = MeantService(u)
               /\ HostPort(l.service.svc) = MeantPort(u)
<1> DEFINE s == Text(u)
<1>0. ~PortMisread(u)
  <2>1. ~Has(u.host, ":")
    BY HostsKnown DEF Has
  <2> QED
    BY <2>1, Vocabulary DEF PortMisread
<1>1. portid(s) = u.port /\ hostid(s) = u.host
  BY <1>0, PortRead, HostRead
<1>2. \A w \in {"sip", "sips", "tcp", "udp", "iax"} : Schema(s, w) <=> u.schema = w
  BY SchemaRead, WordsKnown
<1>3. Sid(s) = s
  BY <1>1 DEF Sid
<1>4. /\ u.host \notin Addresses /\ ~Has(u.host, ":") /\ ~u.bracket
      /\ u.host[1] \notin Lower \cup {"h323"}
      /\ u.host[1] # ":"
  <2>1. u.host \in Hosts /\ u.host \notin Addresses /\ u.host[1] \notin Lower \cup {"h323"}
    BY HostsKnown
  <2>2. ~Has(u.host, ":")
    BY <2>1, HostsKnown DEF Has
  <2>3. 1 \in 1 .. Len(u.host)
    BY HostText
  <2>4. u.host[1] # ":"
    BY <2>2, <2>3 DEF Has, Contains
  <2>5. ~u.bracket
    BY <2>2, Vocabulary
  <2> QED
    BY <2>1, <2>2, <2>4, <2>5
<1>5. ~Schema(s, "h323")
  <2>1. CASE u.schema # NoWord
    <3>1. u.schema # "h323"
      BY <2>1 DEF Readable
    <3> QED
      BY <2>1, <3>1, SchemaRead
  <2>2. CASE u.schema = NoWord
    <3>1. s = Rest(u)
      BY <2>2, SchemaRead
    <3>2. u.user # NoWord => Rest(u)[2] = "@"
      BY RestHead
    <3>3. u.user = NoWord => Rest(u)[1] = u.host[1]
      BY <1>4, RestHead
    <3> QED
      BY <1>4, <3>1, <3>2, <3>3 DEF Schema
  <2> QED
    BY <2>1, <2>2
<1>6. hostid(Cut(s)) = u.host
  <2>1. CASE Cut(s) = s
    BY <1>1, <2>1
  <2>2. CASE Cut(s) # s
    <3>1. u.schema \in {"tcp", "udp"} /\ Cut(s) = Tail(Tail(s))
      BY <1>2, <2>2 DEF Cut
    <3>2. u.schema # NoWord
      BY <3>1, WordsKnown
    <3> DEFINE v == [u EXCEPT !.schema = NoWord]
    <3>3. /\ v \in Readable /\ v.schema = NoWord /\ v.user = u.user /\ v.host = u.host
          /\ v.bracket = u.bracket /\ v.port = u.port
      BY DEF Readable
    <3>4. PlainStart(v)
      BY <1>4, <3>3 DEF PlainStart
    <3> HIDE DEF v
    <3>5. Rest(v) = Rest(u)
      <4>1. HostPart(v) = HostPart(u)
        BY <3>3 DEF HostPart
      <4>2. PortPart(v) = PortPart(u)
        BY <3>3 DEF PortPart
      <4> QED
        BY <3>3, <4>1, <4>2 DEF Rest, Body
    <3>6. Text(v) = Rest(u)
      BY <3>3, <3>4, <3>5, SchemaRead
    <3>7. Cut(s) = Text(v)
      BY <3>1, <3>2, <3>6, SchemaRead
    <3> QED
      BY <3>3, <3>4, <3>7, HostRead
  <2> QED
    BY <2>1, <2>2
<1> HIDE DEF s
<1>7. nosrv(s) <=> u.port # NoWord
  BY <1>1, <1>4, <1>6 DEF nosrv
<1>8. u.port # NoWord => Service(s, setup.protocol).svc = u.port
  BY <1>1 DEF Service
<1>9. u.port = NoWord => Service(s, setup.protocol) = MeantService(u)
  <2> SUFFICES ASSUME u.port = NoWord PROVE Service(s, setup.protocol) = MeantService(u)
    OBVIOUS
  <2>1. u.schema \in {NoWord, "sip", "sips", "tcp", "udp"}
    BY DEF Readable
  <2>2. u.schema # "iax"
    BY <2>1, WordsKnown
  <2> QED
    BY <1>1, <1>2, <1>5, <2>1, <2>2, WordsKnown DEF Service, MeantService
<1>10. /\ Lookup(s).host = u.host /\ Lookup(s).service = Service(s, setup.protocol)
       /\ Lookup(s).srv <=> ~nosrv(s)
  BY <1>6 DEF Lookup
<1>11. HostPort(Service(s, setup.protocol).svc) = MeantPort(u)
  <2>1. CASE u.port # NoWord
    BY <1>0, <1>8, <2>1, Vocabulary, PortKept DEF MeantPort
  <2>2. CASE u.port = NoWord
    BY <1>9, <2>2 DEF MeantPort, MeantService, HostPort
  <2> QED
    BY <2>1, <2>2
<1> QED
  BY <1>3, <1>7, <1>9, <1>10, <1>11 DEF s

-------------------------------------------------------------------------------
(* The way through route and set *)

\* What route and set read of the text stays what it is until the next
\* registration.
Reading == pc # "ready" => /\ asked \in Uris
                           /\ ctx = Chosen(Text(asked))
                           /\ look = Lookup(Sid(Text(asked)))

\* Only a service query has records.  The entry in use is one of them, the first
\* address, or none; records that were given up are in use only if a name could
\* not be read and no address was found.
Records ==
    /\ pc \in {"ready", "query", "answers", "host", "resolved", "done"}
    /\ pc \in {"query", "answers"} => look.srv
    /\ pc \in {"ready", "query", "answers"} => list = 0
    /\ pc \in {"ready", "query"} => entry = NoEntry
    /\ pc = "answers" => srvlist \in Seq(Ports)
    /\ entry.in \in {"none", "srvlist", "list"}
    /\ entry.in = "none" => entry = NoEntry
    /\ entry.in = "srvlist" => look.srv
    /\ pc = "host" /\ entry.in = "srvlist" => broken
    /\ pc \in {"resolved", "done"} /\ Dangling => broken /\ list = 0

\* What route returns.
Returned ==
    /\ pc # "done" => result = Nothing
    /\ pc = "done" => /\ result = Nothing \/ Dangling \/ (entry # NoEntry /\ result = Found)
                      /\ aor = IF result.context = NoContext THEN <<>>
                               ELSE AddressOfRecord(Text(asked))

RouteInv == Reading /\ Records /\ Returned

\* The invariant holds at first, is kept by every step, and gives the property.
LEMMA RouteInit == Init => RouteInv
BY DEF Init, RouteInv, Reading, Records, Returned, NoEntry, Dangling

LEMMA RouteStep == RouteInv /\ [Next]_vars => RouteInv'
<1> SUFFICES ASSUME RouteInv, [Next]_vars PROVE RouteInv'
  OBVIOUS
<1> USE DEF RouteInv
<1>1. ASSUME NEW u \in Uris, Route(u) PROVE RouteInv'
  <2>1. /\ pc = "ready" /\ asked' = u /\ setup' = setup
        /\ ctx' = Chosen(Text(u)) /\ look' = Lookup(Sid(Text(u)))
        /\ pc' = IF look'.srv THEN "query" ELSE "host"
        /\ UNCHANGED <<srvlist, left, list, entry, broken, result, aor>>
    BY <1>1 DEF Route
  <2>2. Reading'
    BY <2>1 DEF Reading, Chosen, Lookup
  <2>3. Records'
    <3>1. entry' = NoEntry /\ entry'.in = "none" /\ list' = list
      BY <2>1 DEF Records, NoEntry
    <3>2. pc' \in {"query", "host"} /\ (pc' = "query" => look'.srv)
      BY <2>1, Zenon
    <3> QED
      BY <2>1, <3>1, <3>2 DEF Records, Dangling
  <2>4. Returned'
    BY <2>1 DEF Returned
  <2> QED
    BY <2>2, <2>3, <2>4
<1>2. ASSUME Query PROVE RouteInv'
  <2>1. Reading'
    BY <1>2 DEF Query, Reading, Chosen, Lookup
  <2>2. Records'
    <3>1. <<>> \in Seq(Ports)
      OBVIOUS
    <3>2. entry' = NoEntry /\ entry'.in = "none"
      BY <1>2 DEF Query, Records, NoEntry
    <3> QED
      BY <1>2, <3>1, <3>2 DEF Query, Records, Dangling
  <2>3. Returned'
    BY <1>2 DEF Query, Returned
  <2> QED
    BY <2>1, <2>2, <2>3
<1>3. ASSUME Answer PROVE RouteInv'
  <2>1. pc = "answers" /\ UNCHANGED <<setup, asked, ctx, look, list, result, aor>>
    BY <1>3 DEF Answer
  <2>2. look.srv /\ list = 0 /\ srvlist \in Seq(Ports) /\ srvlist # NoList
    BY <2>1, ListsKnown DEF Records
  <2>3. pc' \in {"answers", "resolved", "host"}
    BY <1>3, <2>1 DEF Answer, Skip, Accept, BrokenTarget, BrokenName, EndOfReply
  <2>4. Reading'
    BY <2>1, <2>3 DEF Reading, Chosen, Lookup
  <2>5. Returned'
    BY <2>1, <2>3 DEF Returned
  <2>6. Records'
    <3>1. CASE Skip \/ BrokenTarget \/ EndOfReply
      <4>1. UNCHANGED <<srvlist, entry, broken>> /\ pc' \in {"answers", "resolved"}
        BY <2>1, <3>1 DEF Skip, BrokenTarget, EndOfReply
      <4> QED
        BY <2>1, <2>2, <4>1 DEF Records, Dangling
    <3>2. CASE BrokenName
      <4>1. /\ srvlist' = NoList /\ pc' = "host" /\ entry' = entry
            /\ broken' = (entry # NoEntry)
        BY <3>2 DEF BrokenName
      <4>2. entry.in = "srvlist" => entry # NoEntry
        BY DEF NoEntry
      <4>3. entry'.in = "srvlist" => broken'
        BY <4>1, <4>2, Zenon
      <4> QED
        BY <2>1, <2>2, <4>1, <4>3 DEF Records, Dangling
    <3>3. ASSUME NEW port \in Ports, Accept(port) PROVE Records'
      <4>1. /\ srvlist' = Append(srvlist, port) /\ pc' = pc /\ broken' = broken
            /\ entry' = [in |-> "srvlist", at |-> Len(srvlist) + 1]
        BY <3>3 DEF Accept
      <4>2. srvlist' \in Seq(Ports)
        BY <2>2, <4>1, AppendProperties
      <4>3. entry'.in = "srvlist"
        BY <4>1
      <4> QED
        BY <2>1, <2>2, <4>1, <4>2, <4>3 DEF Records, Dangling
    <3> QED
      BY <1>3, <3>1, <3>2, <3>3 DEF Answer
  <2> QED
    BY <2>4, <2>5, <2>6
<1>4. ASSUME Host PROVE RouteInv'
  <2>1. Reading'
    BY <1>4 DEF Host, Reading, Chosen, Lookup
  <2>2. Records'
    <3>1. /\ pc = "host" /\ pc' = "resolved" /\ list' \in 0 .. 1
          /\ entry' = IF list' > 0 THEN [in |-> "list", at |-> 1] ELSE entry
          /\ UNCHANGED <<look, srvlist, broken>>
      BY <1>4 DEF Host
    <3>2. CASE list' > 0
      <4>1. entry'.in = "list"
        BY <3>1, <3>2
      <4> QED
        BY <3>1, <4>1 DEF Records, Dangling
    <3>3. CASE list' = 0
      <4>1. entry' = entry
        BY <3>1, <3>3
      <4> QED
        BY <3>1, <3>3, <4>1 DEF Records, Dangling
    <3> QED
      BY <3>1, <3>2, <3>3
  <2>3. Returned'
    BY <1>4 DEF Host, Returned
  <2> QED
    BY <2>1, <2>2, <2>3
<1>5. ASSUME Return PROVE RouteInv'
  <2>1. /\ pc = "resolved" /\ pc' = "done"
        /\ UNCHANGED <<setup, asked, ctx, look, srvlist, left, list, entry, broken>>
        /\ result' = Nothing \/ Dangling \/ (entry # NoEntry /\ result' = Found)
        /\ aor' = IF result'.context = NoContext THEN <<>> ELSE AddressOfRecord(Text(asked))
    BY <1>5 DEF Return
  <2>2. Reading'
    BY <2>1 DEF Reading, Chosen, Lookup
  <2>3. Records'
    BY <2>1 DEF Records, Dangling
  <2>4. Returned'
    BY <2>1 DEF Returned, Dangling, Found
  <2> QED
    BY <2>2, <2>3, <2>4
<1>6. ASSUME Clear PROVE RouteInv'
  BY <1>6 DEF Clear, Reading, Records, Returned, NoEntry, Dangling
<1>7. ASSUME UNCHANGED vars PROVE RouteInv'
  <2>1. Reading'
    BY <1>7 DEF vars, Reading, Chosen, Lookup
  <2>2. Records'
    BY <1>7 DEF vars, Records, Dangling
  <2>3. Returned'
    BY <1>7 DEF vars, Returned, Dangling, Found
  <2> QED
    BY <2>1, <2>2, <2>3
<1> QED
  BY <1>1, <1>2, <1>3, <1>4, <1>5, <1>6, <1>7 DEF Next

LEMMA RouteMeant == RouteInv => RouteNamesTarget
<1> SUFFICES ASSUME RouteInv, result.context # NoContext, ~HostMisread(asked),
                    ~(broken /\ list = 0)
             PROVE  TargetMeant
  BY DEF RouteNamesTarget
<1> DEFINE u == asked
<1>1. pc = "done" /\ result # Nothing
  BY DEF RouteInv, Returned, Nothing
<1>2. result = Found /\ entry # NoEntry /\ ~Dangling
  BY <1>1 DEF RouteInv, Returned, Records
<1>3. u \in Uris /\ ctx = Chosen(Text(u)) /\ look = Lookup(Sid(Text(u)))
  BY <1>1 DEF RouteInv, Reading
<1>4. u \in Readable /\ (u.schema # NoWord \/ PlainStart(u))
  BY <1>3, UriReadable
<1> SUFFICES /\ result.context = MeantContext(u)
             /\ result.host = u.host
             /\ IF entry.in = "list" THEN result.port = MeantPort(u)
                ELSE /\ u.port = NoWord /\ u.host \in Domains
                     /\ result.service = MeantService(u)
  BY DEF TargetMeant, MeantContext, MeantPort, MeantService
<1>5. /\ result.context = ctx /\ result.host = look.host /\ result.service = look.service
      /\ entry.in = "list" => result.port = HostPort(look.service.svc)
  BY <1>2 DEF Found
<1>6. result.context = MeantContext(u)
  BY <1>3, <1>4, <1>5, ContextChosen
<1>7. entry.in # "list" => look.srv
  BY <1>2 DEF RouteInv, Records
<1>8. /\ look.host = u.host /\ HostPort(look.service.svc) = MeantPort(u)
      /\ look.srv => u.port = NoWord /\ u.host \in Domains /\ look.service = MeantService(u)
  BY <1>3, <1>4, Rewritten, LookedUp
<1> QED
  BY <1>5, <1>6, <1>7, <1>8

LEMMA IdentityMeant == RouteInv => IdentityNamed
<1> SUFFICES ASSUME RouteInv, result.context # NoContext, ~HostMisread(asked)
             PROVE  aor = <<"sip", ":">> \o (IF asked.user = NoWord THEN <<>> ELSE <<asked.user>>)
                          \o <<"@">> \o asked.host
  BY DEF IdentityNamed
<1>1. pc = "done"
  BY DEF RouteInv, Returned, Nothing
<1>2. asked \in Readable /\ (asked.schema # NoWord \/ PlainStart(asked))
  BY <1>1, UriReadable DEF RouteInv, Reading
<1>3. aor = AddressOfRecord(Text(asked))
  BY <1>1 DEF RouteInv, Returned
<1>4. /\ userid(Text(asked)) = IF asked.user = NoWord THEN <<>> ELSE <<asked.user>>
      /\ hostid(Text(asked)) = asked.host
  BY <1>2, UserRead, HostRead
<1> QED
  BY <1>3, <1>4 DEF AddressOfRecord

LEMMA RouteInvHolds == Spec => []RouteInv
BY RouteInit, RouteStep, PTL DEF Spec

\* For every choice of schemata, users, hosts and ports, and however the
\* resolver answers, srv::route sends a registration that it gives a context to
\* the host, port and service that its URI means, but for the texts and the
\* replies that RouteNamesTarget excepts.
THEOREM RoutesSafe == Spec => []RouteNamesTarget
<1> QED
  BY RouteInvHolds, RouteMeant, PTL

\* For every choice of schemata, users, hosts and ports, and however the
\* resolver answers, the address of record of the constructor names the user and
\* the host of the identity, but for the texts whose host is misread.
THEOREM IdentitiesSafe == Spec => []IdentityNamed
<1> QED
  BY RouteInvHolds, IdentityMeant, PTL
===============================================================================
