--------------------------------- MODULE Uri ----------------------------------
(***************************************************************************)
(* How a registration finds its server: common/uri.cpp takes a URI apart   *)
(* and looks its host up, as a service (SRV) or as a host, and             *)
(* sipw/srv.cpp chooses the SIP context and writes the server's address.   *)
(*                                                                         *)
(* Text is a sequence of words and of the marks ":", "@", "[" and "]".     *)
(* The resolver library is external: a lookup finds what it likes.         *)
(***************************************************************************)
EXTENDS Integers, Sequences, SequencesExt

CONSTANTS
    Schemas,        \* the schemata of the URIs in the configuration, with NoWord
    Users,          \* the users, with NoWord
    Hosts,          \* the hosts, as text without brackets
    Domains,        \* host texts with a dot, and not in .local or .localdomain
    Addresses,      \* host texts that are numeric addresses
    Ports,          \* the words that are port numbers
    Lower,          \* the words of lower-case letters only, some of them in addresses
    NoWord,         \* no schema, no user, no port
    NoContext,      \* NULL
    NoList,         \* NULL
    MaxAnswers      \* records of a reply to a service query

ASSUME AnswersBounded == MaxAnswers \in Nat \ {0}
ASSUME WordsKnown ==
    /\ Lower \cup Ports \cup (Users \ {NoWord}) \subseteq STRING
    /\ {"sip", "sips", "tcp", "udp", "iax"} \subseteq Lower
    /\ Schemas \subseteq {NoWord, "sip", "sips", "tcp", "udp"}
    /\ {"5060", "5061"} \subseteq Ports
    /\ Ports \intersect (Lower \cup {"h323cs", NoWord, ":", "@", "[", "]"}) = {}
    /\ (Lower \cup Users) \intersect {":", "@", "[", "]"} = {}
    /\ NoWord \notin Lower /\ NoWord \notin {":", "@", "[", "]"}
ASSUME ListsKnown == NoList \notin Seq(Ports)
\* A host is one word, or an address with two colons or more.
ASSUME HostsKnown ==
    /\ Hosts \subseteq Seq(STRING)
    /\ Addresses \subseteq Hosts /\ Domains \subseteq Hosts \ Addresses
    /\ \A h \in Hosts :
          /\ h # <<>>
          /\ \A i \in 1 .. Len(h) : h[i] \notin {"@", "[", "]"}
          /\ IF Contains(h, ":")
             THEN h \in Addresses /\ \E i, j \in 1 .. Len(h) : i # j /\ h[i] = ":" /\ h[j] = ":"
             ELSE Len(h) = 1
    /\ \A h \in Domains : h[1] \notin Lower \cup {"h323"}

VARIABLES
    setup,      \* the protocol of the driver and the contexts that it has
    pc,         \* where the constructor of a registration is
    asked,      \* the URI of its configuration, as what was meant
    ctx,        \* route: the context chosen
    look,       \* set: what to look up
    srvlist,    \* the records accepted from a reply
    left,       \* acount: the records left in the reply
    list,       \* the number of host addresses found
    entry,      \* the address in use: none, a record of srvlist, or list
    broken,     \* a name in the reply could not be read after a record was accepted (history)
    result,     \* what route returned and wrote
    aor         \* the address of record, as text

vars == <<setup, pc, asked, ctx, look, srvlist, left, list, entry, broken, result, aor>>

-------------------------------------------------------------------------------
(* Text *)

Has(s, c) == Contains(s, c)

\* What follows the first c, and what precedes it.
After(s, c) == SubSeq(s, SelectInSeq(s, LAMBDA x : x = c) + 1, Len(s))
Before(s, c) == SubSeq(s, 1, SelectInSeq(s, LAMBDA x : x = c) - 1)

\* strchr and strrchr find the same c.
Single(s, c) == \E i \in 1 .. Len(s) : \A j \in 1 .. Len(s) : s[j] = c <=> j = i

Schema(s, word) == Len(s) >= 2 /\ s[1] = word /\ s[2] = ":"

\* portid and hostid skip lower-case letters in front of a colon.
SkipSchema(s) ==
    IF s # <<>> /\ s[1] = ":" THEN Tail(s)
    ELSE IF \E w \in Lower : Schema(s, w) THEN Tail(Tail(s)) ELSE s

Atoi(s) == IF s # <<>> /\ s[1] \in Ports THEN s[1] ELSE NoWord

\* uri::portid
portid(uri) ==
    LET s == SkipSchema(uri)
    IN  IF s # <<>> /\ s[1] = "["
        THEN IF Has(s, "]") /\ Has(After(s, "]"), ":") THEN Atoi(After(After(s, "]"), ":")) ELSE NoWord
        ELSE IF Single(s, ":") THEN Atoi(After(s, ":")) ELSE NoWord

\* uri::hostid
hostid(uri) ==
    LET s == SkipSchema(uri)
        h == IF Has(s, "@") THEN After(s, "@") ELSE s
    IN  IF h # <<>> /\ h[1] = "[" THEN IF Has(h, "]") THEN Before(Tail(h), "]") ELSE Tail(h)
        ELSE IF Single(h, ":") THEN Before(h, ":") ELSE h

\* Mutant of userid: it takes sip and sips off only, as the others are rare.
useridSipOnly(uri) ==
    LET s == IF Schema(uri, "sip") \/ Schema(uri, "sips") THEN Tail(Tail(uri)) ELSE uri
    IN  IF Has(s, "@") THEN Before(s, "@") ELSE <<>>

\* uri::userid; nothing without an "@".
userid(uri) ==
    LET known == {"sip", "sips", "tcp", "udp", "iax", "h323"}
        s == IF \E w \in known : Schema(uri, w) THEN Tail(Tail(uri)) ELSE uri
    IN  IF Has(s, "@") THEN Before(s, "@") ELSE <<>>

-------------------------------------------------------------------------------
(* The URIs of a configuration *)

Uris == {u \in [schema : Schemas, user : Users, host : Hosts, bracket : BOOLEAN,
                port : Ports \cup {NoWord}] :
            /\ u.bracket => Has(u.host, ":")
            /\ Has(u.host, ":") /\ u.port # NoWord => u.bracket}

Word(w, mark) == IF w = NoWord THEN <<>> ELSE <<w, mark>>

Text(u) ==
    Word(u.schema, ":") \o Word(u.user, "@")
    \o (IF u.bracket THEN <<"[">> \o u.host \o <<"]">> ELSE u.host)
    \o (IF u.port = NoWord THEN <<>> ELSE <<":", u.port>>)

-------------------------------------------------------------------------------
(* What set looks up *)

\* The service and the protocol; a port makes the other tests void.
Service(s, protocol) ==
    IF portid(s) # NoWord THEN [svc |-> portid(s), protocol |-> protocol]
    ELSE CASE Schema(s, "sips")  -> [svc |-> "sips", protocol |-> "tcp"]
           [] Schema(s, "tcp")   -> [svc |-> "sip", protocol |-> "tcp"]
           [] Schema(s, "udp")   -> [svc |-> "sip", protocol |-> "udp"]
           [] Schema(s, "h323")  -> [svc |-> "h323cs", protocol |-> "tcp"]
           [] Schema(s, "iax")   -> [svc |-> "iax", protocol |-> "udp"]
           [] OTHER              -> [svc |-> "sip", protocol |-> protocol]

\* tcp: and udp: are cut off before hostid sees the text.
Cut(s) ==
    IF portid(s) = NoWord /\ (Schema(s, "tcp") \/ Schema(s, "udp")) THEN Tail(Tail(s)) ELSE s

\* A port or a numeric address goes without a service query.
nosrv(s) == portid(s) # NoWord \/ hostid(Cut(s)) \in Addresses

Lookup(s) ==
    [host |-> hostid(Cut(s)), service |-> Service(s, setup.protocol),
     srv |-> ~nosrv(s)]

\* The port of a service that is looked up as a host.
HostPort(svc) ==
    CASE svc = "sips" -> "5061"
      [] svc = "sip" -> "5060"
      [] svc = "h323cs" -> "1720"
      [] svc = "iax" -> "4569"
      [] OTHER -> svc

-------------------------------------------------------------------------------
(* srv::route *)

\* The context by schema; it may not exist.
Chosen(s) ==
    LET c == IF Schema(s, "sips") THEN "tls" ELSE IF Schema(s, "tcp") THEN "tcp"
             ELSE IF Schema(s, "udp") THEN "udp" ELSE setup.protocol
    IN  IF c \in setup.contexts THEN c ELSE NoContext

\* A host that is an address or a local name is written anew, with a port, so
\* that it is not looked up as a service.
Sid(s) ==
    LET schema == IF Schema(s, "sips") THEN "sips" ELSE "sip"
        port == IF portid(s) # NoWord THEN portid(s)
                ELSE IF schema = "sips" THEN "5061" ELSE "5060"
        h == hostid(s)
    IN  IF h \in Domains THEN s
        ELSE <<schema, ":">> \o (IF Has(h, ":") THEN <<"[">> \o h \o <<"]">> ELSE h) \o <<":", port>>

NoEntry == [in |-> "none", at |-> 0]
Nothing == [context |-> NoContext, host |-> <<>>, port |-> NoWord,
            service |-> [svc |-> NoWord, protocol |-> NoWord]]
NoUri == [schema |-> NoWord, user |-> NoWord, host |-> <<>>, bracket |-> FALSE, port |-> NoWord]
NoLookup == [host |-> <<>>, service |-> Nothing.service, srv |-> FALSE]

Init ==
    /\ setup \in {s \in [protocol : {"udp", "tcp"}, contexts : SUBSET {"udp", "tcp", "tls"}] :
                    s.contexts \in {{"udp", "tcp", "tls"}, {"udp", "tcp"}, {s.protocol}}}
    /\ pc = "ready"
    /\ asked = NoUri /\ ctx = NoContext /\ look = NoLookup
    /\ srvlist = NoList /\ left = 0 /\ list = 0
    /\ entry = NoEntry /\ broken = FALSE
    /\ result = Nothing /\ aor = <<>>

\* route chooses the context and calls set, which works out what to look up.
Route(u) ==
    /\ pc = "ready"
    /\ asked' = u
    /\ ctx' = Chosen(Text(u))
    /\ look' = Lookup(Sid(Text(u)))
    /\ pc' = IF look'.srv THEN "query" ELSE "host"
    /\ UNCHANGED <<setup, srvlist, left, list, entry, broken, result, aor>>

\* The service query fails, its reply has no record, or its question cannot be
\* read: the host is looked up instead.  Otherwise the records are read.
Query ==
    /\ pc = "query"
    /\ \/ pc' = "host" /\ UNCHANGED <<srvlist, left>>
       \/ /\ left' \in 1 .. MaxAnswers
          /\ srvlist' = <<>>
          /\ pc' = "answers"
    /\ UNCHANGED <<setup, asked, ctx, look, list, entry, broken, result, aor>>

\* A record of another type, or whose target has no address.
Skip ==
    /\ left > 0
    /\ left' = left - 1
    /\ UNCHANGED <<pc, srvlist, entry, broken>>

\* current is NULL for every record, so each one accepted becomes the entry,
\* whatever its priority and weight.  (count and pri serve only next().)
Accept(port) ==
    /\ left > 0
    /\ left' = left - 1
    /\ srvlist' = Append(srvlist, port)
    /\ entry' = [in |-> "srvlist", at |-> Len(srvlist) + 1]
    /\ UNCHANGED <<pc, broken>>

\* Mutant of BrokenTarget: the records are given up.
BrokenTargetFrees ==
    /\ left > 0
    /\ srvlist' = NoList
    /\ pc' = "resolved"
    /\ UNCHANGED <<left, entry, broken>>

\* The name of a target cannot be read: the loop ends with what there is.
BrokenTarget ==
    /\ left > 0
    /\ pc' = "resolved"
    /\ UNCHANGED <<left, srvlist, entry, broken>>

\* The name of a record cannot be read: the records are given up, entry is
\* not, and the host is looked up.
BrokenName ==
    /\ left > 0
    /\ srvlist' = NoList
    /\ broken' = (entry # NoEntry)
    /\ pc' = "host"
    /\ UNCHANGED <<left, entry>>

\* The loop ends when no record is left, or with the reply.
EndOfReply == pc' = "resolved" /\ UNCHANGED <<left, srvlist, entry, broken>>

Answer ==
    /\ pc = "answers"
    /\ \/ Skip \/ BrokenTarget \/ BrokenName \/ EndOfReply
       \/ \E port \in Ports : Accept(port)
    /\ UNCHANGED <<setup, asked, ctx, look, list, result, aor>>

\* getaddrinfo finds no address, or some, of which the first is used.
Host ==
    /\ pc = "host"
    /\ list' \in 0 .. 1
    /\ entry' = IF list' > 0 THEN [in |-> "list", at |-> 1] ELSE entry
    /\ pc' = "resolved"
    /\ UNCHANGED <<setup, asked, ctx, look, srvlist, left, broken, result, aor>>

\* An entry that points to storage that was given up: undefined.
Dangling == entry.in = "srvlist" /\ srvlist = NoList

Found ==
    IF entry.in = "list"
    THEN [context |-> ctx, host |-> look.host, port |-> HostPort(look.service.svc),
          service |-> look.service]
    ELSE [context |-> ctx, host |-> look.host, port |-> srvlist[entry.at],
          service |-> look.service]

\* What the constructor takes for the identity: always sip, with "@" also where
\* there is no user, and an address with colons without brackets.
AddressOfRecord(s) == <<"sip", ":">> \o userid(s) \o <<"@">> \o hostid(s)

\* route writes the address found, and the constructor the address of record;
\* without an address, or if it cannot be written, there is no context.
Return ==
    /\ pc = "resolved"
    /\ \/ result' = Nothing
       \/ entry # NoEntry /\ ~Dangling /\ result' = Found
       \/ \E h \in Hosts, p \in Ports :
             Dangling /\ result' = [context |-> ctx, host |-> h, port |-> p, service |-> look.service]
    /\ aor' = IF result'.context = NoContext THEN <<>> ELSE AddressOfRecord(Text(asked))
    /\ pc' = "done"
    /\ UNCHANGED <<setup, asked, ctx, look, srvlist, left, list, entry, broken>>

\* The constructor ends, and its resolver with it; that of the next
\* registration holds nothing.
Clear ==
    /\ pc = "done"
    /\ pc' = "ready"
    /\ asked' = NoUri /\ ctx' = NoContext /\ look' = NoLookup
    /\ srvlist' = NoList /\ left' = 0 /\ list' = 0
    /\ entry' = NoEntry /\ broken' = FALSE
    /\ result' = Nothing /\ aor' = <<>>
    /\ UNCHANGED setup

Next == (\E u \in Uris : Route(u)) \/ Query \/ Answer \/ Host \/ Return \/ Clear

Spec == Init /\ [][Next]_vars

-------------------------------------------------------------------------------
(* Properties *)

\* The text of some URIs is misread.  "pbx:5080" loses its host to the search
\* for a schema, "fd::1" its first group, and "::1" its first colon; in
\* "user@[::1]:5080" the address is taken for one without brackets, and the port
\* is not found.
HostMisread(u) ==
    /\ u.schema = NoWord /\ u.user = NoWord /\ ~u.bracket
    /\ \/ u.host[1] = ":"
       \/ u.host[1] \in Lower /\ (u.port # NoWord \/ Has(u.host, ":"))

PortMisread(u) == u.user # NoWord /\ u.bracket /\ u.port # NoWord

\* What route finds is what the URI means: the context is that of its schema,
\* the host is its host, and the port is its port, that of a service record, or
\* that of its schema, also where its own is not found.  Service records are used
\* only without a port and for names in a domain.
TargetMeant ==
    LET u == asked
    IN  /\ result.context = CASE u.schema = "sips" -> "tls"
                              [] u.schema \in {"tcp", "udp"} -> u.schema
                              [] OTHER -> setup.protocol
        /\ result.host = u.host
        /\ IF entry.in = "list"
           THEN result.port = IF u.port # NoWord /\ ~PortMisread(u) THEN u.port
                              ELSE IF u.schema = "sips" THEN "5061" ELSE "5060"
           ELSE /\ u.port = NoWord /\ u.host \in Domains
                /\ result.service.svc = IF u.schema = "sips" THEN "sips" ELSE "sip"
                /\ result.service.protocol = CASE u.schema \in {"tcp", "udp"} -> u.schema
                                               [] u.schema = "sips" -> "tcp"
                                               [] OTHER -> setup.protocol

\* A registration that gets a context is sent to what its URI means, on every way
\* through srv::route and uri::set, and whatever the resolver answers.  Three
\* functions take the text apart in three ways (userid knows the schemata by
\* name, hostid and portid skip any lower-case word), and route writes it anew
\* for set to take apart again.  Two cases are excepted, as the code goes wrong
\* there: a text without a schema whose host is misread, and a name in a reply
\* that could not be read after a record had been accepted, when the host was
\* not found either (see LookupUsed).
RouteNamesTarget ==
    result.context # NoContext /\ ~HostMisread(asked) /\ ~(broken /\ list = 0) => TargetMeant

\* Whatever the resolver did, the address of record that the constructor
\* assembles from the pieces names the user and the host of the identity.
IdentityNamed ==
    result.context # NoContext /\ ~HostMisread(asked) =>
        aor = <<"sip", ":">> \o (IF asked.user = NoWord THEN <<>> ELSE <<asked.user>>)
              \o <<"@">> \o asked.host

-------------------------------------------------------------------------------
(* What the documentation says and the code does not keep: TLC refutes each. *)

\* "a single identity uri is all that is really essential" (bayonne.conf): where
\* its host is looked up, an identity with a schema is enough to say the port.
IdentityEnough ==
    result.context # NoContext /\ entry.in = "list" /\ asked.schema # NoWord
        /\ asked.port # NoWord => result.port = asked.port

\* "srv lookup of identity normally used..." (bayonne.conf): the address that a
\* registration is sent to is one that its lookup holds.
LookupUsed == result.context # NoContext => ~Dangling
===============================================================================
