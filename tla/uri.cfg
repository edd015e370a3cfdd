CONSTANTS
    Schemas <- MCSchemas
    Users <- MCUsers
    Hosts <- MCHosts
    Domains <- MCDomains
    Addresses <- MCAddresses
    Ports = {"5060", "5061", "5080"}
    Lower = {"sip", "sips", "tcp", "udp", "iax", "pbx", "myid", "fd"}
    NoWord = NoWord
    NoContext = NoContext
    NoList = NoList
    MaxAnswers = 2
SPECIFICATION Spec
INVARIANTS
    RouteNamesTarget
    IdentityNamed
