-------------------------------- MODULE MCUri ---------------------------------
(* A local name, a name in a domain, and addresses of both families. *)
EXTENDS Uri

MCAddresses == {<<"10.0.0.1">>, <<"fe80", ":", ":", "1">>, <<"fd", ":", ":", "1">>, <<":", ":", "1">>}
MCDomains == {<<"sip.example">>}
MCHosts == MCAddresses \cup MCDomains \cup {<<"pbx">>, <<"box.local">>}
MCSchemas == {NoWord, "sip", "sips", "tcp", "udp"}
MCUsers == {NoWord, "myid", "100"}
===============================================================================
