---------------------------- MODULE MCHandshake ----------------------------
(* Small instances of Handshake for TLC. *)
EXTENDS Handshake

MCAlpns == <<"ftp", "h2", "h3">>

Choice == INSTANCE Negotiation WITH AlpnsByBytes <- MCAlpns

ClientConfig(mode, verifier, identity, suites, alpns) ==
    [mode |-> mode, verifier |-> verifier, identity |-> identity, suites |-> suites,
     group |-> "X25519", alpns |-> alpns, early |-> TRUE, sinkFails |-> FALSE,
     size |-> [params |-> 0, hostname |-> 11, alpns |-> 3, ticket |-> 132, certificate |-> 900,
               signature |-> 72, flight |-> 16384]]

ServerConfig(mode, clientAuth, certType, alpns, guard, ticketKeys) ==
    [mode |-> mode, clientAuth |-> clientAuth, certType |-> certType, alpn |-> Choice!Prepare(alpns),
     guard |-> guard, ticketKeys |-> ticketKeys, sinkFails |-> FALSE,
     size |-> [params |-> 0, alpn |-> [h2 |-> 2, h3 |-> 2], certificate |-> 3000, signature |-> 72]]

Pair(client, server) == [client |-> client, server |-> server]

Sha384 == {"Aes256GcmSha384"}

Mixed == {"Aes128GcmSha256", "Aes256GcmSha384"}

\* Pairs that differ in transport, in what they have in common and in who
\* authenticates; some have nothing in common and fail.
AllPairs ==
    {Pair(ClientConfig("Tls", "X509Store", i, s, a), ServerConfig("Tls", auth, "X509", <<"h2">>, TRUE, TRUE)) :
        i \in BOOLEAN, s \in {Sha384, Mixed}, a \in {{}, {"h2"}, {"ftp"}},
        auth \in {None, "Requested", "Required"}}
    \cup
    {Pair(ClientConfig("Quic", v, FALSE, Mixed, {"h2"}), ServerConfig("Quic", None, t, <<"h3", "h2">>, g, k)) :
        v \in {"X509Store", "RawPublicKey"}, t \in {"X509", "RawPublicKey"}, g \in BOOLEAN, k \in BOOLEAN}

ReliablePairs == {p \in AllPairs : p.client.verifier = "X509Store" => p.server.certType = "X509"}

\* Each of them with sinks that take every event and with sinks that may not.
MCPairs == {[p EXCEPT !.client.sinkFails = f, !.server.sinkFails = f] : p \in ReliablePairs, f \in BOOLEAN}

MCTickets ==
    {NoTicket} \cup {Ticket("Aes128GcmSha256", a, e) : a \in {None, "h2"}, e \in BOOLEAN}
=============================================================================
