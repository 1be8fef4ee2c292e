-------------------------- MODULE MCServerSession --------------------------
(* Small instances of ServerSession for TLC. *)
EXTENDS ServerSession, TLC

\* A raw public key or a chain; as many transport parameters as there is room for.
Size(mode, certType) ==
    [params |-> IF mode = "Quic" THEN 65000 ELSE 0, alpn |-> "h2" :> 2 @@ "http/1.1" :> 8,
     certificate |-> IF certType = "X509" THEN 3000 ELSE 57, signature |-> 64]

Config(mode, clientAuth, certType, alpns, guard, ticketKeys) ==
    [mode |-> mode, clientAuth |-> clientAuth, certType |-> certType, alpn |-> Prepare(alpns),
     guard |-> guard, ticketKeys |-> ticketKeys, size |-> Size(mode, certType), peer |-> "Any",
     sinkFails |-> TRUE]

\* Both transports, the three client-auth policies, with and without 0-RTT.
Endpoints ==
    {Config("Tls", None, "X509", <<"http/1.1", "h2", "http/1.1">>, TRUE, TRUE),
     Config("Tls", "Required", "RawPublicKey", <<>>, TRUE, TRUE),
     Config("Tls", "Requested", "X509", <<"h2">>, FALSE, FALSE),
     Config("Quic", None, "RawPublicKey", <<"h2">>, TRUE, TRUE),
     Config("Quic", "Required", "X509", <<"h2">>, FALSE, TRUE)}

\* An arbitrary client, and one that follows the protocol and repeats its
\* ticket age in a retried hello.
MCConfigs ==
    Endpoints
        \cup {[c EXCEPT !.peer = "KeepsAge", !.sinkFails = f] : c \in Endpoints, f \in BOOLEAN}

\* Clients that follow the protocol, of which some compute the age anew.
MCRetryConfigs == {[c EXCEPT !.peer = "Compliant", !.sinkFails = FALSE] : c \in Endpoints}

Sha256Ticket == Ticket("Aes128GcmSha256", None, TRUE)

H2Ticket == Ticket("Aes128GcmSha256", "h2", TRUE)

Full(suites, alpns, certTypes) == ClientHello(suites, <<"X25519">>, NoTicket, FALSE, alpns, certTypes)

\* A client with a group of its own and another order of preference.
Foreign(shares) ==
    [Full({"Aes128GcmSha256"}, {"h2"}, {}) EXCEPT
        !.groups = <<"Ffdhe2048", "X25519Mlkem768", "Secp256r1", "X25519">>, !.shares = shares]

\* Hellos of a client that follows the protocol, without a retry in sight.
PlainHellos ==
    {Full({"Aes128GcmSha256", "Aes256GcmSha384"}, {}, {}),
     Full({"Aes256GcmSha384"}, {"h2"}, {"server", "client"}),
     Full({"ChaCha20Poly1305Sha256"}, {"http/1.1", "h2"}, {"client"}),
     Foreign(<<"Ffdhe2048", "X25519Mlkem768", "Secp256r1">>),
     [ClientHello({"Aes128GcmSha256"}, <<"X25519">>, H2Ticket, FALSE, {"h2"}, {}) EXCEPT !.pskModes = "Psk"]}
        \cup {ClientHello({"Aes128GcmSha256"}, <<"X25519">>, t, e, a, {}) :
                t \in {Sha256Ticket, H2Ticket, Ticket("Aes128GcmSha256", "h2", FALSE)},
                e \in BOOLEAN, a \in {{}, {"h2"}}}

\* First hellos without a usable share, and the hellos that may answer a retry.
RetryHellos ==
    {[ch EXCEPT !.shares = s, !.early = e, !.age = a] :
        ch \in {Full({"Aes256GcmSha384"}, {"h2"}, {}),
                ClientHello({"Aes128GcmSha256"}, <<>>, H2Ticket, FALSE, {"h2"}, {})},
        s \in {<<>>, <<"X25519">>}, e \in BOOLEAN, a \in {0, 1}}
    \cup
    {[ClientHello({"Aes128GcmSha256"}, s, H2Ticket, FALSE, {"h2"}, {}) EXCEPT !.groups = <<"X25519Mlkem768">>] :
        s \in {<<>>, <<"X25519Mlkem768">>}}
    \cup
    {Foreign(s) : s \in {<<"Ffdhe2048">>, <<"X25519">>, <<"X25519Mlkem768", "X25519">>}}

\* What a client should not send.
OddHellos ==
    {[Full({"Aes128GcmSha256"}, {}, {}) EXCEPT !.wellFormed = FALSE],
     Full({}, {}, {}),
     Full({"Aes128GcmSha256"}, {"ftp"}, {}),
     [Full({"Aes128GcmSha256"}, {"h2"}, {}) EXCEPT !.groups = <<"Ffdhe2048">>, !.shares = <<>>],
     [Full({"Aes128GcmSha256"}, {"h2"}, {}) EXCEPT !.groups = <<"X25519", "Secp256r1", "X25519">>],
     [Full({"Aes256GcmSha384"}, {"h2"}, {}) EXCEPT !.shares = <<"Secp256r1">>],
     Foreign(<<"X25519", "Secp256r1">>),
     Foreign(<<"Secp256r1", "Secp256r1">>),
     Foreign(<<"Ffdhe3072">>),
     [ClientHello({"Aes128GcmSha256"}, <<"X25519">>, H2Ticket, FALSE, {"h2"}, {}) EXCEPT !.pskModes = None],
     [ClientHello({"Aes128GcmSha256"}, <<"X25519">>, H2Ticket, TRUE, {"h2"}, {})
        EXCEPT !.binder = "Invalid"]}

MCAlpns == <<"ftp", "h2", "http/1.1">>

MCHellos == PlainHellos \cup RetryHellos \cup OddHellos

MCInputs == {EndOfEarlyData, Certificate("Empty"), Certificate("Valid"), Certificate("Invalid"), KeyUpdate}
=============================================================================
