-------------------------- MODULE MCClientSession --------------------------
(* Small instances of ClientSession for TLC. *)
EXTENDS ClientSession

\* A short hello and a small identity, in storage of one record.
SmallSize(mode, alpns) ==
    [params |-> IF mode = "Quic" THEN 60 ELSE 0, hostname |-> 11,
     alpns |-> IF alpns = {} THEN 0 ELSE 12, ticket |-> 132,
     certificate |-> 900, signature |-> 72, flight |-> MAX_PLAINTEXT_BODY]

Config(mode, verifier, identity, suites, alpns, early) ==
    [mode |-> mode, verifier |-> verifier, identity |-> identity, suites |-> suites,
     group |-> "X25519", alpns |-> alpns, early |-> early, size |-> SmallSize(mode, alpns),
     tunes |-> FALSE, peer |-> "Any", sinkFails |-> TRUE]

Sha256Suites == {"Aes128GcmSha256", "ChaCha20Poly1305Sha256"}

MixedSuites == {"Aes128GcmSha256", "Aes256GcmSha384"}

\* Both transports, both verifiers, with and without a client identity.
Endpoints ==
    {Config("Tls", "X509Store", TRUE, MixedSuites, {"h2", "http/1.1"}, TRUE),
     Config("Tls", "RawPublicKey", FALSE, MixedSuites, {}, TRUE),
     Config("Tls", "X509Store", FALSE, {"Aes256GcmSha384"}, {"h2"}, TRUE),
     Config("Quic", "X509Store", FALSE, MixedSuites, {"h2"}, TRUE),
     Config("Quic", "RawPublicKey", TRUE, MixedSuites, {"h2"}, FALSE)}

CompliantConfigs ==
    {[c EXCEPT !.suites = Sha256Suites, !.peer = "Compliant", !.sinkFails = f] :
        c \in Endpoints, f \in BOOLEAN}

\* A client whose application sets group and suites, with a ticket that leaves
\* no byte of the first record, and one byte too many for it.
Tuned ==
    [Config("Tls", "X509Store", TRUE, Suites, {"h2"}, TRUE) EXCEPT !.tunes = TRUE, !.peer = "Compliant"]

Room ==
    MAX_PLAINTEXT_BODY
      - HelloLen([Tuned EXCEPT !.size.ticket = 0],
                 ClientHello(Suites, <<"X25519Mlkem768">>, Ticket("Aes128GcmSha256", None, TRUE), TRUE,
                             Tuned.alpns, {"client"}),
                 MAX_CLIENT_SHARE_LEN)

TunedConfigs == {[Tuned EXCEPT !.size.ticket = Room], [Tuned EXCEPT !.size.ticket = Room + 1]}

\* An identity that takes more than one record, and storage for it.
LongIdentity ==
    [Config("Tls", "X509Store", TRUE, MixedSuites, {"h2"}, TRUE)
        EXCEPT !.size.certificate = 20000, !.size.flight = 20132, !.peer = "Compliant"]

\* An arbitrary server, and one that follows the protocol with a client whose
\* suites all resume.
MCConfigs == Endpoints \cup CompliantConfigs \cup TunedConfigs \cup {LongIdentity}

\* What the application passes to set_cipher_suites; the last list has no
\* suite of this library.
MCSuiteLists == {{"Aes256GcmSha384", "Aes128CcmSha256"}, {"Aes128CcmSha256"}}

\* The cookie that fills the second hello of a tuned client up to the record
\* when its share shrinks to the smallest, and one that fits long storage only.
FullCookie == MAX_CLIENT_SHARE_LEN - ClientShareLen("X25519")

Cookies == {FullCookie, FullCookie + 1, 19000}

\* The long identity alone.
MCLayoutConfigs == {LongIdentity}

\* A server that follows the protocol, with a client that mixes hashes.
MCRetryConfigs == {[c EXCEPT !.peer = "Compliant", !.sinkFails = FALSE] : c \in Endpoints}

MCTickets ==
    {NoTicket,
     Ticket("Aes128GcmSha256", None, FALSE),
     Ticket("Aes128GcmSha256", None, TRUE),
     Ticket("Aes128GcmSha256", "h2", TRUE)}

WellFormedInputs(suites) ==
    {ServerHello(TRUE, s, g, p) : s \in suites, g \in {"X25519", "Secp256r1"}, p \in {None, "First", "Other"}}
        \cup {HelloRetryRequest(TRUE, s, g) : s \in suites, g \in {"X25519", "Secp256r1"}}
        \cup {EncryptedExtensions(TRUE, t, q, a, e) :
                t \in {{}, {"client"}, {"server", "client"}}, q \in BOOLEAN,
                a \in {None, "h2"}, e \in BOOLEAN}
        \cup {CertificateRequest(TRUE, a) : a \in BOOLEAN}
        \cup {Certificate("Valid"), NewSessionTicket(TRUE, TRUE, NoTicket), KeyUpdate}

MCInputs ==
    WellFormedInputs(Sha256Suites \cup MixedSuites)
        \cup {[HelloRetryRequest(TRUE, "Aes128GcmSha256", g) EXCEPT !.cookie = n] :
                g \in {"X25519", "Secp256r1"}, n \in Cookies}
        \cup {ServerHello(FALSE, "Aes128GcmSha256", "X25519", None),
              HelloRetryRequest(FALSE, "Aes128GcmSha256", "Secp256r1"),
              EncryptedExtensions(FALSE, {}, FALSE, None, FALSE),
              CertificateRequest(FALSE, TRUE), Certificate("Empty"), Certificate("Invalid"),
              NewSessionTicket(FALSE, TRUE, NoTicket), NewSessionTicket(TRUE, FALSE, NoTicket), EndOfEarlyData}
=============================================================================
