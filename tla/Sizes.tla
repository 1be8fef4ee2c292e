------------------------------- MODULE Sizes -------------------------------
(***************************************************************************)
(* How many bytes the endpoints send, and how many they announce.  The     *)
(* lengths of the encoded handshake messages come from client/offer.rs,    *)
(* server/session/{hello,retry,resumption}.rs and the encoders of wire/;   *)
(* the bounds come from Offer::maximum_initial_len, the outbound_layout of *)
(* both sides and server/config.rs.  An embedder reserves its transport    *)
(* buffers from an OutboundLayout before the first byte is sent, so a      *)
(* message nobody counted overruns them.                                   *)
(*                                                                         *)
(* A configuration c carries the lengths of what it was given in c.size:   *)
(*   client  params, hostname (0: none or an address), alpns (the encoded  *)
(*           list), ticket (the identity), certificate (the message),      *)
(*           signature, flight (storage for one flight)                    *)
(*   server  params, alpn (the length of each protocol name), certificate, *)
(*           signature                                                     *)
(***************************************************************************)
EXTENDS Protocol

U16_MAX == 65535

\* wire/record/mod.rs, one record; wire/handshake/mod.rs, one message.
MAX_PLAINTEXT_BODY == 16384

MAX_SIZE == 262144

\* KexGroup: what a client and a server send as their share.
ClientShareLen(group) ==
    CASE group = "X25519" -> 32 [] group = "Secp256r1" -> 65 [] group = "X25519Mlkem768" -> 1216

ServerShareLen(group) ==
    CASE group = "X25519" -> 32 [] group = "Secp256r1" -> 65 [] group = "X25519Mlkem768" -> 1120

MAX_CLIENT_SHARE_LEN == 1216

HashLen(alg) == IF alg = "Sha384" THEN 48 ELSE 32

\* Mode::uses_legacy_session_id; a client of this code sends a full one.
SessionIdLen(mode) == IF mode = "Tls" THEN 32 ELSE 0

\* An extension that is there or not, with its type and length.
Ext(present, body) == IF present THEN 4 + body ELSE 0

-----------------------------------------------------------------------------
\* Offer::encode, the extension list: supported_versions, supported_groups,
\* signature_algorithms and key_share are always there.
HelloExtensionsLen(c, ch, share) ==
    Ext(TRUE, 1 + 2)
      + Ext(TRUE, 2 + 2 * Len(SupportedGroups))
      + Ext(TRUE, 2 + 2 * (IF c.verifier = "RawPublicKey" THEN 1 ELSE 6))
      + Ext(TRUE, 2 + 2 + 2 + share)
      + Ext("server" \in ch.certTypes, 1 + 1)
      + Ext("client" \in ch.certTypes, 1 + 1)
      + Ext(c.mode = "Quic", c.size.params)
      + Ext(c.size.hostname # 0, 2 + 1 + 2 + c.size.hostname)
      + Ext(ch.alpns # {}, 2 + c.size.alpns)
      + Ext(ch.cookie # 0, ch.cookie)
      + Ext(ch.early, 0)
      + Ext(ch.ticket # NoTicket, 1 + 1)
      + Ext(ch.ticket # NoTicket, (2 + 2 + c.size.ticket + 4) + (2 + 1 + 32))

\* Offer::encode: header, version, random, session id, suites, compression.
HelloLen(c, ch, share) ==
    4 + 2 + 32 + (1 + SessionIdLen(c.mode)) + (2 + 2 * Cardinality(ch.suites)) + (1 + 1)
      + 2 + HelloExtensionsLen(c, ch, share)

\* The certificate types Offer::maximum_initial_len asks for.
MaximumCertTypes(c) ==
    IF c.verifier = "RawPublicKey" THEN {"client", "server"} ELSE {"client"}

\* MUTANT: the bound is taken for a hello without early data.
MaximumInitialLenLate(c, ticket) ==
    HelloLen(c, ClientHello(Suites, <<"X25519">>, ticket, FALSE, c.alpns, MaximumCertTypes(c)),
             MAX_CLIENT_SHARE_LEN)

\* Offer::maximum_initial_len: every suite, the largest share, early data and
\* both certificate types, whatever the connection will really offer.
MaximumInitialLen(c, ticket) ==
    HelloLen(c, ClientHello(Suites, <<"X25519">>, ticket, TRUE, c.alpns, MaximumCertTypes(c)),
             MAX_CLIENT_SHARE_LEN)

\* CertificateVerify::frame_len.
CertificateVerifyLen(c) == 4 + 2 + 2 + c.size.signature

FINISHED_MAX_LEN == 4 + 48

\* Identity::outbound_flight_capacity; without an identity an empty
\* Certificate and Finished.
IdentityFlightLen(c) ==
    IF c.identity THEN c.size.certificate + CertificateVerifyLen(c) + FINISHED_MAX_LEN
    ELSE (4 + 1 + 3) + FINISHED_MAX_LEN

\* validate_initial_hello, for the template and again when a ticket is restored.
InitialHelloFits(c, ticket) ==
    /\ c.size.params <= U16_MAX
    /\ c.mode = "Tls" => c.size.params = 0
    /\ MaximumInitialLen(c, ticket) <= MAX_PLAINTEXT_BODY

\* Identity::validate.
IdentityValid(c) == c.identity => IdentityFlightLen(c) <= MAX_SIZE

\* Layout::prepared and Layout::admit: a workspace of the caller's may be larger
\* than the plan, never smaller.
WorkspaceAdmitted(c) ==
    /\ c.size.flight >= MAX_PLAINTEXT_BODY
    /\ c.identity => c.size.flight >= IdentityFlightLen(c)

\* Config::validate_with_transport and what follows it: the client
\* configurations and tickets a connection is made from.
ClientAdmitted(c, ticket) ==
    /\ InitialHelloFits(c, NoTicket)
    /\ InitialHelloFits(c, ticket)
    /\ IdentityValid(c)
    /\ WorkspaceAdmitted(c)

\* BoundedBuffer and the u16 length of the extension list: a hello that does
\* not fit its flight storage is an encoding error.
HelloEncodes(c, ch) ==
    /\ HelloLen(c, ch, ClientShareLen(ch.shares[1])) <= c.size.flight
    /\ HelloExtensionsLen(c, ch, ClientShareLen(ch.shares[1])) <= U16_MAX

\* client/mod.rs, outbound_layout, for a connection given this ticket.
ClientLayout(c, ticket) ==
    [Plaintext |-> MaximumInitialLen(c, ticket) + MAX_PLAINTEXT_BODY,
     Handshake |-> IdentityFlightLen(c)
                     + (IF /\ UsesEndOfEarlyData(c.mode)
                           /\ c.early
                           /\ ticket.early
                           /\ ticket.suite \in c.suites
                        THEN 4 ELSE 0),
     Application |-> 0]

-----------------------------------------------------------------------------
\* The fixed part of ServerHello and HelloRetryRequest with supported_versions.
ServerHelloFixedLen(mode) == 4 + (2 + 32 + 1 + 2 + 1 + 2) + SessionIdLen(mode) + (4 + 2)

ServerHelloLen(c, m) ==
    ServerHelloFixedLen(c.mode) + (4 + 2 + 2 + ServerShareLen(m.group)) + Ext(m.psk # None, 2)

RetryLen(c) == ServerHelloFixedLen(c.mode) + (4 + 2)

EncryptedExtensionsLen(c, m) ==
    4 + 2 + 5 * Cardinality(m.certTypes)
      + Ext(m.quicParams, c.size.params)
      + (IF m.alpn = None THEN 0 ELSE 4 + 2 + 1 + c.size.alpn[m.alpn])
      + Ext(m.early, 0)

CERTIFICATE_REQUEST_LEN == 4 + 1 + 2 + 4 + 2 + 2 * 6

\* ticket::encrypted_len: nonce, PSK, age, time, suite, context, ALPN, tag.
EncryptedTicketLen(alpn) == 12 + (32 + 4 + 8 + 2) + (1 + 1 + 1 + 4 + 32 + 16) + 1 + alpn + 16

\* emit_session_ticket.
NewSessionTicketLen(c, m) ==
    4 + 4 + 4 + (1 + 8)
      + 2 + EncryptedTicketLen(IF m.ticket.alpn = None THEN 0 ELSE c.size.alpn[m.ticket.alpn])
      + 2 + Ext(m.ticket.early, 4)

\* The longest protocol name a server knows, 0 for none.
MaximumAlpnLen(c) ==
    LET lens == {0} \cup {c.size.alpn[c.alpn.preferred[i]] : i \in DOMAIN c.alpn.preferred}
    IN CHOOSE n \in lens : \A k \in lens : k <= n

\* MUTANT: the two certificate types are not counted.
FlightExtensionsLenTypeless(c) ==
    (IF MaximumAlpnLen(c) = 0 THEN 0 ELSE 4 + 2 + 1 + MaximumAlpnLen(c)) + Ext(c.guard, 0)

\* full_tls_handshake_flight_len, the extension list of EncryptedExtensions.
FlightExtensionsLen(c) ==
    2 * (4 + 1)
      + (IF MaximumAlpnLen(c) = 0 THEN 0 ELSE 4 + 2 + 1 + MaximumAlpnLen(c))
      + Ext(c.guard, 0)

\* full_tls_handshake_flight_len.
TlsFlightLen(c) ==
    4 + 2 + FlightExtensionsLen(c)
      + (IF c.clientAuth = None THEN 0 ELSE CERTIFICATE_REQUEST_LEN)
      + c.size.certificate + CertificateVerifyLen(c) + FINISHED_MAX_LEN

\* FlightProfile::new: what is left for transport parameters.
MaximumQuicParamsLen(c) ==
    LET list == U16_MAX - FlightExtensionsLen(c) - 4
        flight == MAX_SIZE - TlsFlightLen(c) - 4
    IN IF list < flight THEN list ELSE flight

\* Config::prepare_for, Connection::validate_with_transport and
\* FlightProfile::flight_len: the server configurations a shard binds.
ServerAdmitted(c) ==
    /\ c.size.certificate <= MAX_SIZE
    /\ TlsFlightLen(c) <= MAX_SIZE
    /\ MaximumQuicParamsLen(c) >= 0
    /\ IF c.mode = "Tls" THEN c.size.params = 0 ELSE c.size.params <= MaximumQuicParamsLen(c)

\* FlightProfile::outbound_layout.
ServerLayout(c) ==
    [Plaintext |-> ServerHelloFixedLen(c.mode) + (4 + 2 + 2 + 1120) + (4 + 2) + RetryLen(c),
     Handshake |-> TlsFlightLen(c) + Ext(c.mode = "Quic", c.size.params),
     Application |-> 4 + 4 + 4 + 1 + 8 + 2 + 2 + EncryptedTicketLen(MaximumAlpnLen(c)) + (4 + 4)]

-----------------------------------------------------------------------------
\* The hash of a connection, told by the ServerHello in what a MAC covers.
HashLenOf(mac) ==
    LET sh == CHOOSE i \in DOMAIN mac.transcript : mac.transcript[i].type = "ServerHello"
    IN HashLen(HashAlg(mac.transcript[sh].suite))

\* The encoded length of a message that endpoint c sends.
MessageLen(c, m) ==
    CASE m.type = "ClientHello" -> HelloLen(c, m, ClientShareLen(m.shares[1]))
      [] m.type = "HelloRetryRequest" -> RetryLen(c)
      [] m.type = "ServerHello" -> ServerHelloLen(c, m)
      [] m.type = "EncryptedExtensions" -> EncryptedExtensionsLen(c, m)
      [] m.type = "CertificateRequest" -> CERTIFICATE_REQUEST_LEN
      [] m.type = "Certificate" -> IF m.entries = "Empty" THEN 4 + 1 + 3 ELSE c.size.certificate
      [] m.type = "CertificateVerify" -> CertificateVerifyLen(c)
      [] m.type = "Finished" -> 4 + HashLenOf(m.mac)
      [] m.type = "EndOfEarlyData" -> 4
      [] m.type = "NewSessionTicket" -> NewSessionTicketLen(c, m)

FlightLen(c, msgs) ==
    LET upto[i \in 0..Len(msgs)] == IF i = 0 THEN 0 ELSE upto[i - 1] + MessageLen(c, msgs[i])
    IN upto[Len(msgs)]

\* What the Send events of a log amount to in one epoch.
SentLen(c, log, epoch) ==
    LET upto[i \in 0..Len(log)] ==
          IF i = 0 THEN 0
          ELSE upto[i - 1] + (IF log[i].epoch = epoch THEN FlightLen(c, log[i].msgs) ELSE 0)
    IN upto[Len(log)]
=============================================================================
