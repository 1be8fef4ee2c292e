------------------------------ MODULE Protocol ------------------------------
(***************************************************************************)
(* The vocabulary ClientSession, ServerSession and Handshake share: cipher *)
(* suites, key-exchange groups, handshake messages and the events a        *)
(* connection hands to its EventSink.  A message is a record of what the   *)
(* handlers look at; what they only validate (lengths, versions, reserved  *)
(* fields) is one field, wellFormed.  A MAC or a signature is the          *)
(* transcript it was computed over together with the side that made it, so *)
(* a verification is a comparison of transcripts.                          *)
(***************************************************************************)
EXTENDS Sequences, FiniteSets, Integers

None == "None"

Modes == {"Tls", "Quic"}

\* transport.rs, Mode: EndOfEarlyData and KeyUpdate exist on TLS only.
UsesEndOfEarlyData(mode) == mode = "Tls"

AllowsTlsKeyUpdate(mode) == mode = "Tls"

\* CipherSuite::SUPPORTED in the server's order of preference.
SupportedSuites == <<"Aes128GcmSha256", "ChaCha20Poly1305Sha256", "Aes256GcmSha384">>

Suites == {SupportedSuites[i] : i \in DOMAIN SupportedSuites}

\* CipherSuite::hash_alg
HashAlg(suite) == IF suite = "Aes256GcmSha384" THEN "Sha384" ELSE "Sha256"

RESUMPTION_HASH == "Sha256"

\* KexGroup::SUPPORTED in order of preference.
SupportedGroups == <<"X25519", "Secp256r1", "X25519Mlkem768">>

Groups == {SupportedGroups[i] : i \in DOMAIN SupportedGroups}

\* The first entry of a preference list that the peer offers, or None.
FirstOffered(order, offered) ==
    IF \E i \in DOMAIN order : order[i] \in offered
    THEN order[CHOOSE i \in DOMAIN order :
                 /\ order[i] \in offered
                 /\ \A j \in 1..(i - 1) : order[j] \notin offered]
    ELSE None

-----------------------------------------------------------------------------
\* What a ticket binds: the suite and the ALPN of the connection that issued
\* it, and whether it carries an early-data limit.
Ticket(suite, alpn, early) == [suite |-> suite, alpn |-> alpn, early |-> early]

NoTicket == Ticket(None, None, FALSE)

Mac(side, transcript) == [side |-> side, transcript |-> transcript]

NoMac == Mac(None, <<>>)

\* groups is the list of supported_groups, shares that of the groups in
\* key_share.  age, binder and pskModes go with the ticket; pskModes is None
\* when the extension is missing.  certTypes are the certificate-type lists
\* present; the one for the server asks for a raw public key.  cookie is the
\* length of the cookie, 0 for none.
ClientHello(suites, shares, ticket, early, alpns, certTypes) ==
    [type |-> "ClientHello", wellFormed |-> TRUE, suites |-> suites, groups |-> SupportedGroups,
     shares |-> shares, ticket |-> ticket, age |-> 0, binder |-> "Valid", pskModes |-> "Dhe",
     early |-> early, alpns |-> alpns, certTypes |-> certTypes, cookie |-> 0]

\* The two uses of ServerHello; HelloRetryRequest is told by its random.
HelloRetryRequest(wellFormed, suite, group) ==
    [type |-> "HelloRetryRequest", wellFormed |-> wellFormed, suite |-> suite, group |-> group,
     cookie |-> 0]

\* psk is the selected identity: None, the one offered, or another index.
ServerHello(wellFormed, suite, group, psk) ==
    [type |-> "ServerHello", wellFormed |-> wellFormed, suite |-> suite,
     group |-> group, psk |-> psk]

EncryptedExtensions(wellFormed, certTypes, quicParams, alpn, early) ==
    [type |-> "EncryptedExtensions", wellFormed |-> wellFormed, certTypes |-> certTypes,
     quicParams |-> quicParams, alpn |-> alpn, early |-> early]

CertificateRequest(wellFormed, schemeAccepted) ==
    [type |-> "CertificateRequest", wellFormed |-> wellFormed, schemeAccepted |-> schemeAccepted]

\* entries: Empty, Valid (the receiver's verifier takes it) or Invalid.
Certificate(entries) == [type |-> "Certificate", entries |-> entries]

CertificateVerify(mac) == [type |-> "CertificateVerify", mac |-> mac]

Finished(mac) == [type |-> "Finished", mac |-> mac]

EndOfEarlyData == [type |-> "EndOfEarlyData"]

\* live: the lifetime is not zero.
NewSessionTicket(wellFormed, live, ticket) ==
    [type |-> "NewSessionTicket", wellFormed |-> wellFormed, live |-> live, ticket |-> ticket]

KeyUpdate == [type |-> "KeyUpdate"]

\* Transcript::restart_with_message_hash: ClientHello1 survives as a digest.
MessageHash(transcript) == [type |-> "MessageHash", of |-> transcript]

-----------------------------------------------------------------------------
\* Events.  Every event is a record with the same fields; msgs is the flight a
\* Send carries.
Event(type, epoch, msgs) == [type |-> type, epoch |-> epoch, msgs |-> msgs]

Send(epoch, msgs) == Event("Send", epoch, msgs)

KeysReady(epoch) == Event("KeysReady", epoch, <<>>)

Signal(type) == Event(type, None, <<>>)

\* The messages of a type that the Send events of a log carry.
SentOf(log, type) ==
    UNION {{log[i].msgs[j] : j \in {k \in DOMAIN log[i].msgs : log[i].msgs[k].type = type}} :
             i \in DOMAIN log}

Emitted(log, event) == \E i \in DOMAIN log : log[i] = event

\* Where the events of a type are in a log.
EventsAt(log, type) == {i \in DOMAIN log : log[i].type = type}

Occurrences(log, type) == Cardinality(EventsAt(log, type))

AtMostOne(S) == \A i, j \in S : i = j

AtMostTwo(S) == \A i, j, k \in S : i = j \/ j = k \/ i = k
=============================================================================
