--------------------------- MODULE ClientSession ---------------------------
(***************************************************************************)
(* The client connection state machine: client/drive.rs (start),           *)
(* client/session (dispatch and the handlers) and the calls of             *)
(* client/mod.rs that drive it.  One action is one call into the           *)
(* connection: a setter, start_into, read_framed_into with one handshake   *)
(* message, or into_quic_post_handshake.                                   *)
(*                                                                         *)
(* The peer is arbitrary: any message of Inputs may arrive in any state    *)
(* and at any epoch.  The sink is arbitrary too: it may refuse any event,  *)
(* which poisons the connection with the events before it delivered.  A    *)
(* configuration names the surroundings it runs in: peer = "Compliant" is  *)
(* a server that follows the protocol, sinkFails = FALSE a sink that takes *)
(* every event.                                                            *)
(***************************************************************************)
EXTENDS Sizes

CONSTANTS
    Configs,        \* the endpoint configurations to start from
    Tickets,        \* the tickets a client may hold when it starts
    Inputs,         \* the messages an arbitrary peer may send, MACs aside
    SuiteLists,     \* what the application may pass to set_cipher_suites
    MaxPostHandshake \* bound on post-handshake events kept in the log

\* A configuration of an endpoint: its template, with the lengths of what the
\* template holds, and the surroundings it runs in.
ClientConfig ==
    [mode : Modes, verifier : {"X509Store", "RawPublicKey"}, identity : BOOLEAN,
     suites : SUBSET Suites, group : Groups, alpns : SUBSET STRING, early : BOOLEAN,
     size : [params : Nat, hostname : Nat, alpns : Nat, ticket : Nat, certificate : Nat,
             signature : Nat, flight : Nat],
     tunes : BOOLEAN, peer : {"Any", "Compliant"}, sinkFails : BOOLEAN]

\* Restore::try_with_early_data and Resumption::from_issued admit early data for
\* the suites of the resumption hash only.
ASSUME ClientAssumption ==
    /\ MaxPostHandshake \in Nat
    /\ Configs \subseteq ClientConfig
    /\ \A ticket \in Tickets : ticket.early => HashAlg(ticket.suite) = RESUMPTION_HASH

VARIABLES
    config,         \* mode, verifier, identity, suites, group, alpns, early, size;
                    \* tunes, peer, sinkFails
    given,          \* the ticket the connection was made with (history)
    state,          \* session/state.rs, State
    hrrDone,        \* Handshake::hrr_done
    resumption,     \* Handshake::resumption, the single ticket slot
    pskUsed,        \* Handshake::psk_used
    earlyData,      \* Extensions::early_data
    earlyBound,     \* the BoundEarlyData of EarlyData::Offered
    selectedAlpn,   \* Extensions::selected_alpn
    suite,          \* suite of material::State, None when Empty
    active,         \* whether material::State is Active (application keys live)
    pendingGroup,   \* kx::Initiator::pending_group
    certResponse,   \* Credentials::certificate_response
    transcript,     \* messages hashed so far
    events          \* everything the sink accepted

vars == <<config, given, state, hrrDone, resumption, pskUsed, earlyData, earlyBound, selectedAlpn,
          suite, active, pendingGroup, certResponse, transcript, events>>

Epochs == {"Plaintext", "Handshake", "Application"}

States == {"Initial", "ExpectServerHello", "ExpectEncryptedExtensions", "ExpectCertificate",
           "ExpectCertificateVerify", "ExpectServerFinished", "Done", "QuicPostHandshake", "Failed"}

-----------------------------------------------------------------------------
\* Session::certificate_type_offers, as the set of certificate types the
\* hello asks the server to confirm.
CertificateTypeOffers ==
    (IF config.verifier = "RawPublicKey" THEN {"server"} ELSE {})
        \cup (IF config.identity \/ config.verifier = "RawPublicKey" THEN {"client"} ELSE {})

\* Active::early_data_offer, under OfferSettings::enable_early_data.
EarlyDataOffer(ticket) == config.early /\ ticket.early /\ ticket.suite \in config.suites

\* The ClientHello of client/offer.rs.
Hello(group, ticket, early) ==
    ClientHello(config.suites, <<group>>, ticket, early, config.alpns, CertificateTypeOffers)

\* Session::poison.  What it leaves behind (transcript, flags) is never read
\* again: every call on a Failed session returns before looking at it.
Poison ==
    /\ state' = "Failed"
    /\ resumption' = NoTicket
    /\ earlyData' = "NotOffered"
    /\ earlyBound' = NoTicket
    /\ suite' = None
    /\ active' = FALSE
    /\ pendingGroup' = None
    /\ UNCHANGED <<config, given>>

\* A call that returns an error before any event.
Fail ==
    /\ Poison
    /\ UNCHANGED <<hrrDone, pskUsed, selectedAlpn, certResponse, transcript, events>>

\* The sink takes the first k of the events a handler emits; the handler's
\* remaining effect happens only if it takes them all.
Accepts(evs, k) ==
    /\ k \in (IF config.sinkFails THEN 0..Len(evs) ELSE {Len(evs)})
    /\ events' = events \o SubSeq(evs, 1, k)

Refused(evs, k) ==
    /\ k < Len(evs)
    /\ Poison
    /\ UNCHANGED <<hrrDone, pskUsed, certResponse, transcript>>

\* Restore::bind: early data is left out when the ticket comes from the other
\* transport or from a protocol the template does not list.
Bind(ticket, sameMode) ==
    [ticket EXCEPT !.early = @ /\ sameMode /\ ticket.alpn \in config.alpns \cup {None}]

Init ==
    /\ config \in Configs
    /\ \E ticket \in Tickets, sameMode \in BOOLEAN : given = Bind(ticket, sameMode)
    /\ ClientAdmitted(config, given)
    /\ state = "Initial"
    /\ hrrDone = FALSE
    /\ resumption = given
    /\ pskUsed = FALSE
    /\ earlyData = "NotOffered"
    /\ earlyBound = NoTicket
    /\ selectedAlpn = None
    /\ suite = None
    /\ active = FALSE
    /\ pendingGroup = None
    /\ certResponse = None
    /\ transcript = <<>>
    /\ events = <<>>

-----------------------------------------------------------------------------
\* What the setters leave alone.
Untuned == <<given, state, hrrDone, resumption, pskUsed, earlyData, earlyBound, selectedAlpn, suite,
             active, pendingGroup, certResponse, transcript, events>>

\* Client::set_kex_group.
SetKexGroup(group) ==
    /\ state = "Initial"
    /\ config' = [config EXCEPT !.group = group]
    /\ UNCHANGED Untuned

\* Hybrid::from_client.
FromClient == SetKexGroup("X25519Mlkem768")

\* Client::set_cipher_suites: the supported ones of the list; an error, and no
\* change, when none is left.
SetCipherSuites(list) ==
    /\ state = "Initial"
    /\ list \cap Suites # {}
    /\ config' = [config EXCEPT !.suites = list \cap Suites]
    /\ UNCHANGED Untuned

\* The ticket start offers: dropped when no suite of its hash is offered, or
\* when its age cannot be stated any more.
OfferedTicket(fresh) ==
    IF fresh /\ \E s \in config.suites : HashAlg(s) = RESUMPTION_HASH
    THEN resumption ELSE NoTicket

\* Client::start_into with Drive::start.  fresh: obfuscated_ticket_age returns
\* an age for the ticket at the clock's current reading.
Start(fresh) ==
    /\ state = "Initial"
    /\ LET ticket == OfferedTicket(fresh)
           early == EarlyDataOffer(ticket)
           hello == Hello(config.group, ticket, early)
           evs == <<Send("Plaintext", <<hello>>)>>
                    \o (IF early THEN <<Signal("ZeroRttKeysReady")>> ELSE <<>>)
       IN \/ ~HelloEncodes(config, hello) /\ Fail
          \/ /\ HelloEncodes(config, hello)
             /\ UNCHANGED selectedAlpn
             /\ \E k \in 0..Len(evs) :
                  /\ Accepts(evs, k)
                  /\ \/ Refused(evs, k)
                     \/ /\ k = Len(evs)
                        /\ state' = "ExpectServerHello"
                        /\ resumption' = ticket
                        /\ earlyData' = IF early THEN "Offered" ELSE "NotOffered"
                        /\ earlyBound' = IF early THEN ticket ELSE NoTicket
                        /\ pendingGroup' = config.group
                        /\ transcript' = <<hello>>
                        /\ UNCHANGED <<config, given, hrrDone, pskUsed, suite, active,
                                       certResponse>>

-----------------------------------------------------------------------------
\* MUTANT: a ServerHello may choose another suite than the retry request did.
SuiteAcceptableAnew(m) == m.suite \in config.suites

\* The checks of handle_server_hello that ServerHello and HelloRetryRequest
\* share: fields, offered suite, Transcript::select and material::State::select.
SuiteAcceptable(m) ==
    /\ m.suite \in config.suites
    /\ suite \in {None, m.suite}

\* The pre_shared_key extension of a ServerHello.
PskAcceptable(m) ==
    \/ m.psk = None
    \/ /\ m.psk = "First"
       /\ resumption # NoTicket
       /\ HashAlg(m.suite) = RESUMPTION_HASH

\* What handle_server_hello emits, with and without a PSK.
HandshakeKeys(m) == <<KeysReady("Handshake")>>

\* Negotiation::handle_server_hello for a ServerHello proper.
HandleServerHello(m) ==
    /\ state = "ExpectServerHello"
    /\ m.type = "ServerHello"
    /\ \/ /\ ~(m.wellFormed /\ SuiteAcceptable(m) /\ PskAcceptable(m) /\ m.group = pendingGroup)
          /\ Fail
       \/ /\ m.wellFormed
          /\ SuiteAcceptable(m)
          /\ PskAcceptable(m)
          /\ m.group = pendingGroup
          /\ UNCHANGED selectedAlpn
          /\ LET evs == HandshakeKeys(m)
             IN \E k \in 0..Len(evs) :
                  /\ Accepts(evs, k)
                  /\ \/ Refused(evs, k)
                     \/ /\ k = Len(evs)
                        /\ state' = "ExpectEncryptedExtensions"
                        /\ suite' = m.suite
                        /\ pskUsed' = (m.psk # None)
                        /\ resumption' = NoTicket
                        /\ pendingGroup' = None
                        /\ transcript' = Append(transcript, m)
                        /\ UNCHANGED <<config, given, hrrDone, earlyData, earlyBound, active,
                                       certResponse>>

\* The checks of handle_hello_retry_request.
RetryAcceptable(m) ==
    /\ SuiteAcceptable(m)
    /\ ~hrrDone
    /\ m.group # pendingGroup

\* Negotiation::handle_hello_retry_request and finish_hello_retry_request: the
\* second hello never offers early data and repeats the cookie, which may make
\* it too long to encode; a ticket whose binder cannot be hashed with the
\* selected algorithm makes BinderSlot::splice fail.
HandleHelloRetryRequest(m, fresh) ==
    /\ state = "ExpectServerHello"
    /\ m.type = "HelloRetryRequest"
    /\ LET ticket == IF fresh THEN resumption ELSE NoTicket
           bound == ticket = NoTicket \/ HashAlg(m.suite) = RESUMPTION_HASH
           hello == [Hello(m.group, ticket, FALSE) EXCEPT !.cookie = m.cookie]
           evs == <<Send("Plaintext", <<hello>>)>>
       IN \/ /\ ~(m.wellFormed /\ RetryAcceptable(m) /\ bound /\ HelloEncodes(config, hello))
             /\ Fail
          \/ /\ m.wellFormed
             /\ RetryAcceptable(m)
             /\ bound
             /\ HelloEncodes(config, hello)
             /\ UNCHANGED selectedAlpn
             /\ \E k \in 0..Len(evs) :
                  /\ Accepts(evs, k)
                  /\ \/ Refused(evs, k)
                     \/ /\ k = Len(evs)
                        /\ suite' = m.suite
                        /\ hrrDone' = TRUE
                        /\ resumption' = ticket
                        /\ pendingGroup' = m.group
                        /\ transcript' = <<MessageHash(transcript), m, hello>>
                        /\ UNCHANGED <<config, given, state, pskUsed, earlyData, earlyBound, active,
                                       certResponse>>

-----------------------------------------------------------------------------
\* MUTANT: early data is confirmed although another ALPN was negotiated.
EarlyAcceptableAnyAlpn(m) ==
    m.early => /\ earlyData = "Offered"
               /\ ~hrrDone
               /\ pskUsed
               /\ suite = earlyBound.suite

\* MUTANT: a server that ignores an early-data offer is treated as broken.
EarlyAcceptableInsists(m) == m.early = (earlyData = "Offered")

\* The early_data extension of EncryptedExtensions.
EarlyAcceptable(m) ==
    m.early => /\ earlyData = "Offered"
               /\ ~hrrDone
               /\ pskUsed
               /\ suite = earlyBound.suite
               /\ m.alpn = earlyBound.alpn

\* NegotiatedExtensions::decode.
ExtensionsAcceptable(m) ==
    /\ m.wellFormed
    /\ m.certTypes = CertificateTypeOffers
    /\ m.quicParams = (config.mode = "Quic")
    /\ m.alpn \in config.alpns \cup {None}

\* MUTANT: the outcome is read off the offer, not off the server's answer.
EarlyOutcomeOffered(m) == IF earlyData = "Offered" THEN <<Signal("EarlyDataAccepted")>> ELSE <<>>

\* The early-data event of handle_encrypted_extensions.
EarlyOutcome(m) ==
    IF earlyData # "Offered" THEN <<>>
    ELSE IF m.early THEN <<Signal("EarlyDataAccepted")>>
    ELSE <<Signal("EarlyDataRejected")>>

\* MUTANT: the certificate is not waited for.
AfterExtensionsDirect == "ExpectServerFinished"

\* A PSK replaces the server's certificate.
AfterExtensions == IF pskUsed THEN "ExpectServerFinished" ELSE "ExpectCertificate"

\* Negotiation::handle_encrypted_extensions.
HandleEncryptedExtensions(m) ==
    /\ state = "ExpectEncryptedExtensions"
    /\ m.type = "EncryptedExtensions"
    /\ \/ /\ ~(ExtensionsAcceptable(m) /\ EarlyAcceptable(m))
          /\ Fail
       \/ /\ ExtensionsAcceptable(m)
          /\ EarlyAcceptable(m)
          /\ selectedAlpn' = m.alpn
          /\ LET evs == (IF m.quicParams THEN <<Signal("PeerExtension")>> ELSE <<>>)
                           \o EarlyOutcome(m)
             IN \E k \in 0..Len(evs) :
                  /\ Accepts(evs, k)
                  /\ \/ Refused(evs, k)
                     \/ /\ k = Len(evs)
                        /\ state' = AfterExtensions
                        /\ earlyData' = IF m.early THEN "Accepted" ELSE "NotOffered"
                        /\ earlyBound' = NoTicket
                        /\ transcript' = Append(transcript, m)
                        /\ UNCHANGED <<config, given, hrrDone, pskUsed, resumption, suite, active,
                                       pendingGroup, certResponse>>

\* Authentication::handle_certificate_request: select the response, which is
\* sent only with the client's Finished.
HandleCertificateRequest(m) ==
    /\ state = "ExpectCertificate"
    /\ m.type = "CertificateRequest"
    /\ \/ /\ certResponse # None \/ ~m.wellFormed
          /\ Fail
       \/ /\ certResponse = None
          /\ m.wellFormed
          /\ certResponse' = IF config.identity /\ m.schemeAccepted THEN "Identity" ELSE "Empty"
          /\ transcript' = Append(transcript, m)
          /\ UNCHANGED <<config, given, state, hrrDone, resumption, pskUsed, earlyData, earlyBound,
                         selectedAlpn, suite, active, pendingGroup, events>>

\* A step of the handshake that only checks a message and moves on.
Advance(m, next) ==
    /\ state' = next
    /\ transcript' = Append(transcript, m)
    /\ UNCHANGED <<config, given, hrrDone, resumption, pskUsed, earlyData, earlyBound, selectedAlpn,
                   suite, active, pendingGroup, certResponse, events>>

\* Authentication::handle_certificate.
HandleCertificate(m) ==
    /\ state = "ExpectCertificate"
    /\ m.type = "Certificate"
    /\ \/ m.entries # "Valid" /\ Fail
       \/ m.entries = "Valid" /\ Advance(m, "ExpectCertificateVerify")

\* LeafKey::verify over the transcript hash, and Finished::verify_data.
Verifies(m) == m.mac = Mac("server", transcript)

\* Authentication::handle_certificate_verify.
HandleCertificateVerify(m) ==
    /\ state = "ExpectCertificateVerify"
    /\ m.type = "CertificateVerify"
    /\ \/ ~Verifies(m) /\ Fail
       \/ Verifies(m) /\ Advance(m, "ExpectServerFinished")

\* Authentication::append_flight: Certificate and, with an identity, the
\* CertificateVerify over it.
CertificateFlight(base) ==
    CASE certResponse = None -> <<>>
      [] certResponse = "Empty" -> <<Certificate("Empty")>>
      [] certResponse = "Identity" ->
           LET cert == Certificate("Valid")
           IN <<cert, CertificateVerify(Mac("client", Append(base, cert)))>>

\* Whether the client's answer starts with EndOfEarlyData.
EndsEarlyData == earlyData = "Accepted" /\ UsesEndOfEarlyData(config.mode)

\* MUTANT: the application keys follow the client's Finished.
FinalEventsKeysLast(auth, fin) ==
    (IF EndsEarlyData THEN <<Send("Handshake", <<EndOfEarlyData>>)>> ELSE <<>>)
        \o <<Send("Handshake", Append(auth, fin)), KeysReady("Application"), Signal("Done")>>

\* What handle_server_finished emits, in order.
FinalEvents(auth, fin) ==
    <<KeysReady("Application")>>
        \o (IF EndsEarlyData THEN <<Send("Handshake", <<EndOfEarlyData>>)>> ELSE <<>>)
        \o <<Send("Handshake", Append(auth, fin)), Signal("Done")>>

\* Authentication::handle_server_finished.
HandleServerFinished(m) ==
    /\ state = "ExpectServerFinished"
    /\ m.type = "Finished"
    /\ \/ ~Verifies(m) /\ Fail
       \/ /\ Verifies(m)
          /\ UNCHANGED selectedAlpn
          /\ LET received == Append(transcript, m)
                 base == IF EndsEarlyData THEN Append(received, EndOfEarlyData) ELSE received
                 auth == CertificateFlight(base)
                 signed == base \o auth
                 fin == Finished(Mac("client", signed))
                 evs == FinalEvents(auth, fin)
             IN \E k \in 0..Len(evs) :
                  /\ Accepts(evs, k)
                  /\ \/ Refused(evs, k)
                     \/ /\ k = Len(evs)
                        /\ state' = "Done"
                        /\ active' = TRUE
                        /\ certResponse' = None
                        /\ transcript' = Append(signed, fin)
                        /\ UNCHANGED <<config, given, hrrDone, resumption, pskUsed, earlyData,
                                       earlyBound, suite, pendingGroup>>

-----------------------------------------------------------------------------
\* A post-handshake message whose whole effect is at most one event.
Report(evs) ==
    \E k \in 0..Len(evs) :
        /\ Accepts(evs, k)
        /\ UNCHANGED selectedAlpn
        /\ \/ Refused(evs, k)
           \/ /\ k = Len(evs)
              /\ UNCHANGED <<config, given, state, hrrDone, resumption, pskUsed, earlyData,
                             earlyBound, suite, active, pendingGroup, certResponse, transcript>>

PostHandshake == Occurrences(events, "NewSessionTicket") + Occurrences(events, "KeyUpdate")

\* Whether handle_new_session_ticket turns the message into a ticket.
TicketUsable(m) == m.live /\ HashAlg(suite) = RESUMPTION_HASH

\* handle_new_session_ticket, read by the connection.
HandleNewSessionTicket(m) ==
    /\ state = "Done"
    /\ m.type = "NewSessionTicket"
    /\ PostHandshake < MaxPostHandshake
    /\ \/ ~m.wellFormed /\ Fail
       \/ /\ m.wellFormed
          /\ Report(IF TicketUsable(m) THEN <<Signal("NewSessionTicket")>> ELSE <<>>)

\* FramedConnection::into_quic_post_handshake consumes the connection, also
\* when it refuses; the workspace and the traffic secrets go.
IntoQuicPostHandshake ==
    /\ state \notin {"QuicPostHandshake", "Failed"}
    /\ \/ ~(config.mode = "Quic" /\ state = "Done") /\ Fail
       \/ /\ config.mode = "Quic"
          /\ state = "Done"
          /\ state' = "QuicPostHandshake"
          /\ active' = FALSE
          /\ UNCHANGED <<config, given, hrrDone, resumption, pskUsed, earlyData, earlyBound,
                         selectedAlpn, suite, pendingGroup, certResponse, transcript, events>>

\* QuicPostHandshake::read_framed_into: everything but a good ticket is an error
\* that leaves the receiver as it is, and so is a sink that refuses the ticket.
ReceiveTicket(m) ==
    /\ state = "QuicPostHandshake"
    /\ m.type = "NewSessionTicket"
    /\ PostHandshake < MaxPostHandshake
    /\ m.wellFormed
    /\ TicketUsable(m)
    /\ events' = Append(events, Signal("NewSessionTicket"))
    /\ UNCHANGED <<config, given, state, hrrDone, resumption, pskUsed, earlyData, earlyBound,
                   selectedAlpn, suite, active, pendingGroup, certResponse, transcript>>

\* Session::handle_key_update.  KeyUpdate.tla models KeyUpdateCore::receive;
\* here it either reports the new read key or exceeds its budget.
HandleKeyUpdate(m, withinBudget) ==
    /\ state = "Done"
    /\ m.type = "KeyUpdate"
    /\ PostHandshake < MaxPostHandshake
    /\ \/ ~(AllowsTlsKeyUpdate(config.mode) /\ withinBudget) /\ Fail
       \/ /\ AllowsTlsKeyUpdate(config.mode)
          /\ withinBudget
          /\ Report(<<Signal("KeyUpdate")>>)

\* The arms of Session::dispatch.
Expected ==
    {<<"ExpectServerHello", "ServerHello", "Plaintext">>,
     <<"ExpectServerHello", "HelloRetryRequest", "Plaintext">>,
     <<"ExpectEncryptedExtensions", "EncryptedExtensions", "Handshake">>,
     <<"ExpectCertificate", "CertificateRequest", "Handshake">>,
     <<"ExpectCertificate", "Certificate", "Handshake">>,
     <<"ExpectCertificateVerify", "CertificateVerify", "Handshake">>,
     <<"ExpectServerFinished", "Finished", "Handshake">>,
     <<"Done", "KeyUpdate", "Application">>,
     <<"Done", "NewSessionTicket", "Application">>,
     <<"QuicPostHandshake", "NewSessionTicket", "Application">>}

Handle(m, fresh) ==
    \/ HandleServerHello(m)
    \/ HandleHelloRetryRequest(m, fresh)
    \/ HandleEncryptedExtensions(m)
    \/ HandleCertificateRequest(m)
    \/ HandleCertificate(m)
    \/ HandleCertificateVerify(m)
    \/ HandleServerFinished(m)
    \/ HandleNewSessionTicket(m)
    \/ ReceiveTicket(m)
    \/ \E withinBudget \in BOOLEAN : HandleKeyUpdate(m, withinBudget)

\* The last arm of Session::dispatch, and a message that does not decode.
Unexpected(m, epoch) ==
    /\ state \notin {"QuicPostHandshake", "Failed"}
    /\ <<state, m.type, epoch>> \notin Expected
    /\ Fail

\* read_framed_into: refuse on a failed session, dispatch, poison on error.
Read(m, epoch, fresh) ==
    \/ <<state, m.type, epoch>> \in Expected /\ Handle(m, fresh)
    \/ Unexpected(m, epoch)

Macs == {Mac("server", transcript), NoMac}

PeerMessages == Inputs \cup {CertificateVerify(mac) : mac \in Macs} \cup {Finished(mac) : mac \in Macs}

-----------------------------------------------------------------------------
\* A server that follows the protocol answers what the last hello offered, and
\* gives it a cookie it has room for.
HelloAt == {i \in DOMAIN events : events[i].type = "Send" /\ events[i].epoch = "Plaintext"}

LastHello == events[CHOOSE i \in HelloAt : \A j \in HelloAt : j <= i].msgs[1]

Compliant(m) ==
    CASE m.type = "ServerHello" ->
           /\ m.wellFormed
           /\ m.suite \in LastHello.suites
           /\ suite \in {None, m.suite}
           /\ <<m.group>> = LastHello.shares
           /\ \/ m.psk = None
              \/ /\ m.psk = "First"
                 /\ LastHello.ticket # NoTicket
                 /\ HashAlg(m.suite) = RESUMPTION_HASH
      [] m.type = "HelloRetryRequest" ->
           /\ m.wellFormed
           /\ AtMostOne(HelloAt)
           /\ m.suite \in LastHello.suites
           /\ <<m.group>> # LastHello.shares
           /\ HelloEncodes(config, [LastHello EXCEPT !.shares = <<m.group>>, !.early = FALSE,
                                                     !.cookie = m.cookie])
      [] m.type = "EncryptedExtensions" ->
           /\ m.wellFormed
           /\ m.certTypes = LastHello.certTypes
           /\ m.quicParams = (config.mode = "Quic")
           /\ m.alpn \in LastHello.alpns \cup {None}
           /\ m.early => /\ LastHello.early
                         /\ pskUsed
                         /\ suite = LastHello.ticket.suite
                         /\ m.alpn = LastHello.ticket.alpn
      [] m.type = "CertificateRequest" -> m.wellFormed /\ certResponse = None
      [] m.type = "Certificate" -> m.entries = "Valid"
      [] m.type = "CertificateVerify" -> m.mac = Mac("server", transcript)
      [] m.type = "Finished" -> m.mac = Mac("server", transcript)
      [] OTHER -> FALSE

\* Only a retry looks at the clock.
Ages(m) == IF m.type = "HelloRetryRequest" THEN BOOLEAN ELSE {TRUE}

HonestRead ==
    \E m \in PeerMessages, epoch \in Epochs : \E fresh \in Ages(m) :
        /\ <<state, m.type, epoch>> \in Expected
        /\ Compliant(m)
        /\ Read(m, epoch, fresh)

AnyRead == \E m \in PeerMessages, epoch \in Epochs : \E fresh \in Ages(m) : Read(m, epoch, fresh)

Tune ==
    \/ FromClient
    \/ \E group \in Groups : SetKexGroup(group)
    \/ \E list \in SuiteLists : SetCipherSuites(list)

Next ==
    \/ config.tunes /\ Tune
    \/ \E fresh \in BOOLEAN : Start(fresh)
    \/ config.peer = "Any" /\ IntoQuicPostHandshake
    \/ config.peer = "Any" /\ AnyRead
    \/ config.peer = "Compliant" /\ HonestRead

Spec == Init /\ [][Next]_vars

\* The caller starts the connection and hands over what arrives, and a server
\* that follows the protocol answers.  Nothing is assumed of another one.
FairSpec == Spec /\ WF_vars(config.peer = "Compliant" /\ Next)

-----------------------------------------------------------------------------
\* A message of the transcript whose MAC or signature the server made over
\* everything before it.
Proved(type) ==
    \E i \in DOMAIN transcript :
        /\ transcript[i].type = type
        /\ transcript[i].mac = Mac("server", SubSeq(transcript, 1, i - 1))

\* A client releases application keys, and so reports Done, only after it
\* checked a server Finished over the whole transcript, and after the server
\* proved its certificate's key over it too unless a PSK was used.
DoneIsAuthenticated ==
    Emitted(events, KeysReady("Application")) /\ state # "Failed" =>
        /\ Proved("Finished")
        /\ pskUsed \/ Proved("CertificateVerify")

\* What the server chose is what the hello it answered left open.  After a
\* retry that is the second hello: there is no third one, it offers no early
\* data, a stale ticket is gone from it, and the server keeps to the suite of
\* its retry request and to the share it asked for.
AnswerFitsLastHello ==
    /\ AtMostTwo(HelloAt)
    /\ ~AtMostOne(HelloAt) => ~LastHello.early
    /\ pskUsed => LastHello.ticket # NoTicket
    /\ \A i, j \in DOMAIN transcript :
         transcript[i].type = "HelloRetryRequest" /\ transcript[j].type = "ServerHello" =>
            /\ transcript[j].suite = transcript[i].suite
            /\ <<transcript[j].group>> = LastHello.shares

\* Every 0-RTT offer is settled exactly once before Done, and no outcome is
\* reported that was not offered before (handle_encrypted_extensions).
SettledOnce ==
    LET offered == EventsAt(events, "ZeroRttKeysReady")
        settled == EventsAt(events, "EarlyDataAccepted") \cup EventsAt(events, "EarlyDataRejected")
    IN /\ AtMostOne(offered) /\ AtMostOne(settled)
       /\ \A i \in settled : \E j \in offered : j < i
       /\ Emitted(events, Signal("Done")) /\ offered # {} => settled # {}

\* Early data counts as accepted only on the ticket's terms: the same suite
\* and the same ALPN as the connection that issued it, and no retry between.
AcceptedOnTicketTerms ==
    Emitted(events, Signal("EarlyDataAccepted")) /\ state # "Failed" =>
        /\ ~hrrDone
        /\ LastHello.early
        /\ suite = LastHello.ticket.suite
        /\ selectedAlpn = LastHello.ticket.alpn

\* EndOfEarlyData is sent exactly when accepted early data has to be ended on
\* the wire: on TLS, after acceptance, in front of the client's Finished.
EndOfEarlyDataSentWhenDue ==
    Emitted(events, Signal("Done")) =>
        ((SentOf(events, "EndOfEarlyData") # {})
            <=> (config.mode = "Tls" /\ Emitted(events, Signal("EarlyDataAccepted"))))

\* The three together: how an offer of early data ends.
EarlyDataOutcome == SettledOnce /\ AcceptedOnTicketTerms /\ EndOfEarlyDataSentWhenDue

\* The layouts outbound_layout may have announced: the application can still
\* set the suites between the announcement and start.
Announced ==
    {ClientLayout([config EXCEPT !.suites = suites], given) : suites \in (SUBSET Suites) \ {{}}}

\* OutboundLayout: plaintext covers both ClientHellos when a HelloRetryRequest
\* occurs.
LayoutCoversBothHellos ==
    \A layout \in Announced : SentLen(config, events, "Plaintext") <= layout.Plaintext

\* The client never sends more in an epoch than outbound_layout announced,
\* whatever the setters did between the announcement and start.  For the two
\* hellos this takes what outbound_layout takes for granted, that the second,
\* with the server's cookie in it, is at most one record.
SentWithinLayout ==
    /\ (\A hello \in SentOf(events, "ClientHello") : MessageLen(config, hello) <= MAX_PLAINTEXT_BODY)
          => LayoutCoversBothHellos
    /\ \A layout \in Announced :
          /\ SentLen(config, events, "Handshake") <= layout.Handshake
          /\ SentLen(config, events, "Application") <= layout.Application

\* Against a server that follows the protocol the handshake completes.
HandshakeCompletes ==
    config.peer = "Compliant" /\ ~config.sinkFails => <>(state = "Done")

\* handle_hello_retry_request resends a ClientHello after one HRR: nothing a
\* protocol-following server sends makes the client give up.
HonestServerIsAnswered == state # "Failed"
=============================================================================
