--------------------------- MODULE ServerSession ---------------------------
(***************************************************************************)
(* The server connection state machine: server/session and the calls of    *)
(* server/mod.rs that drive it.  One action is one call: reading one       *)
(* handshake message, or charging decrypted early data.  The peer and the  *)
(* sink are arbitrary.  A configuration names the surroundings it runs in: *)
(* peer = "Compliant" is a client that follows the protocol, "KeepsAge"    *)
(* one that also repeats its ticket age in a retried hello, and            *)
(* sinkFails = FALSE a sink that takes every event.                        *)
(*                                                                         *)
(* What other parts decide enters a ClientHello action as a parameter:     *)
(* whether the ticket keys open the ticket within its lifetime, whether    *)
(* its age matches the clock, whether the replay guard registers the       *)
(* binder.  EarlyData.tla models those.                                    *)
(***************************************************************************)
EXTENDS Sizes, Negotiation

CONSTANTS
    Configs,        \* the endpoint configurations to start from
    Hellos,         \* the ClientHellos an arbitrary peer may send
    Inputs,         \* its other messages, MACs aside
    MaxEarlyData,   \* the early-data limit of a ticket
    MaxPostHandshake \* bound on KeyUpdates handled after Done

\* What the decoder hands over are lists, and the protocol names have an order.
ASSUME ServerAssumption ==
    /\ \A c \in Configs :
         /\ c.mode \in Modes
         /\ c.alpn = Prepare(c.alpn.preferred)
         /\ c.alpn.preferred \in Seq(Alpns)
    /\ \A ch \in Hellos :
         /\ ch.groups \in Seq(STRING)
         /\ ch.shares \in Seq(STRING)
         /\ ch.alpns \subseteq Alpns
    /\ \A m \in Inputs : m.type # "ClientHello"
    /\ MaxEarlyData \in Nat
    /\ MaxPostHandshake \in Nat

VARIABLES
    config,         \* mode, clientAuth, certType, alpn, guard, ticketKeys, size; peer, sinkFails
    state,          \* session/mod.rs, State
    hrrDone,        \* Handshake::hrr_done
    hrrInvariant,   \* Handshake::hrr_invariant, the hello it was captured from
    selectedAlpn,   \* Peer::selected_alpn
    remaining,      \* EarlyData::remaining, -1 for a closed window
    suite,          \* suite of material::State, None when Empty
    active,         \* whether material::State is Active
    identity,       \* whether identity_workspace retains a client Certificate
    transcript,     \* messages hashed so far
    events,         \* everything the sink accepted
    charged,        \* early data accepted so far (history)
    authorized      \* whether the embedder's verifier accepted (history)

vars == <<config, state, hrrDone, hrrInvariant, selectedAlpn, remaining, suite, active,
          identity, transcript, events, charged, authorized>>

Epochs == {"Plaintext", "Handshake", "Application"}

States == {"ExpectClientHello", "ExpectEndOfEarlyData", "ExpectClientCertificate",
           "ExpectClientCertVerify", "ExpectClientFinished", "Done", "Failed"}

Closed == -1

NoHello == ClientHello({}, <<>>, NoTicket, FALSE, {}, {})

-----------------------------------------------------------------------------
\* MUTANT: poisoning leaves the retained client certificate.
PoisonIdentityKept ==
    /\ state' = "Failed"
    /\ suite' = None
    /\ active' = FALSE
    /\ remaining' = Closed
    /\ UNCHANGED <<config, identity>>

\* Session::poison.
Poison ==
    /\ state' = "Failed"
    /\ suite' = None
    /\ active' = FALSE
    /\ remaining' = Closed
    /\ identity' = FALSE
    /\ UNCHANGED config

\* A call that returns an error before any event.
Fail ==
    /\ Poison
    /\ UNCHANGED <<hrrDone, hrrInvariant, selectedAlpn, transcript, events, charged, authorized>>

\* The sink takes the first k of the events a handler emits.
Accepts(evs, k) ==
    /\ k \in (IF config.sinkFails THEN 0..Len(evs) ELSE {Len(evs)})
    /\ events' = events \o SubSeq(evs, 1, k)

\* The call fails at the event that is refused.  Nothing reads the transcript of
\* a failed connection, so it keeps the one of the last completed message.
Refused(evs, k) ==
    /\ k < Len(evs)
    /\ Poison
    /\ UNCHANGED <<hrrDone, hrrInvariant, transcript, charged, authorized>>

Init ==
    /\ config \in Configs
    /\ ServerAdmitted(config)
    /\ state = "ExpectClientHello"
    /\ hrrDone = FALSE
    /\ hrrInvariant = NoHello
    /\ selectedAlpn = None
    /\ remaining = Closed
    /\ suite = None
    /\ active = FALSE
    /\ identity = FALSE
    /\ transcript = <<>>
    /\ events = <<>>
    /\ charged = 0
    /\ authorized = FALSE

-----------------------------------------------------------------------------
\* retry.rs, fingerprint: everything but cookie, key_share, early_data, padding
\* and the binder bytes has to stay.  The ticket's age is one of the rest.
SameHello(first, second) ==
    /\ first.suites = second.suites
    /\ first.groups = second.groups
    /\ first.ticket = second.ticket
    /\ first.age = second.age
    /\ first.pskModes = second.pskModes
    /\ first.alpns = second.alpns
    /\ first.certTypes = second.certTypes

\* ClientHelloInvariant::validate with ClientKx::require_retry.
RetryValid(ch, kx) ==
    \/ ~hrrDone
    \/ /\ ~ch.early
       /\ Len(ch.shares) = 1
       /\ kx.selected = RetryGroup(hrrInvariant.groups)
       /\ SameHello(hrrInvariant, ch)

\* The suite, by the server's preference.
SelectedSuite(ch) == FirstOffered(SupportedSuites, ch.suites)

\* ClientHelloOffers::parse and the checks of handle_client_hello in front of
\* the key share.
HelloAcceptable(ch, kx) ==
    /\ ch.wellFormed
    /\ ch.ticket # NoTicket => ch.pskModes # None
    /\ kx.ok
    /\ RetryValid(ch, kx)
    /\ SelectedSuite(ch) # None
    /\ suite \in {None, SelectedSuite(ch)}

\* Peer::selected_alpn.
AnsweredAlpn(ch) == SelectAlpn(config.alpn, ch.alpns)

\* Retry::send_hello_retry_request.
SendHelloRetryRequest(ch, kx) ==
    LET hrr == HelloRetryRequest(TRUE, SelectedSuite(ch), kx.retryGroup)
        evs == <<Send("Plaintext", <<hrr>>)>>
    IN \E k \in 0..Len(evs) :
         /\ Accepts(evs, k)
         /\ UNCHANGED selectedAlpn
         /\ \/ Refused(evs, k)
            \/ /\ k = Len(evs)
               /\ hrrDone' = TRUE
               /\ hrrInvariant' = ch
               /\ suite' = SelectedSuite(ch)
               /\ transcript' = <<MessageHash(<<ch>>), hrr>>
               /\ UNCHANGED <<config, state, remaining, active, identity, charged, authorized>>

-----------------------------------------------------------------------------
\* What try_accept_psk makes of the hello's ticket.  opens: the ticket keys
\* decrypt it and it is within its lifetime.
PskOffered(ch, opens) ==
    /\ HashAlg(SelectedSuite(ch)) = RESUMPTION_HASH
    /\ ch.ticket # NoTicket
    /\ ch.pskModes = "Dhe"
    /\ config.ticketKeys
    /\ opens

\* MUTANT: early data is admitted under another ALPN than the ticket's.
EarlyAdmittedAnyAlpn(ch, psk, ageOk, registers) ==
    /\ config.guard /\ ch.early /\ psk
    /\ ch.ticket.early /\ ch.ticket.suite = SelectedSuite(ch)
    /\ ageOk /\ registers

\* EarlyData::admit.  ageOk: the claimed and the measured age agree; registers:
\* EarlyDataGuard::register takes the binder.
EarlyAdmitted(ch, psk, ageOk, registers) ==
    /\ config.guard
    /\ ch.early
    /\ psk
    /\ ch.ticket.early
    /\ ch.ticket.alpn = AnsweredAlpn(ch)
    /\ ch.ticket.suite = SelectedSuite(ch)
    /\ ageOk
    /\ registers

\* Negotiation::new: a client that insists on a raw public key gets nothing else.
CertificateTypeAcceptable(ch) == "server" \in ch.certTypes => config.certType = "RawPublicKey"

\* MUTANT: EncryptedExtensions does not tell the client of accepted early data.
EncryptedFlightSilent(ch, base, psk, early) ==
    LET ee == EncryptedExtensions(TRUE, ch.certTypes, config.mode = "Quic", AnsweredAlpn(ch), FALSE)
    IN IF psk THEN <<ee, Finished(Mac("server", Append(base, ee)))>>
       ELSE <<ee, Certificate("Valid")>>

\* The server's encrypted flight: EncryptedExtensions, on a full handshake the
\* request and the server's certificate, and Finished.
EncryptedFlight(ch, base, psk, early) ==
    LET ee == EncryptedExtensions(TRUE, ch.certTypes, config.mode = "Quic", AnsweredAlpn(ch), early)
        cr == IF ~psk /\ config.clientAuth # None THEN <<CertificateRequest(TRUE, TRUE)>> ELSE <<>>
        head == <<ee>> \o cr \o (IF psk THEN <<>> ELSE <<Certificate("Valid")>>)
        cv == IF psk THEN <<>> ELSE <<CertificateVerify(Mac("server", base \o head))>>
    IN head \o cv \o <<Finished(Mac("server", base \o head \o cv))>>

\* MUTANT: a client that must authenticate is not waited for.
AfterHelloUnauthenticated(psk, early) ==
    IF early /\ UsesEndOfEarlyData(config.mode) THEN "ExpectEndOfEarlyData" ELSE "ExpectClientFinished"

\* MUTANT: a QUIC client is expected to send EndOfEarlyData too.
AfterHelloQuicWaits(psk, early) ==
    IF early THEN "ExpectEndOfEarlyData"
    ELSE IF ~psk /\ config.clientAuth # None THEN "ExpectClientCertificate"
    ELSE "ExpectClientFinished"

\* Where handle_client_hello leaves the connection.
AfterHello(psk, early) ==
    IF early /\ UsesEndOfEarlyData(config.mode) THEN "ExpectEndOfEarlyData"
    ELSE IF ~psk /\ config.clientAuth # None THEN "ExpectClientCertificate"
    ELSE "ExpectClientFinished"

\* handle_client_hello past the key share.  A bad binder fails it after the
\* peer's transport parameters were reported, an unacceptable certificate type
\* after ServerHello was sent.
Answer(ch, kx, opens, ageOk, registers) ==
    LET offered == PskOffered(ch, opens)
        bound == offered => ch.binder = "Valid"
        early == EarlyAdmitted(ch, offered, ageOk, registers)
        sh == ServerHello(TRUE, SelectedSuite(ch), kx.selected, IF offered THEN "First" ELSE None)
        base == transcript \o <<ch, sh>>
        flight == EncryptedFlight(ch, base, offered, early)
        params == IF config.mode = "Quic" THEN <<Signal("PeerExtension")>> ELSE <<>>
        hello == (IF early THEN <<Signal("ZeroRttKeysReady")>> ELSE <<>>)
                   \o <<Send("Plaintext", <<sh>>), KeysReady("Handshake")>>
        rest == <<Send("Handshake", flight), KeysReady("Application")>>
        evs == params \o (IF bound THEN hello ELSE <<>>)
                      \o (IF bound /\ CertificateTypeAcceptable(ch) THEN rest ELSE <<>>)
        succeeds == bound /\ CertificateTypeAcceptable(ch)
    IN \E k \in 0..Len(evs) :
         /\ Accepts(evs, k)
         /\ selectedAlpn' = AnsweredAlpn(ch)
         /\ \/ Refused(evs, k)
            \/ /\ k = Len(evs)
               /\ ~succeeds
               /\ Poison
               /\ UNCHANGED <<hrrDone, hrrInvariant, transcript, charged, authorized>>
            \/ /\ k = Len(evs)
               /\ succeeds
               /\ state' = AfterHello(offered, early)
               /\ remaining' = IF early THEN MaxEarlyData ELSE Closed
               /\ suite' = SelectedSuite(ch)
               /\ active' = TRUE
               /\ transcript' = base \o flight
               /\ UNCHANGED <<config, hrrDone, hrrInvariant, identity, charged, authorized>>

\* Hello::handle_client_hello.
HandleClientHello(ch, opens, ageOk, registers) ==
    /\ state = "ExpectClientHello"
    /\ ch.type = "ClientHello"
    /\ \E kx \in {ClientKx(ch.groups, ch.shares)} :
         \/ /\ ~HelloAcceptable(ch, kx) \/ (kx.selected = None /\ hrrDone)
            /\ Fail
         \/ /\ HelloAcceptable(ch, kx)
            /\ kx.selected = None
            /\ ~hrrDone
            /\ SendHelloRetryRequest(ch, kx)
         \/ /\ HelloAcceptable(ch, kx)
            /\ kx.selected # None
            /\ ~AlpnAcceptable(config.alpn, ch.alpns)
            /\ Fail
         \/ /\ HelloAcceptable(ch, kx)
            /\ kx.selected # None
            /\ AlpnAcceptable(config.alpn, ch.alpns)
            /\ Answer(ch, kx, opens, ageOk, registers)

-----------------------------------------------------------------------------
\* The client's MACs and signatures cover the whole transcript.
Verifies(m) == m.mac = Mac("client", transcript)

\* A step that checks a message and moves on.
Advance(m, next, keep) ==
    /\ state' = next
    /\ identity' = keep
    /\ transcript' = Append(transcript, m)
    /\ UNCHANGED <<config, hrrDone, hrrInvariant, selectedAlpn, suite, active, events, charged>>

\* EarlyData::close, when the client ends its early data.
CloseWindow == remaining' = Closed

\* Authentication::handle_end_of_early_data.
HandleEndOfEarlyData(m) ==
    /\ state = "ExpectEndOfEarlyData"
    /\ m.type = "EndOfEarlyData"
    /\ CloseWindow
    /\ Advance(m, "ExpectClientFinished", identity)
    /\ UNCHANGED authorized

\* An empty Certificate is an anonymous client, allowed only when requested.
AnonymousAllowed == config.clientAuth = "Requested"

\* Authentication::handle_client_certificate.
HandleClientCertificate(m) ==
    /\ state = "ExpectClientCertificate"
    /\ m.type = "Certificate"
    /\ \/ /\ m.entries = "Invalid" \/ (m.entries = "Empty" /\ ~AnonymousAllowed)
          /\ Fail
       \/ /\ m.entries = "Empty"
          /\ AnonymousAllowed
          /\ Advance(m, "ExpectClientFinished", identity)
          /\ UNCHANGED <<remaining, authorized>>
       \/ /\ m.entries = "Valid"
          /\ Advance(m, "ExpectClientCertVerify", TRUE)
          /\ UNCHANGED <<remaining, authorized>>

\* Possession of the key, then the embedder's ClientCertVerifier.
IdentityAccepted(m, accepts) == Verifies(m) /\ accepts

\* Authentication::handle_client_cert_verify.
HandleClientCertVerify(m, accepts) ==
    /\ state = "ExpectClientCertVerify"
    /\ m.type = "CertificateVerify"
    /\ \/ ~IdentityAccepted(m, accepts) /\ Fail
       \/ /\ IdentityAccepted(m, accepts)
          /\ Advance(m, "ExpectClientFinished", FALSE)
          /\ authorized' = accepts
          /\ UNCHANGED remaining

\* Whether emit_session_ticket has a ticket to send.
IssuesTicket == config.ticketKeys /\ HashAlg(suite) = RESUMPTION_HASH

\* Resumption::handle_client_finished with emit_session_ticket.
HandleClientFinished(m) ==
    /\ state = "ExpectClientFinished"
    /\ m.type = "Finished"
    /\ \/ ~Verifies(m) /\ Fail
       \/ /\ Verifies(m)
          /\ UNCHANGED selectedAlpn
          /\ LET nst == NewSessionTicket(TRUE, TRUE, Ticket(suite, selectedAlpn, config.guard))
                 evs == <<Signal("Done")>>
                          \o (IF IssuesTicket THEN <<Send("Application", <<nst>>)>> ELSE <<>>)
             IN \E k \in 0..Len(evs) :
                  /\ Accepts(evs, k)
                  /\ \/ Refused(evs, k)
                     \/ /\ k = Len(evs)
                        /\ state' = "Done"
                        /\ remaining' = Closed
                        /\ transcript' = Append(transcript, m)
                        /\ UNCHANGED <<config, hrrDone, hrrInvariant, suite, active, identity,
                                       charged, authorized>>

\* Session::handle_key_update; see KeyUpdate.tla for the budget.
HandleKeyUpdate(m, withinBudget) ==
    /\ state = "Done"
    /\ m.type = "KeyUpdate"
    /\ Occurrences(events, "KeyUpdate") < MaxPostHandshake
    /\ \/ ~(AllowsTlsKeyUpdate(config.mode) /\ withinBudget) /\ Fail
       \/ /\ AllowsTlsKeyUpdate(config.mode)
          /\ withinBudget
          /\ UNCHANGED selectedAlpn
          /\ LET evs == <<Signal("KeyUpdate")>>
             IN \E k \in 0..Len(evs) :
                  /\ Accepts(evs, k)
                  /\ \/ Refused(evs, k)
                     \/ /\ k = Len(evs)
                        /\ UNCHANGED <<config, state, hrrDone, hrrInvariant, remaining, suite,
                                       active, identity, transcript, charged, authorized>>

-----------------------------------------------------------------------------
\* Whether EarlyData::charge takes len more bytes.
Fits(len) == remaining # Closed /\ (config.mode = "Quic" \/ len <= remaining)

\* QUIC counts early data itself, so charge does not: the bound of the model.
MaxCharged == MaxEarlyData + 2

\* Server::note_early_data with EarlyData::charge.
NoteEarlyData(len) ==
    /\ state # "Failed"
    /\ \/ ~Fits(len) /\ Fail
       \/ /\ Fits(len)
          /\ charged' = charged + len
          /\ charged' <= MaxCharged
          /\ remaining' = IF config.mode = "Quic" THEN remaining ELSE remaining - len
          /\ UNCHANGED <<config, state, hrrDone, hrrInvariant, selectedAlpn, suite, active,
                         identity, transcript, events, authorized>>

-----------------------------------------------------------------------------
\* The arms of Drive::process.
Expected ==
    {<<"ExpectClientHello", "ClientHello", "Plaintext">>,
     <<"ExpectEndOfEarlyData", "EndOfEarlyData", "Handshake">>,
     <<"ExpectClientCertificate", "Certificate", "Handshake">>,
     <<"ExpectClientCertVerify", "CertificateVerify", "Handshake">>,
     <<"ExpectClientFinished", "Finished", "Handshake">>,
     <<"Done", "KeyUpdate", "Application">>}

Handle(m) ==
    \/ \E opens, ageOk, registers \in BOOLEAN : HandleClientHello(m, opens, ageOk, registers)
    \/ HandleEndOfEarlyData(m)
    \/ HandleClientCertificate(m)
    \/ \E accepts \in BOOLEAN : HandleClientCertVerify(m, accepts)
    \/ HandleClientFinished(m)
    \/ \E withinBudget \in BOOLEAN : HandleKeyUpdate(m, withinBudget)

\* The last arm of Drive::process, and a message that does not decode.
Unexpected(m, epoch) ==
    /\ state # "Failed"
    /\ <<state, m.type, epoch>> \notin Expected
    /\ Fail

\* Server::read_authorized_framed: refuse when failed, process, poison on error.
Read(m, epoch) ==
    \/ <<state, m.type, epoch>> \in Expected /\ Handle(m)
    \/ Unexpected(m, epoch)

Macs == {Mac("client", transcript), NoMac}

PeerMessages ==
    Hellos \cup Inputs \cup {CertificateVerify(mac) : mac \in Macs} \cup {Finished(mac) : mac \in Macs}

-----------------------------------------------------------------------------
\* A client that follows the protocol.  Across a retry it may only move its
\* key share to the requested group, drop early data, and recompute the
\* ticket's age and binder.
CompliantHello(ch) ==
    /\ ch.wellFormed
    /\ ch.binder = "Valid"
    /\ ch.suites # {}
    /\ RetryGroup(ch.groups) # None
    /\ SupportedOnce(ch.groups)
    /\ RefSharesInOrder(ch.groups, ch.shares)
    /\ ch.pskModes # None
    /\ AlpnAcceptable(config.alpn, ch.alpns)
    /\ CertificateTypeAcceptable(ch)
    /\ hrrDone => /\ ch = [hrrInvariant EXCEPT !.shares = ch.shares, !.early = FALSE, !.age = ch.age]
                  /\ ch.shares = <<RetryGroup(hrrInvariant.groups)>>
                  /\ config.peer = "KeepsAge" => ch.age = hrrInvariant.age

Compliant(m) ==
    CASE m.type = "ClientHello" -> CompliantHello(m)
      [] m.type = "EndOfEarlyData" -> UsesEndOfEarlyData(config.mode)
      [] m.type = "Certificate" -> m.entries = "Valid" \/ (m.entries = "Empty" /\ AnonymousAllowed)
      [] m.type \in {"CertificateVerify", "Finished"} -> Verifies(m)
      [] OTHER -> FALSE

HonestRead(m) ==
    /\ Compliant(m)
    /\ \/ \E opens, ageOk, registers \in BOOLEAN : HandleClientHello(m, opens, ageOk, registers)
       \/ HandleEndOfEarlyData(m)
       \/ HandleClientCertificate(m)
       \/ HandleClientCertVerify(m, TRUE)
       \/ HandleClientFinished(m)

AnyRead == \E m \in PeerMessages, epoch \in Epochs : Read(m, epoch)

Next ==
    \/ config.peer = "Any" /\ AnyRead
    \/ config.peer # "Any" /\ \E m \in PeerMessages : HonestRead(m)
    \/ \E len \in 0..(MaxEarlyData + 1) : config.peer = "Any" /\ NoteEarlyData(len)

Spec == Init /\ [][Next]_vars

\* The caller hands over what arrives, and a client that follows the protocol
\* goes on.  Nothing is assumed of another one.
FairSpec == Spec /\ WF_vars(config.peer # "Any" /\ Next)

-----------------------------------------------------------------------------
Proved(type) ==
    \E i \in DOMAIN transcript :
        /\ transcript[i].type = type
        /\ transcript[i].mac = Mac("client", SubSeq(transcript, 1, i - 1))

Used(type) == \E i \in DOMAIN transcript : transcript[i].type = type

Resumed == \E m \in SentOf(events, "ServerHello") : m.psk # None

\* The server's own certificate is in the transcript of a full handshake.
ClientPresented ==
    \E i, j \in DOMAIN transcript :
        i < j /\ transcript[i] = Certificate("Valid") /\ transcript[j] = Certificate("Valid")

\* A connection is Done only when the client proved the whole transcript with
\* its Finished.  A certificate it presented, and on a full handshake the one
\* it is required to present, is proved over the transcript and accepted by the
\* embedder's verifier before.
DoneIsAuthenticated ==
    state = "Done" =>
        /\ Proved("Finished")
        /\ ClientPresented \/ (config.clientAuth = "Required" /\ ~Resumed)
             => Proved("CertificateVerify") /\ authorized

\* What a connection holds for a later message it holds only until then: the
\* early-data window up to the message that ends early data (EndOfEarlyData on
\* TLS, Finished on QUIC), the client's Certificate up to its
\* CertificateVerify, application keys not past a failure.
HeldOnlyWhileUsed ==
    /\ remaining # Closed =>
         /\ Emitted(events, Signal("ZeroRttKeysReady"))
         /\ state = IF config.mode = "Tls" THEN "ExpectEndOfEarlyData" ELSE "ExpectClientFinished"
    /\ identity <=> state = "ExpectClientCertVerify"
    /\ active => state # "Failed"

\* Early-data keys are released exactly when EncryptedExtensions tells the
\* client so, only for the ticket's suite and ALPN and without a retry, and on
\* TLS never for more data than the ticket allowed, however it is cut.
EarlyDataOnTicketTerms ==
    /\ config.mode = "Tls" => charged <= MaxEarlyData
    /\ state # "Failed" =>
        \A ee \in SentOf(events, "EncryptedExtensions"), sh \in SentOf(events, "ServerHello") :
            /\ ee.early <=> Emitted(events, Signal("ZeroRttKeysReady"))
            /\ ee.early => /\ ~hrrDone
                           /\ \E i \in DOMAIN transcript :
                                /\ transcript[i].type = "ClientHello"
                                /\ transcript[i].ticket.alpn = ee.alpn
                                /\ transcript[i].ticket.suite = sh.suite

\* The server answers with its first choice among what the client offers: the
\* suite, the group among the shares sent, the protocol, also where its own
\* list names one twice.  It asks for a retry only when no share can be used,
\* for its first choice of group, and then answers a hello that offers what the
\* first one offered, with a share of that group.
AnswersBestOffer ==
    \A sh \in SentOf(events, "ServerHello"), ee \in SentOf(events, "EncryptedExtensions") :
        \A i \in DOMAIN transcript : transcript[i].type = "ClientHello" =>
            LET ch == transcript[i]
                shared == {ch.shares[j] : j \in DOMAIN ch.shares}
                first == {hrrInvariant.shares[j] : j \in DOMAIN hrrInvariant.shares}
            IN /\ sh.suite = FirstOffered(SupportedSuites, ch.suites)
               /\ sh.group = FirstOffered(SupportedGroups, shared)
               /\ ee.alpn = FirstOffered(config.alpn.preferred, ch.alpns)
               /\ RefSharesInOrder(ch.groups, ch.shares)
               /\ hrrDone => /\ first \cap Groups = {}
                             /\ shared = {RetryGroup(hrrInvariant.groups)}
                             /\ ~ch.early
                             /\ ch.suites = hrrInvariant.suites
                             /\ ch.ticket = hrrInvariant.ticket
                             /\ ch.alpns = hrrInvariant.alpns

\* The server never sends more in an epoch than outbound_layout announced: a
\* retry request and a hello with the largest share, the whole encrypted flight
\* for every mix of negotiated extensions, and the ticket.  Its flight storage
\* is reserved from the same lengths, so no message fails to encode.
SentWithinLayout ==
    \A epoch \in Epochs : SentLen(config, events, epoch) <= ServerLayout(config)[epoch]

\* Against a client that follows the protocol the handshake completes.
HandshakeCompletes ==
    config.peer # "Any" /\ ~config.sinkFails => <>(state = "Done")

\* The retry invariant holds a client to what RFC 8446 forbids it to change:
\* no client that keeps to that is refused.
HonestClientIsAnswered == state # "Failed"
=============================================================================
