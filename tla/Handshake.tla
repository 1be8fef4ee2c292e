----------------------------- MODULE Handshake -----------------------------
(***************************************************************************)
(* A client and a server of this library talking to each other: the        *)
(* composition of ClientSession and ServerSession.  What one side's sink   *)
(* accepted is what its transport carries, in order and once (TCP, or the  *)
(* CRYPTO streams of QUIC); the other side reads it one message at a time, *)
(* at the epoch it was sent in.  Either sink may refuse an event, and the  *)
(* connection may stop at any point.                                       *)
(*                                                                         *)
(* A client of this library always sends a share of a group every server   *)
(* of this library supports, so no retry happens between the two.          *)
(***************************************************************************)
EXTENDS Protocol

LOCAL INSTANCE SequencesExt

CONSTANTS
    Pairs,          \* the pairs of configurations, [client, server]
    Tickets,        \* the tickets a client may hold when it starts
    MaxEarlyData,   \* the early-data limit of a ticket
    AlpnsByBytes    \* the protocol names, in the order of their bytes

\* Both ends of a pair speak the same transport, and the server's certificate
\* is one the client's verifier takes, unless the negotiation already fails.
ASSUME HandshakeAssumption ==
    /\ MaxEarlyData \in Nat
    /\ \A p \in Pairs :
         /\ p.client.mode = p.server.mode
         /\ p.client.verifier = "X509Store" => p.server.certType = "X509"

VARIABLES
    \* the client; see ClientSession
    cConfig, cGiven, cState, cHrrDone, cResumption, cPskUsed, cEarlyData, cEarlyBound, cAlpn, cSuite,
    cActive, cPendingGroup, cCertResponse, cTranscript, cEvents,
    \* the server; see ServerSession
    sConfig, sState, sHrrDone, sHrrInvariant, sAlpn, sRemaining, sSuite, sActive, sIdentity,
    sTranscript, sEvents, sCharged, sAuthorized,
    \* how many of the other side's messages each side has read
    cRead, sRead

cVars == <<cConfig, cGiven, cState, cHrrDone, cResumption, cPskUsed, cEarlyData, cEarlyBound,
           cAlpn, cSuite, cActive, cPendingGroup, cCertResponse, cTranscript, cEvents>>

sVars == <<sConfig, sState, sHrrDone, sHrrInvariant, sAlpn, sRemaining, sSuite, sActive,
           sIdentity, sTranscript, sEvents, sCharged, sAuthorized>>

vars == <<cVars, sVars, cRead, sRead>>

Client == INSTANCE ClientSession WITH
    Configs <- {p.client : p \in Pairs}, Inputs <- {}, SuiteLists <- {}, MaxPostHandshake <- 1,
    config <- cConfig, given <- cGiven, state <- cState, hrrDone <- cHrrDone, resumption <- cResumption,
    pskUsed <- cPskUsed, earlyData <- cEarlyData, earlyBound <- cEarlyBound,
    selectedAlpn <- cAlpn, suite <- cSuite, active <- cActive, pendingGroup <- cPendingGroup,
    certResponse <- cCertResponse, transcript <- cTranscript, events <- cEvents

Server == INSTANCE ServerSession WITH
    Configs <- {p.server : p \in Pairs}, Hellos <- {}, Inputs <- {}, MaxPostHandshake <- 1,
    config <- sConfig, state <- sState, hrrDone <- sHrrDone, hrrInvariant <- sHrrInvariant,
    selectedAlpn <- sAlpn, remaining <- sRemaining, suite <- sSuite, active <- sActive,
    identity <- sIdentity, transcript <- sTranscript, events <- sEvents,
    charged <- sCharged, authorized <- sAuthorized

-----------------------------------------------------------------------------
\* The transport: the messages of the Send events, each with its epoch.
Wire(log) ==
    FlattenSeq([i \in DOMAIN log |->
        [j \in DOMAIN log[i].msgs |-> [epoch |-> log[i].epoch, msg |-> log[i].msgs[j]]]])

Init ==
    /\ Client!Init
    /\ Server!Init
    /\ [client |-> cConfig, server |-> sConfig] \in Pairs
    /\ cRead = 0
    /\ sRead = 0

ClientStarts ==
    /\ \E fresh \in BOOLEAN : Client!Start(fresh)
    /\ UNCHANGED <<sVars, cRead, sRead>>

ClientReads ==
    /\ cRead < Len(Wire(sEvents))
    /\ LET in == Wire(sEvents)[cRead + 1]
       IN Client!Read(in.msg, in.epoch, TRUE)
    /\ cRead' = cRead + 1
    /\ UNCHANGED <<sVars, sRead>>

ServerReads ==
    /\ sRead < Len(Wire(cEvents))
    /\ LET in == Wire(cEvents)[sRead + 1]
       IN Server!Read(in.msg, in.epoch)
    /\ sRead' = sRead + 1
    /\ UNCHANGED <<cVars, cRead>>

\* The server's transport hands it early data, which precedes EndOfEarlyData.
\* The client's application keeps to the limit of its ticket.
ServerTakesEarlyData ==
    /\ Emitted(cEvents, Signal("ZeroRttKeysReady"))
    /\ sRemaining # Server!Closed
    /\ \E len \in 1..(MaxEarlyData - sCharged) : Server!NoteEarlyData(len)
    /\ UNCHANGED <<cVars, cRead, sRead>>

Next == ClientStarts \/ ClientReads \/ ServerReads \/ ServerTakesEarlyData

Spec == Init /\ [][Next]_vars

\* Both applications start their side and hand over what their transport has.
FairSpec ==
    /\ Spec
    /\ WF_vars(ClientStarts)
    /\ WF_vars(ClientReads)
    /\ WF_vars(ServerReads)

-----------------------------------------------------------------------------
BothDone == cState = "Done" /\ sState = "Done"

\* When both sides are Done they agree on the transcript, the suite, the
\* protocol, on resumption and on whether early data was accepted.
Agreement ==
    BothDone =>
        /\ cTranscript = sTranscript
        /\ cSuite = sSuite
        /\ cAlpn = sAlpn
        /\ cPskUsed = Server!Resumed
        /\ Emitted(cEvents, Signal("EarlyDataAccepted"))
             <=> Emitted(sEvents, Signal("ZeroRttKeysReady"))

\* The message an endpoint reads next comes under keys it already has.
Readable(log, read, events) ==
    read < Len(Wire(log)) =>
        LET epoch == Wire(log)[read + 1].epoch
        IN epoch = "Plaintext" \/ Emitted(events, KeysReady(epoch))

\* Whoever has a message to read has already been given the keys of its epoch:
\* the client's answer is read under handshake keys the server derived before
\* it sent its flight, a ticket under application keys the client has.  And the
\* server reports Done only to a client that holds application keys, whatever
\* the client's sink refused after it let the Finished go.
KeysReadyInTime ==
    /\ cState # "Failed" => Readable(sEvents, cRead, cEvents)
    /\ sState # "Failed" => Readable(cEvents, sRead, sEvents)
    /\ Emitted(sEvents, Signal("Done")) => Emitted(cEvents, KeysReady("Application"))

\* The client's EndOfEarlyData reaches a server that waits for it, and only
\* then: the two sides never disagree on whether early data is being ended.
EarlyDataEndsTogether ==
    sState \notin {"Failed", "ExpectClientHello"} /\ sRead < Len(Wire(cEvents)) =>
        (Wire(cEvents)[sRead + 1].msg.type = "EndOfEarlyData" <=> sState = "ExpectEndOfEarlyData")

\* A pair that has a protocol, a certificate type and a client identity in
\* common.  A PSK makes the identity unnecessary but is not certain.
Compatible ==
    /\ \/ sConfig.alpn.preferred = <<>>
       \/ cConfig.alpns = {}
       \/ FirstOffered(sConfig.alpn.preferred, cConfig.alpns) # None
    /\ cConfig.verifier = "RawPublicKey" => sConfig.certType = "RawPublicKey"
    /\ sConfig.clientAuth = "Required" => cConfig.identity

\* The embedder's ClientCertVerifier refused the client's identity: the server
\* failed on a CertificateVerify whose signature it found good.
IdentityRefused ==
    /\ sState = "Failed"
    /\ sConfig.clientAuth # None
    /\ LET last == Wire(cEvents)[sRead].msg
       IN last.type = "CertificateVerify" /\ Server!Verifies(last)

\* A compatible pair whose sinks take every event completes: both sides become
\* Done, unless the server's embedder refuses the client.
PairsComplete ==
    Compatible /\ ~cConfig.sinkFails /\ ~sConfig.sinkFails => <>(BothDone \/ IdentityRefused)
=============================================================================
