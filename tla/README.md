# shin, modelled in TLA+

shin is a sans-I/O TLS 1.3 library: a client and a server state machine that
take handshake bytes in and hand events (bytes to send, keys to install,
outcomes) to an `EventSink` of the embedder. It runs over TLS records or QUIC
CRYPTO streams, resumes with PSK tickets, accepts 0-RTT data behind a replay
guard, authenticates clients on request, and updates keys after the handshake.

This directory holds a TLA+ specification of its protocol engine, the TLC
configurations that check it, and TLAPS proofs. Line numbers below refer to
`src/src/`.

## The system's parts

| part | source | module | status |
|---|---|---|---|
| traffic keys and KeyUpdate | `connection.rs`, `crypto/material.rs`, `client/updates.rs`, `server/session/updates.rs` | `KeyUpdate`, `KeyUpdateProofs` | modelled, safety proved |
| record layer | `wire/record` | `RecordLayer`, implements `Channel`; `RecordLayerProofs` | modelled, safety and refinement proved |
| client connection | `client/mod.rs`, `client/drive.rs`, `client/offer.rs`, `client/session` | `ClientSession`, `Sizes`; `ClientSessionProofs` | modelled, safety proved except for sizes |
| server connection | `server/mod.rs`, `server/session`, `wire/protocols.rs`, `wire/psk.rs` | `ServerSession`, `Negotiation`, `Sizes`; `ServerSessionProofs` | modelled, safety proved except for sizes and choices; the deployment around it is `EarlyData` |
| both ends together | the two above | `Handshake` | modelled |
| handshake reassembly | `wire/handshake/reassemblers.rs` | `Reassembler`, `ReassemblerProofs` | modelled, safety proved |
| early data, ticket keys, replay guard | `server/session/mod.rs`, `server/session/resumption.rs`, `server/bound/shard.rs`, `crypto/ticket`, `client/config/resumptions.rs` | `EarlyData`, `EarlyDataProofs` | modelled, safety proved |
| certificates and names | `identity/hostname.rs`, `identity/cert`, `identity/mod.rs` | `Names`, `DistinguishedNames`, `Certificates` | modelled from decoded fields on |
| certificate path search, trust anchors | `identity/chain`, `client/config/truststore.rs` | `ChainSearch`, `ChainSearchProofs`, `PathValidation` | modelled; the search proved |
| flights, workspaces, pools | `wire/handshake/storage.rs`, `wire/codec.rs` (length frames), `client/workspace.rs`, `server/workspace.rs` | `Workspace`, `Sizes`; `WorkspaceProofs` | modelled, safety proved except for sizes |
| configuration | `client/config`, `server/config.rs`, `server/bound/shard.rs` | `Sizes`, `Negotiation`, `ClientSession` | what later steps depend on |
| DER, message codec, cryptography | `identity/asn1.rs`, `identity/leafkey.rs`, `wire/extension.rs`, `wire/handshake/views.rs`, `crypto` | | not modelled, see below |

How they interact: records are opened by the record layer; the handshake bytes in
them go through the reassembler, message by message, to the client or server
session, which settles on parameters, validates a peer's chain, writes its flights
into a workspace or a lent store whose size was announced before, and tells the embedder which keys to install. Tickets
and the replay guard connect one connection to the next. After Done, key updates
move both record directions on.

`Protocol` is the vocabulary `ClientSession`, `ServerSession` and `Handshake` share:
suites, groups, messages and events. `MC*` modules instantiate a module for TLC.

## How code becomes TLA+

* One action is one call into the connection. A handler builds the list of
  events it will emit; the sink accepts a prefix of it. A shorter prefix than
  the list is a sink failure, which poisons the connection at exactly that
  event, as `Poison` and the `?` after every `emit` do in the code.
* A message is a record of the fields the handlers look at. Everything a parser
  only validates is one field, `wellFormed`.
* A MAC or a signature is the side that made it and the transcript it covers; a
  verification is equality of transcripts. Cryptography is otherwise ideal.
* A traffic secret is its generation, a nonce its sequence number.
* A configuration carries its surroundings. `config.peer` is `"Any"` (the peer
  sends anything at any time) or `"Compliant"` (it follows the protocol);
  `config.sinkFails` says whether the sink may refuse events. One run covers all
  of them, and a liveness property names the ones it speaks of.
* Loops of single-threaded code (the reassembler's, the path search's) are one
  step per turn.
* Pure code is an operator. What it should compute is a second definition whose
  name begins with `Ref`, written without the code's shortcuts; a property compares
  the two through a whole run of the code that uses them.
* Lengths are numbers of bytes, with the code's own constants. A text is a sequence
  of characters over a small alphabet, only where the code scans characters.

## Modules

**KeyUpdate.** Two endpoints after Done. `traffic[e]` is `material::State`,
`sealKey`/`openKey` are the keys the consumer installed, `log` the records sealed
so far. Actions are the application's calls (send data, request an update, send
a pending response) and the reading of one record. `RecordsOpen`: the next record
on the wire was sealed under the key the reader holds, although updates of the
two sides cross. `RequestsRemembered`, `BudgetHolds` and `ResponsesSent` state
that requests are not lost and get answered, and that the update budget is exact:
a live endpoint accepts no KeyUpdate beyond it and refuses none within it.

**RecordLayer.** A `Sealer`, a transport that may lose, repeat, reorder and damage
records, and an `Opener`. New read keys are installed whenever the KeyUpdate that
announced them was opened, before anything else is (`ReadDue`); a failed opener has
none due. `NonceNeverReused` holds through failing seals.
`ImplementsChannel` is refinement: **Channel** says what a direction promises (what
was written arrives in order, once, as a prefix, until it closes for good), and
under the mapping of `RecordLayer` every step of sealing, transport and opening is a
step of it or a stutter. `FailsOnlyIfDisturbed` and `AllDelivered` add what `Channel`
leaves open: without interference nothing fails and everything arrives, so refused
seals leave no gap.

**ClientSession.** The constructors, the setters, `start_into`, `read_framed_into` and
`QuicPostHandshake`, with hello retry and cookies, PSK and early data, both verifiers,
client certificates and tickets. `given` is the ticket after `Restore::bind`, which
drops early data when transport or protocol no longer fit. `DoneIsAuthenticated`:
Done implies a verified Finished, and a verified certificate or an offered PSK.
`AnswerFitsLastHello`: what the client goes on with, its last hello offered, and a
retry fixes suite and group. `EarlyDataOutcome`: an offer of early data is settled
once, accepted only on the terms of its ticket, and ended when it has to be.
`SentWithinLayout`: see Sizes. `HandshakeCompletes`: with a compliant server the client
becomes Done.

**ServerSession.** `read_authorized_framed` and `note_early_data`. The verdicts of
the ticket keys, the clock and the replay guard are parameters of the hello action.
`HeldOnlyWhileUsed` brackets the early-data window, the retained client identity
and the traffic keys; `EarlyDataOnTicketTerms` limits early data to what a ticket
allows; `DoneIsAuthenticated`, `SentWithinLayout` and `HandshakeCompletes` are as for
the client.

**Negotiation.** How the server chooses: `PreparedAlpn` (indices sorted by bytes,
duplicates removed, binary search for each name the client lists) and
`ClientKx::parse` (groups and shares read together with one advancing cursor and
masks). `AnswersBestOffer` states the result without any of that: the first of the
server's own order among what was offered; a retry only if no share can be used, and
the second hello is the first one with the share that was asked for. The test for a
repeated share in `shared_mask` is kept although the cursor makes it unreachable.

**Sizes.** The encoded length of every message both ends send, from the encoders,
and the bounds computed from a configuration: `maximum_initial_len`, both
`outbound_layout`s, `full_tls_handshake_flight_len`, `Config::prepare_for` and
`Layout::admit`. `SentWithinLayout` relates the two along whole handshakes: what is
sent per epoch never exceeds what was announced beforehand, whichever suites,
extensions, retry, certificate or ticket come about. The client's property takes from
the code that its second hello is at most one record; `LayoutCoversBothHellos` drops
that condition and is violated, see the disagreements below. That a layout asked for
before `set_cipher_suites` remains sufficient is part of both; it holds because early
data is accepted under SHA-256 only, whose shorter Finished makes room for
EndOfEarlyData.

**Handshake.** The client and the server read each other's `Send` events in order.
`Agreement`: when both are Done they agree on transcript, suite, ALPN, resumption
and early data. `KeysReadyInTime` and `EarlyDataEndsTogether` say that neither is
ever out of step, whatever a sink refuses; `PairsComplete` that every compatible
pair completes, unless the server refuses the identity whose CertificateVerify it
just verified.

**Reassembler.** `HsReassembler::read`: four streams of messages cut into records in
every way. `MessagesMatchStream`: the session sees each message once, in order, as
soon as it is complete. `WithinOneEpoch`: no message spans epochs. `FailureIsDue`:
an error is never due to where a record happened to end. `CallReturns`: the loop
ends.

**EarlyData.** The shards of a deployment, their clocks, replay stores and domains,
the `Rotator` and its snapshots of ticket keys, tickets, and hellos that arrive
late, anywhere and again. `AcceptedOnce` and `AcceptedPromptly` are what the replay
guard, the domains and the age check promise together; `PromptHelloIsAdmitted`
that a timely hello is not refused, also where the obfuscated age wraps;
`OpensOneRotationBack` that exactly two generations of keys open tickets. The
guard's store is the embedder's and is marked external.

**ChainSearch.** `Search::run` and `next_issuer` with the frames, the used set, the
`Seen` table and the signature cache, against a definition of a trusted path that
knows nothing of a search. `AcceptsTrustedPath` and `RefusesOnlyUntrusted` say that
the memoized search decides exactly that; `SearchEnds` that it ends.

**Names, DistinguishedNames, Certificates.** Operators on decoded fields: host names,
wildcards and addresses; name constraints, parsed each time and prepared; the
canonical form of directory strings, comparison of names and their digest; dates,
versions, serials, algorithms and PSS parameters; the extension filter and the
checks of a leaf and of an authority.

**PathValidation.** Puts these under the search: a bundle (certificates, anchors,
host, time) is turned into the world that `ChainSearch` walks. The anchors are in a
store, sorted by digest and then by DER with those of one DER in any order (the sort is
unstable), or in a slice in the caller's order, where an anchor whose name does not
parse ends the look-up with an error. `AcceptedChainIsValid` and `ValidChainIsAccepted`
compare the verdict with reference definitions (names by label, constraints by RFC
5280, distinguished names by their words, validity by the calendar, anchors by a scan),
in both directions. The code asks one anchor only, the first that issued the last
certificate: a path that this anchor's constraints refuse is refused, also if another
anchor of the same name and key would admit it. `ValidChainIsAccepted` speaks of the
anchors that may be asked (`RefDeciding`): all that issued the certificate in a store,
the first in a slice if no malformed name stands before it. `StoreFindsIssuer`: in every
order of the store its index finds an anchor exactly if one issued the certificate,
although digests collide.

What a certificate may do (`CheckEndEntity`, `CheckAuthority`), which signature
algorithm goes with which key (`Verifies`), what parses (`CertParses`) and how the text of
an address is read (`ParseIp`) have no second definition: both sides of the comparison
use the one translated from the code.

**Workspace.** The four pools with their slots, reservations and leases; the buffers
of a slot; flights encoded into the slot's own buffer or into storage the sink
lends, byte by byte, with nested length frames, overflow, rollback, commit and a
sink that refuses. `FlightsAreWhole`: a transport's store holds complete flights
with right lengths and nothing else, and later flights do not touch earlier ones.
`OwnersAreSeparate`: connections that use a slot one after the other share no
bytes, and the pool's ticket goes to one connection. Frames roll back to their
start, the flight to its base, and the buffer gets its own base and limit back. A
client keeps its peer's key in the flight buffer between Certificate and
CertificateVerify. That no flight begins in between follows from the states of the
handshake (flights begin at the start, at a retry, at the peer's Finished and when
Done) and is an assumption here, in `MayBegin`.

## Runs

| run | bounds | what it shows |
|---|---|---|
| `traffic` | budget 2, 2 calls per endpoint; key limit 2, 4 records, 2 faults | safety and liveness of key updates; what arrives through the record layer, and that all of it does unless disturbed |
| `record_layer_due` | key limit 2, 4 records, 1 fault | *violation*: a due KeyUpdate cannot be sealed any more |
| `client_session` | 5 endpoints × their surroundings, 4 tickets bound to this or the other transport, 2 clients tuned so that the hello just fits and just does not, one with an identity beyond a record, cookies at the edge | client safety, sizes and completion |
| `client_layout` | the client with an identity beyond a record | *violation*: two hellos exceed the announced bound |
| `client_session_retry` | compliant server, client with SHA-384 suites too | *violation*: retry to SHA-384 with a ticket fails |
| `server_session` | 5 endpoints × their surroundings, some 45 hellos: other orders of groups, unknown groups, shares missing or repeated, protocols listed twice | server safety, choices, sizes and completion |
| `server_session_retry` | compliant client whose ticket age changes between hellos | *violation*: the second hello is refused |
| `handshake` | every pair of `MCPairs`, sinks that may fail | agreement, both ends in step, completion |
| `reassembler` | header 2, messages of 2 to 6 bytes, buffers of 1 and 3, 4 records | every cut of a stream into records |
| `early_data` | 3 shards, 2 stores, clocks 1 apart, lifetime 4, skew 1, 3 keys, 1 ticket, 1 hello | single use and timeliness of early data |
| `chain_search` | 4 certificates: every signature pattern; about 13,000 bundles in 13 classes that differ from a valid chain in hosts, addresses, constraints, names, stores, shared anchors, times, extensions, algorithms, fields or crossed signatures | search and validation against their definitions |
| `workspace` | 2 slots, 2 connections, 2 flights of up to 4 bytes, loans of 2 and 4 | flights and buffers of all four pools |

The bounds are small because the code has small case distinctions: a limit of 2
reaches "below", "at" and "beyond" a limit; two key generations in flight each way
are what crossing updates need; a client has one ticket slot and one retry; one
hello that is delivered any number of times is what a replay is; three issuers
give every order and detour of a path; addresses of one-bit bytes, a filter of three
bits and four digests make prefixes and collisions come up in lists of two or three;
sizes are the code's own, and instances sit on the boundary and one byte beyond; a
flight of four bytes holds a nested frame or two messages, and the second flight is
the first with something to preserve.
`workspace` treats its two slots as interchangeable (symmetry; the run checks
invariants only). `traffic` puts `KeyUpdate` and `RecordLayer`, which share no state, side
by side: one moves while the other is where it started. Deadlock is not checked: connections, calls and searches end,
and every bound ends its model.

**Fairness.** `traffic` and `handshake` assume weak fairness of reading what has
arrived, of starting, and of sending a pending KeyUpdate response; for the record
layer `traffic` assumes it of opening what arrived and of installing keys. The embedder provides these: shin
only runs when it is called, and its API asks the embedder to feed it input and to
drain `send_pending_into`. `client_session` and `server_session` assume progress of
a compliant peer only. `reassembler` and `chain_search` assume that a call that was
made runs, as code of one thread does. `early_data` and `workspace` assume nothing.

## Disagreements between code and documentation

* `record_layer_due`: `needs_key_update` becomes true at the sequence number at
  which `check_seq` refuses to seal, so the KeyUpdate cannot leave under the old key
  as the repository's README asks.
* `server_session_retry`: the fingerprint kept over a retry covers the obfuscated
  ticket age, which clients may, and shin's own client does, recompute.
* `client_session_retry`: after a retry request for a SHA-384 suite a client
  with a ticket cannot compute its binder and fails rather than resend.
* `client_layout`: `client/mod.rs:681` says that the second hello "remains bounded to
  one plaintext record"; it is encoded into the flight storage, which is larger when
  the client's identity is. A large cookie then makes the two hellos exceed the
  `plaintext` bound of `OutboundLayout`, which "covers both ClientHellos"
  (`connection.rs:79`).

## Proofs

What TLC checks on an instance, TLAPS proves for every value of the constants that
the modules' `ASSUME`s allow. Those assumptions are types (a limit is a natural
number, a configuration is a record with certain fields) and a few facts of the
code: a ticket's lifetime is shorter than the range of an age and longer than the
skew and the drift of clocks together, a ticket that allows early data has a SHA-256
suite, a shard's protocol list was prepared, a header is not empty. TLC evaluates every one of them in the runs. Each inductive
invariant was checked by TLC on the run's instance before it was proved.

| module | theorem | states, for every instance |
|---|---|---|
| `KeyUpdateProofs` | `TypeCorrect`, `RecordsAlwaysOpen`, `BudgetAlwaysHolds`, `RequestsAlwaysRemembered` | `TypeOK`, `RecordsOpen`, `BudgetHolds`, `RequestsRemembered` |
| `RecordLayerProofs` | `NoncesNeverReused`, `RefinesChannel`, `FailsOnlyDisturbed` | `NonceNeverReused`, `ImplementsChannel`, `FailsOnlyIfDisturbed` |
| `ReassemblerProofs` | `MessagesAlwaysMatch`, `AlwaysWithinOneEpoch`, `FailuresAlwaysDue` | `MessagesMatchStream`, `WithinOneEpoch`, `FailureIsDue` |
| `EarlyDataProofs` | `AlwaysAcceptedOnce`, `AlwaysAcceptedPromptly`, `AlwaysOpensOneRotationBack`, `PromptHelloAlwaysAdmitted` | `AcceptedOnce`, `AcceptedPromptly`, `OpensOneRotationBack`, `PromptHelloIsAdmitted` |
| `ChainSearchProofs` | `AlwaysAcceptsTrustedPath`, `RefusesOnlyUntrustedChains`, `IndexAlwaysExact` | `AcceptsTrustedPath`, `RefusesOnlyUntrusted`, `IndexIsExact` |
| `ClientSessionProofs` | `DoneIsAlwaysAuthenticated`, `EarlyDataAlwaysSettled`, `AnswerAlwaysFits` | `DoneIsAuthenticated` of the client, `EarlyDataOutcome`, `AnswerFitsLastHello` |
| `ServerSessionProofs` | `DoneIsAlwaysAuthenticated`, `AlwaysHeldOnlyWhileUsed`, `EarlyDataAlwaysOnTicketTerms` | `DoneIsAuthenticated` of the server, `HeldOnlyWhileUsed`, `EarlyDataOnTicketTerms` |
| `WorkspaceProofs` | `BuffersAlwaysRestored`, `FlightsAlwaysWhole`, `OwnersAlwaysSeparate` | `TypeOK`, `FlightsAreWhole`, `OwnersAreSeparate` of `Workspace` |

None of these properties is inductive. What is, and why it has to be:

* **KeyUpdate.** `RecordsOpen` speaks of the next record only. The generations along
  a log rise by one at each KeyUpdate and nowhere else (`LogChained`), a live writer
  holds the generation after its whole log (`WriterInStep`) and a live reader the
  one after what it has read (`ReaderInStep`). The directions are independent, so
  crossing updates cannot disturb each other. The count of a live endpoint is the
  length of the run of KeyUpdates it last read, neither less (`CountCoversRun`) nor
  more (`RunCoversCount`).
* **RecordLayer.** Positions (generation, then sequence number) order everything.
  The wire's records have increasing positions, all before the one the sealer
  writes next (`WireOrdered`); used nonces are behind it too (`NoncesBehind`); the
  opener stands behind all it opened and not beyond anything it did not
  (`OpenerBetween`), so what it opened is a prefix of the wire (`OpenedPrefix`). Keys
  are due to a live opener only (`DueIsLive`).
  The refinement follows: an opened record is the next one of the channel. Without a
  fault the positions have no gaps (`NoGaps`), so nothing is refused.
* **Reassembler.** The first byte that is not used up is the first byte of the next
  message (`InStep`), so the header the loop looks at is a real one. Bytes buffered
  come from records of one epoch (`OneEpochPending`), and the budget counts the
  updates that ended in the current record (`BudgetCounts`).
* **EarlyData.** An accepted hello is registered in the store of its domain until a
  ticket's lifetime has passed (`Guarded`), a domain names one life of one store
  (`DomainsDistinct`), and the age a client claims is the true one modulo 2^32,
  which the lifetime makes exact (`ClaimedAgeIsTrue`); so an acceptance that late
  does not exist.
* **ChainSearch.** Soundness: the frames are a path all checks admit, the used set
  is its set and cached verdicts are true (`FramesArePath`, `CacheIsTrue`).
  Completeness: whether a path can be finished depends on its last certificate and
  the set of its certificates; a state once entered is on the stack or dead
  (`SeenIsSettled`), and so is every issuer a frame has passed
  (`PassedIsSettled`). Both rest on the index of the table being exact: no two
  states share one and none lies outside. That is a fact about sums of powers of
  two. It is proved by induction on finite sets of numbers, which comes
  from the least element of a set (`SetInduction`, `SegmentInduction`).
* **Sessions.** Every call ends in one of a few named ways (`Ends`), which fix what
  was delivered to the sink and what was hashed; this is where each handler's guards
  and early returns are used (`NextEnds`). The invariants then say, state by state,
  what has been proved (`Authenticated`), how far an offer is settled
  (`EarlyDataSettled`), which hello the state is about (`HelloIsLast`), that an
  answer is given once (`Shape`) and that what was charged and what remains add up
  to the limit (`ChargedWithinLimit`).
* **Workspace.** A loan swaps the bytes of a slot's buffer with a transport's store,
  so `Own` says where the slot's buffer is, and every such buffer is at home with its
  tenant: its own base and limit, bytes of nobody else (`PoolInv`). The buffer of a
  call holds all that was asked for or, after an overflow, a part that an open frame
  or a waiting type is bound to abandon (`Draft`): the reason why a flight that is
  committed has no hole. A store holds the flights sent, with the draft behind them
  and nothing else (`Whole`, `EndInv`).

Some definitions were put so that they can be reasoned about, without a change of
meaning: `HelloAt` and `LastHello` of the client choose the largest position,
`ClientPresented` of the server names two positions of certificates, and
`Negotiation` has its own `Elems` and `Smallest`, `EarlyDataOutcome` counts by
positions (`AtMostOne`) and `Bit` of `ChainSearch` is a recursive function. The drift of the clocks, `MaxDrift`,
is a constant of `EarlyData`. A sequence number in `RecordLayer` stays below the limit, as
`check_seq` has it.

Model-checked only:

* liveness (`ResponsesSent`, `AllDelivered`, `CallReturns`, `SearchEnds`,
  `HandshakeCompletes`, `PairsComplete`): the prover has no rules for fairness;
* `AnswersBestOffer`, which compares sorting, binary search and a cursor with a
  definition by position, and both `SentWithinLayout`, which compare sums over
  a whole log with a layout: both need induction over lists;
* `Agreement`, `KeysReadyInTime`, `EarlyDataEndsTogether` of `Handshake`, which need the
  invariants of both sessions at once;
* `AcceptedChainIsValid`, `ValidChainIsAccepted`, `StoreFindsIssuer`, which compare
  recursive definitions on texts and names.

## Not modelled

DER and SPKI decoding (`identity/asn1.rs`, `identity/leafkey.rs`, `identity/spki.rs`)
and the message codec (`wire/extension.rs`, `wire/handshake/views.rs`,
`wire/handshake/messages.rs`) are pure functions of bytes without shortcuts a model
would tell apart; a parser's verdict is the `wellFormed` field of a message, and the
lengths the encoders produce are in `Sizes`. Unicode normalisation and case folding
are tables of a library: `DistinguishedNames` keeps the mapping to spaces and to
nothing, combining marks and prohibited characters. Key schedule, AEAD, signatures and
key exchange call into cryptographic libraries and are ideal here, and so is the
sealed encoding of a ticket (`crypto/ticket/secret.rs`). Configuration builders that only
store a field are left out. The slab behind a pool and the memory primitives
(`memory`) are seen through the leases they hand out. `replace_ticket_keys` acts on a
shard and is in `EarlyData`; within one connection it only decides whether tickets
open and are issued, which `ServerSession` chooses anew at each hello and per
configuration.

## Plan

1. Proofs: the choice of the key exchange in `AnswersBestOffer`; `EarlyDataEndsTogether` of `Handshake` from the
   invariants of the two sessions.
2. A retry between two ends of this library (`Handshake` with a server that does not
   support the client's first group), when such a configuration becomes possible.
3. An abstract specification of an agreed handshake that `Handshake` implements.
