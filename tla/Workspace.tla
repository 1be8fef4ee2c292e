----------------------------- MODULE Workspace -----------------------------
(***************************************************************************)
(* A pool of connections that share recycled workspaces (client and server  *)
(* workspace.rs), and the flights those connections encode into a workspace *)
(* buffer or straight into storage the sink lends (wire/handshake/storage,  *)
(* wire/codec).                                                             *)
(*                                                                          *)
(* A byte is the connection and the flight it was written for; a length     *)
(* prefix is one byte that also holds the length.  Bytes that come from the *)
(* peer belong to flight 0.  One call runs at a time: the calls of a pool   *)
(* are those of one thread.                                                 *)
(***************************************************************************)
EXTENDS Integers, Sequences

CONSTANTS
    Slots,               \* the slots of the pool
    MAX_PLAINTEXT_BODY,  \* one record
    CertificateNeeded,   \* the longest Certificate a client's verifier accepts
    FlightNeeded,        \* the longest prepared flight
    IdentityNeeded,      \* the longest peer identity a verifier accepts
    ParamsCapacity,      \* transport parameters a reserved slot retains
    Loans,               \* how much room a sink may lend
    MaxConnections,      \* bound: connections and reservations made
    MaxFlights,          \* bound: flights begun, over all connections
    MaxAsked             \* bound: bytes one flight writes

ASSUME WorkspaceAssumption ==
    /\ {MAX_PLAINTEXT_BODY, CertificateNeeded, FlightNeeded} \subseteq Nat
    /\ {IdentityNeeded, ParamsCapacity} \subseteq Nat
    /\ {MaxConnections, MaxFlights, MaxAsked} \subseteq Nat
    /\ Loans \subseteq Nat

\* The pools: client::Pool and FramedPool, server::Pool and QuicPool.
Kinds == {"Client", "FramedClient", "Server", "QuicServer"}

VARIABLES
    kind,       \* the pool
    slot,       \* of every slot: [phase, owner, failed, retained]
    params,     \* of every slot: the transport parameters it retains
    reassembly, \* of every slot: the reassembly buffer
    flight,     \* of every slot: the flight buffer
    identity,   \* of every slot: the peer identity buffer of a server
    first,      \* the pool still has its restored session ticket
    call,       \* the flight being encoded, or NoCall
    made,       \* connections and reservations made so far
    begun,      \* flights begun so far
    ticket,     \* of every connection: the ticket it started with
    outbox,     \* of every connection: the flight store of its transport
    sent        \* history, of every connection: its flights, [at, size, lengths]

vars == <<kind, slot, params, reassembly, flight, identity, first, call, made, begun,
          ticket, outbox, sent>>

Connections == 1 .. MaxConnections

\* bound: the bytes a fragment brings or a put writes
Chunks == 1 .. 2

NoCall == [slot |-> "None"]

Framed == kind \in {"FramedClient", "QuicServer"}

OfClient == kind \in {"Client", "FramedClient"}

Larger(a, b) == IF a > b THEN a ELSE b

\* Layout::new, framed and prepared: what a pool of this kind allocates.  A
\* framed transport owns its flights and frames its input; a client keeps the
\* peer's key in its flight buffer.
Layout(k) ==
    CASE k = "Client" ->
           [reassembly |-> Larger(CertificateNeeded, MAX_PLAINTEXT_BODY),
            flight |-> Larger(FlightNeeded, MAX_PLAINTEXT_BODY), identity |-> 0]
      [] k = "FramedClient" ->
           [reassembly |-> 0, flight |-> IdentityNeeded, identity |-> 0]
      [] k = "Server" ->
           [reassembly |-> Larger(MAX_PLAINTEXT_BODY, IdentityNeeded),
            flight |-> Larger(FlightNeeded, MAX_PLAINTEXT_BODY), identity |-> IdentityNeeded]
      [] k = "QuicServer" ->
           [reassembly |-> 0, flight |-> 0, identity |-> IdentityNeeded]

----------------------------------------------------------------------------
(* BoundedBuffer.                                                           *)

WithCapacity(limit) == [bytes |-> <<>>, base |-> 0, limit |-> limit, overflowed |-> FALSE]

BufferLen(b) == Len(b.bytes) - b.base

AsSlice(b) == SubSeq(b.bytes, b.base + 1, Len(b.bytes))

Truncate(b, n) == [b EXCEPT !.bytes = SubSeq(@, 1, n)]

Clear(b) == [Truncate(b, b.base) EXCEPT !.overflowed = FALSE]

Fits(b, n) == n <= b.limit - BufferLen(b)

\* put_u8 to put_slice and reserve_slice, with reserve_encoded: what does not
\* fit is dropped, and so is everything after it.
Put(b, bytes) ==
    IF b.overflowed \/ ~Fits(b, Len(bytes))
    THEN [b EXCEPT !.overflowed = TRUE]
    ELSE [b EXCEPT !.bytes = @ \o bytes]

RollbackTo(b, len) == Truncate(b, b.base + len)

\* MUTANT: the prefix is patched at its offset in the flight, not in the store.
PatchLengthPrefixAt(b, start, len) == [b EXCEPT !.bytes[start + 1].length = len]

PatchLengthPrefix(b, start, len) == [b EXCEPT !.bytes[b.base + start + 1].length = len]

Byte(c, f) == [conn |-> c, flight |-> f, length |-> 0]

Bytes(c, f, n) == [i \in 1 .. n |-> Byte(c, f)]

----------------------------------------------------------------------------
Vacant == [phase |-> "Vacant", owner |-> 0, failed |-> FALSE, retained |-> 0]

Init ==
    /\ kind \in Kinds
    /\ slot = [s \in Slots |-> Vacant]
    /\ params = [s \in Slots |-> <<>>]
    /\ reassembly = [s \in Slots |-> WithCapacity(Layout(kind).reassembly)]
    /\ flight = [s \in Slots |-> WithCapacity(Layout(kind).flight)]
    /\ identity = [s \in Slots |-> WithCapacity(Layout(kind).identity)]
    /\ first = OfClient
    /\ call = NoCall
    /\ made = 0
    /\ begun = 0
    /\ ticket = [c \in Connections |-> "None"]
    /\ outbox = [c \in Connections |-> <<>>]
    /\ sent = [c \in Connections |-> <<>>]

Buffers == <<reassembly, flight, identity>>

Live(s) == slot[s].phase = "Leased" /\ ~slot[s].failed

\* vacant_entry hands out a vacant slot for a new connection or reservation.
Claim(s, phase) ==
    /\ call = NoCall
    /\ made < MaxConnections
    /\ slot[s].phase = "Vacant"
    /\ made' = made + 1
    /\ slot' = [slot EXCEPT ![s] = [Vacant EXCEPT !.phase = phase, !.owner = made']]

\* Pool::connect: the first client connection takes the pool's ticket.
Connect(s) ==
    /\ ~Framed
    /\ Claim(s, "Leased")
    /\ ticket' = [ticket EXCEPT ![made'] = IF first THEN "First" ELSE "None"]
    /\ first' = FALSE
    /\ UNCHANGED <<kind, params, Buffers, call, begun, outbox, sent>>

\* MUTANT: the parameters a dropped reservation wrote stay in the slot.
ReservedParamsKept(s) == params[s]

\* What a reservation finds in the buffer its slot retains.
ReservedParams(s) == <<>>

\* reserve, and reserve_restored with a ticket of the connection's own.
Reserve(s, restored) ==
    /\ Framed
    /\ restored => OfClient
    /\ Claim(s, "Reserved")
    /\ params' = [params EXCEPT ![s] = ReservedParams(s)]
    /\ ticket' = [ticket EXCEPT ![made'] = IF restored THEN "Restored" ELSE "None"]
    /\ UNCHANGED <<kind, Buffers, first, call, begun, outbox, sent>>

\* RetainedBytes::try_extend: growth past the capacity is refused.
WriteParams(s) ==
    /\ call = NoCall
    /\ slot[s].phase = "Reserved"
    /\ Len(params[s]) < ParamsCapacity
    /\ params' = [params EXCEPT ![s] = Append(@, Byte(slot[s].owner, 0))]
    /\ UNCHANGED <<kind, slot, Buffers, first, call, made, begun, ticket, outbox, sent>>

\* resumption.or_else(|| pool.first.take())
TakesFirst(s) == first /\ ticket[slot[s].owner] = "None"

\* Connecting a reservation.
ConnectReserved(s) ==
    /\ call = NoCall
    /\ slot[s].phase = "Reserved"
    /\ slot' = [slot EXCEPT ![s].phase = "Leased"]
    /\ ticket' = [ticket EXCEPT ![slot[s].owner] = IF TakesFirst(s) THEN "First" ELSE @]
    /\ first' = (first /\ ~TakesFirst(s))
    /\ UNCHANGED <<kind, params, Buffers, call, made, begun, outbox, sent>>

\* A reservation dropped unused frees its slot and leaves the buffer as it is.
DropReservation(s) ==
    /\ call = NoCall
    /\ slot[s].phase = "Reserved"
    /\ slot' = [slot EXCEPT ![s] = Vacant]
    /\ UNCHANGED <<kind, params, Buffers, first, call, made, begun, ticket, outbox, sent>>

\* from_buffers clears what a connection leaves behind.
Recycled(b) == Clear(b)

\* The lease is dropped, at any time and in any state: into_seed.
Release(s) ==
    /\ call = NoCall
    /\ slot[s].phase = "Leased"
    /\ slot' = [slot EXCEPT ![s] = Vacant]
    /\ params' = [params EXCEPT ![s] = <<>>]
    /\ reassembly' = [reassembly EXCEPT ![s] = Recycled(@)]
    /\ flight' = [flight EXCEPT ![s] = Recycled(@)]
    /\ identity' = [identity EXCEPT ![s] = Recycled(@)]
    /\ UNCHANGED <<kind, first, call, made, begun, ticket, outbox, sent>>

----------------------------------------------------------------------------
(* The input side.                                                          *)

\* Server::poison and the client's: the connection fails and its buffers are
\* emptied.  own is the flight buffer without any loan.
Poison(s, own) ==
    /\ slot' = [slot EXCEPT ![s].failed = TRUE, ![s].retained = 0]
    /\ reassembly' = [reassembly EXCEPT ![s] = Clear(@)]
    /\ flight' = [flight EXCEPT ![s] = Clear(own)]
    /\ identity' = [identity EXCEPT ![s] = Clear(@)]

\* A fragment of a message is kept, or is more than the buffer holds.
Fragment(s, n) ==
    /\ call = NoCall
    /\ Live(s)
    /\ ~Framed
    /\ IF Fits(reassembly[s], n)
       THEN /\ reassembly' = [reassembly EXCEPT ![s] = Put(@, Bytes(slot[s].owner, 0, n))]
            /\ UNCHANGED <<slot, flight, identity>>
       ELSE Poison(s, flight[s])
    /\ UNCHANGED <<kind, params, first, call, made, begun, ticket, outbox, sent>>

\* The message is complete and is handed on.
Complete(s) ==
    /\ call = NoCall
    /\ Live(s)
    /\ BufferLen(reassembly[s]) > 0
    /\ reassembly' = [reassembly EXCEPT ![s] = Clear(@)]
    /\ UNCHANGED <<kind, slot, params, flight, identity, first, call, made, begun, ticket,
                   outbox, sent>>

\* Certificate: the peer's identity waits for CertificateVerify, the client's
\* copy in the flight buffer, which no flight uses in between.
RetainIdentity(s, n) ==
    /\ call = NoCall
    /\ Live(s)
    /\ slot[s].retained = 0
    /\ LET b == Clear(IF OfClient THEN flight[s] ELSE identity[s])
           kept == Put(b, Bytes(slot[s].owner, 0, n))
       IN IF ~Fits(b, n)
          THEN Poison(s, flight[s])
          ELSE /\ slot' = [slot EXCEPT ![s].retained = n]
               /\ flight' = IF OfClient THEN [flight EXCEPT ![s] = kept] ELSE flight
               /\ identity' = IF OfClient THEN identity ELSE [identity EXCEPT ![s] = kept]
               /\ UNCHANGED reassembly
    /\ UNCHANGED <<kind, params, first, call, made, begun, ticket, outbox, sent>>

\* CertificateVerify: the identity is used and cleared, or the call fails.
UseIdentity(s, good) ==
    /\ call = NoCall
    /\ Live(s)
    /\ slot[s].retained > 0
    /\ IF ~good
       THEN Poison(s, flight[s])
       ELSE /\ slot' = [slot EXCEPT ![s].retained = 0]
            /\ flight' = IF OfClient THEN [flight EXCEPT ![s] = Clear(@)] ELSE flight
            /\ identity' = IF OfClient THEN identity ELSE [identity EXCEPT ![s] = Clear(@)]
            /\ UNCHANGED reassembly
    /\ UNCHANGED <<kind, params, first, call, made, begun, ticket, outbox, sent>>

----------------------------------------------------------------------------
(* The output side.                                                         *)

\* A flight may begin: the connection is live and, by its handshake state, waits
\* for no CertificateVerify.  Flights begin at start, at a HelloRetryRequest, at
\* the peer's Finished and when Done.
MayBegin(s) ==
    /\ call = NoCall
    /\ begun < MaxFlights
    /\ Live(s)
    /\ slot[s].retained = 0

\* The call that encodes a flight: whether the sink lent storage, what the
\* buffer was before (Saved), the starts of the open LengthFrames, whether a
\* message type waits for its frame, the messages finished, and, as history,
\* the bytes asked for and the prefixes of the finished frames.
NewCall(s, lent) ==
    [slot |-> s, lent |-> lent, saved |-> flight[s], outboundBase |-> Len(outbox[slot[s].owner]),
     frames |-> <<>>, typed |-> FALSE, asked |-> 0, lengths |-> {}]

\* The sink does not want the flight: begin_send fails.
RefuseFlight(s) ==
    /\ MayBegin(s)
    /\ begun' = begun + 1
    /\ Poison(s, flight[s])
    /\ UNCHANGED <<kind, params, first, call, made, ticket, outbox, sent>>

\* begin_send lends nothing (a framed sink always lends): the workspace's own
\* buffer is cleared and written.
BeginOwn(s) ==
    /\ MayBegin(s)
    /\ ~Framed
    /\ begun' = begun + 1
    /\ call' = NewCall(s, FALSE)
    /\ flight' = [flight EXCEPT ![s] = Clear(@)]
    /\ UNCHANGED <<kind, slot, params, reassembly, identity, first, made, ticket, outbox, sent>>

\* begin_send lends the transport's store with room for maximum more bytes:
\* BoundedBuffer::flight swaps it in.
BeginLent(s, maximum) ==
    LET c == slot[s].owner
    IN /\ MayBegin(s)
       /\ begun' = begun + 1
       /\ call' = NewCall(s, TRUE)
       /\ flight' = [flight EXCEPT ![s] =
              Clear([bytes |-> outbox[c], base |-> Len(outbox[c]), limit |-> maximum,
                     overflowed |-> FALSE])]
       /\ outbox' = [outbox EXCEPT ![c] = flight[s].bytes]
       /\ UNCHANGED <<kind, slot, params, reassembly, identity, first, made, ticket, sent>>

\* Flight::drop gives the store back, without what was not committed.
StoreAfter(b, committed) ==
    IF committed THEN b.bytes ELSE Truncate(b, call.outboundBase).bytes

\* MUTANT: the limit of the loan stays with the workspace.
OwnAfterLimitKept(s, b) ==
    IF ~call.lent THEN b
    ELSE [b EXCEPT !.bytes = outbox[slot[s].owner], !.base = call.saved.base,
                   !.overflowed = call.saved.overflowed]

\* The workspace's buffer after the flight: its own bytes, base and limit.
OwnAfter(s, b) ==
    IF ~call.lent THEN b
    ELSE [bytes |-> outbox[slot[s].owner], base |-> call.saved.base,
          limit |-> call.saved.limit, overflowed |-> call.saved.overflowed]

\* An error while encoding: the open LengthFrames roll back, the outermost
\* last, the flight is dropped, the connection poisoned.
Abandon ==
    LET s == call.slot
        c == slot[s].owner
        b == IF call.frames = <<>> THEN flight[s] ELSE RollbackTo(flight[s], call.frames[1])
    IN /\ outbox' = IF call.lent THEN [outbox EXCEPT ![c] = StoreAfter(b, FALSE)] ELSE outbox
       /\ Poison(s, OwnAfter(s, b))
       /\ call' = NoCall
       /\ UNCHANGED <<kind, params, first, made, begun, ticket, sent>>

\* A step of the encoder that leaves the buffer as b.
Encoded(b, next) ==
    /\ flight' = [flight EXCEPT ![call.slot] = b]
    /\ call' = next
    /\ UNCHANGED <<kind, slot, params, reassembly, identity, first, made, begun, ticket, outbox,
                   sent>>

Encoding == call # NoCall

Buffer == flight[call.slot]

Owned(n) == Bytes(slot[call.slot].owner, begun, n)

MayAsk(n) == call.asked + n <= MaxAsked

\* A handshake message starts with its type.
PutType ==
    /\ Encoding
    /\ call.frames = <<>>
    /\ ~call.typed
    /\ MayAsk(1)
    /\ Encoded(Put(Buffer, Owned(1)), [call EXCEPT !.typed = TRUE, !.asked = @ + 1])

\* LengthFrame::begin: the length after a message type, or a nested one.
BeginFrame ==
    /\ Encoding
    /\ call.typed \/ call.frames # <<>>
    /\ MayAsk(1)
    /\ IF Buffer.overflowed \/ ~Fits(Buffer, 1)
       THEN Abandon
       ELSE Encoded(Put(Buffer, Owned(1)),
                    [call EXCEPT !.typed = FALSE, !.asked = @ + 1,
                                 !.frames = Append(@, BufferLen(Buffer))])

\* Some bytes of a body.
PutBody(n) ==
    /\ Encoding
    /\ call.frames # <<>>
    /\ MayAsk(n)
    /\ Encoded(Put(Buffer, Owned(n)), [call EXCEPT !.asked = @ + n])

\* Encode::status, asked by LengthFrame::finish.
FrameFails(b) == b.overflowed

\* LengthFrame::finish; the maximum of its width is never reached here.
FinishFrame ==
    /\ Encoding
    /\ call.frames # <<>>
    /\ LET start == call.frames[Len(call.frames)]
           length == BufferLen(Buffer) - (start + 1)
       IN IF FrameFails(Buffer)
          THEN Abandon
          ELSE Encoded(PatchLengthPrefix(Buffer, start, length),
                       [call EXCEPT !.frames = SubSeq(@, 1, Len(@) - 1),
                                    !.lengths = @ \cup {[start |-> start, length |-> length]}])

\* Any other step fails: a share, a hash, a signature, a key.
EncodeFails ==
    /\ Encoding
    /\ Abandon

\* After its last message the flight is committed.  A lent flight is the
\* transport's; one in the workspace goes out as a Send event, which the sink
\* copies or refuses.
Commit(accepted) ==
    LET s == call.slot
        c == slot[s].owner
        store == IF call.lent THEN StoreAfter(Buffer, TRUE) ELSE outbox[c] \o AsSlice(Buffer)
    IN /\ Encoding
       /\ call.frames = <<>> /\ ~call.typed /\ call.lengths # {}
       /\ call.lent => accepted
       /\ IF accepted
          THEN /\ outbox' = [outbox EXCEPT ![c] = store]
               /\ sent' = [sent EXCEPT ![c] = Append(@, [at |-> call.outboundBase, no |-> begun,
                                                         size |-> call.asked,
                                                         lengths |-> call.lengths])]
               /\ flight' = [flight EXCEPT ![s] = OwnAfter(s, Buffer)]
               /\ UNCHANGED <<slot, reassembly, identity>>
          ELSE Poison(s, OwnAfter(s, Buffer)) /\ UNCHANGED <<outbox, sent>>
       /\ call' = NoCall
       /\ UNCHANGED <<kind, params, first, made, begun, ticket>>

Next ==
    \/ \E s \in Slots :
         \/ Connect(s)
         \/ \E restored \in BOOLEAN : Reserve(s, restored)
         \/ WriteParams(s)
         \/ ConnectReserved(s)
         \/ DropReservation(s)
         \/ Release(s)
         \/ \E n \in Chunks : Fragment(s, n)
         \/ Complete(s)
         \/ \E n \in 1 .. IdentityNeeded + 1 : RetainIdentity(s, n)
         \/ \E good \in BOOLEAN : UseIdentity(s, good)
         \/ RefuseFlight(s)
         \/ BeginOwn(s)
         \/ \E maximum \in Loans : BeginLent(s, maximum)
    \/ PutType
    \/ BeginFrame
    \/ \E n \in Chunks : PutBody(n)
    \/ FinishFrame
    \/ EncodeFails
    \/ \E accepted \in BOOLEAN : Commit(accepted)

Spec == Init /\ [][Next]_vars

----------------------------------------------------------------------------
ByteType == [conn : Connections, flight : 0 .. MaxFlights, length : 0 .. MaxAsked]

BufferType == [bytes : Seq(ByteType), base : Nat, limit : Nat, overflowed : BOOLEAN]

\* Every variable has its type, and outside of an encoding call every buffer
\* has the capacity the pool allocated, counts from its start and holds no
\* more than that: what a loan or a failed call changed has been put back
\* (Flight::drop, BoundedBuffer::clear).
TypeOK ==
    /\ slot \in [Slots -> [phase : {"Vacant", "Reserved", "Leased"}, owner : 0 .. made,
                           failed : BOOLEAN, retained : Nat]]
    /\ params \in [Slots -> Seq(ByteType)]
    /\ {reassembly, flight, identity} \subseteq [Slots -> BufferType]
    /\ ticket \in [Connections -> {"None", "First", "Restored"}]
    /\ outbox \in [Connections -> Seq(ByteType)]
    /\ \A s \in Slots :
         LET own == [reassembly |-> reassembly[s], flight |-> flight[s], identity |-> identity[s]]
         IN \A r \in DOMAIN own :
              call = NoCall \/ r # "flight" =>
                 /\ own[r].base = 0
                 /\ own[r].limit = Layout(kind)[r]
                 /\ BufferLen(own[r]) <= own[r].limit

\* The flight store of a connection's transport, wherever it is now.
Store(c) ==
    IF Encoding /\ call.lent /\ slot[call.slot].owner = c THEN Buffer.bytes ELSE outbox[c]

\* The transport's store holds every flight that was sent, complete and as it
\* was encoded, each length counting what follows it, and whatever happens to
\* later flights; between calls it holds nothing else.  Neither an overflow,
\* nor an error, nor a refused event leaves a part of a flight behind, and
\* writing behind the earlier flights does not touch them (OutboundFlight:
\* "Existing bytes remain available for transport retransmission; failed
\* encoding rolls the appended range back automatically").
FlightsAreWhole ==
    \A c \in Connections :
        /\ \A i \in DOMAIN sent[c] :
             LET f == sent[c][i]
                 end == f.at + f.size
             IN /\ f.at = IF i = 1 THEN 0 ELSE sent[c][i - 1].at + sent[c][i - 1].size
                /\ Len(Store(c)) >= end
                /\ \A p \in f.at + 1 .. end : Store(c)[p].conn = c /\ Store(c)[p].flight = f.no
                /\ \A l \in f.lengths : Store(c)[f.at + l.start + 1].length = l.length
        /\ call = NoCall =>
             Len(outbox[c]) = IF sent[c] = <<>> THEN 0
                              ELSE sent[c][Len(sent[c])].at + sent[c][Len(sent[c])].size

BelongTo(bytes, c) == \A p \in DOMAIN bytes : bytes[p].conn = c

\* Connections that share a slot one after the other, or a pool, share nothing
\* else: between calls the buffers of a slot hold only bytes of its current
\* owner, nothing when it is vacant, and after Certificate exactly the peer's
\* identity; the pool's ticket starts at most one connection, and is lost to
\* none (Pool::connect, FramedReservation::connect, into_seed, reserve).
OwnersAreSeparate ==
    /\ call = NoCall =>
         \A s \in Slots :
           LET c == slot[s].owner
               peer == IF OfClient THEN flight[s] ELSE identity[s]
           IN /\ \A b \in {reassembly[s], flight[s], identity[s]} :
                   BelongTo(AsSlice(b), c)
              /\ slot[s].phase # "Vacant" => BelongTo(params[s], c)
              /\ slot[s].retained > 0 => AsSlice(peer) = Bytes(c, 0, slot[s].retained)
    /\ OfClient =>
         IF first THEN \A c \in Connections : ticket[c] # "First"
         ELSE \E c \in Connections :
                ticket[c] = "First" /\ \A d \in Connections \ {c} : ticket[d] # "First"
============================================================================
