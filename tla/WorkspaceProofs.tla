-------------------------- MODULE WorkspaceProofs --------------------------
(***************************************************************************)
(* Proofs about Workspace, for every number of slots, every layout, every   *)
(* loan and any number of connections and flights.                          *)
(*                                                                          *)
(* Home says what a buffer of a slot is between calls, Own finds it while   *)
(* its bytes are swapped with a transport's store: PoolInv is that every    *)
(* buffer is at home with its slot's tenant.  Draft says what has been      *)
(* encoded of a flight, and CallInv that the buffer in use is such a draft. *)
(* Whole says which flights a store holds, and StoresInv that every store   *)
(* holds what was sent, wherever it is, with only the draft behind it.      *)
(***************************************************************************)
EXTENDS Workspace, TLAPS

-----------------------------------------------------------------------------
(* Bytes and buffers. *)

\* A byte that is written has its type.
LEMMA ByteFacts ==
    ASSUME NEW c \in Connections, NEW f \in 0 .. MaxFlights, NEW n \in Nat
    PROVE  /\ Byte(c, f) \in ByteType /\ Byte(c, f).conn = c /\ Byte(c, f).flight = f
           /\ Bytes(c, f, n) \in Seq(ByteType) /\ Len(Bytes(c, f, n)) = n
           /\ \A p \in 1 .. n : Bytes(c, f, n)[p] = Byte(c, f)
<1>1. 0 \in 0 .. MaxAsked
  BY WorkspaceAssumption
<1>2. Byte(c, f) \in ByteType /\ Byte(c, f).conn = c /\ Byte(c, f).flight = f
  BY <1>1, Zenon DEF Byte, ByteType
<1> DEFINE x == Byte(c, f)
<1> HIDE DEF x
<1>3. x \in ByteType /\ Bytes(c, f, n) = [i \in 1 .. n |-> x]
  BY <1>2, Zenon DEF x, Bytes
<1> QED
  BY <1>2, <1>3 DEF x

\* The fields of a buffer.
LEMMA BufferFacts ==
    ASSUME NEW b \in BufferType
    PROVE  /\ b.bytes \in Seq(ByteType) /\ Len(b.bytes) \in Nat
           /\ DOMAIN b.bytes = 1 .. Len(b.bytes)
           /\ \A p \in 1 .. Len(b.bytes) : b.bytes[p] \in ByteType
           /\ b.base \in Nat /\ b.limit \in Nat /\ b.overflowed \in BOOLEAN
           /\ b = [bytes |-> b.bytes, base |-> b.base, limit |-> b.limit,
                   overflowed |-> b.overflowed]
  BY DEF BufferType

\* BoundedBuffer::clear leaves what was there before the buffer's base.
LEMMA ClearFacts ==
    ASSUME NEW b \in BufferType, b.base <= Len(b.bytes)
    PROVE  /\ Clear(b) \in BufferType /\ Clear(b).base = b.base /\ Clear(b).limit = b.limit
           /\ Clear(b).overflowed = FALSE
           /\ Len(Clear(b).bytes) = b.base
           /\ \A p \in 1 .. b.base : Clear(b).bytes[p] = b.bytes[p]
<1> DEFINE s == SubSeq(b.bytes, 1, b.base)
<1>1. /\ s \in Seq(ByteType) /\ Len(s) = b.base
      /\ \A p \in 1 .. b.base : s[p] = b.bytes[p]
  BY BufferFacts
<1>2. Clear(b) = [b EXCEPT !.bytes = s, !.overflowed = FALSE]
  BY Zenon DEF Clear, Truncate, BufferType
<1> HIDE DEF s
<1> QED
  BY <1>1, <1>2, Zenon DEF BufferType

\* The buffer w is b after n bytes of flight f of c were put: all or none.
Written(b, w, c, f, n) ==
    /\ w \in BufferType /\ w.base = b.base /\ w.limit = b.limit
    /\ b.overflowed \/ ~Fits(b, n) => w.bytes = b.bytes /\ w.overflowed = TRUE
    /\ ~b.overflowed /\ Fits(b, n) =>
         /\ w.overflowed = FALSE
         /\ Len(w.bytes) = Len(b.bytes) + n
         /\ \A p \in 1 .. Len(b.bytes) : w.bytes[p] = b.bytes[p]
         /\ \A p \in Len(b.bytes) + 1 .. Len(b.bytes) + n : w.bytes[p] = Byte(c, f)

\* Put writes all of its bytes, or none and says so.
LEMMA PutFacts ==
    ASSUME NEW b \in BufferType, NEW c \in Connections, NEW f \in 0 .. MaxFlights, NEW n \in Nat,
           NEW w, w = Put(b, Bytes(c, f, n))
    PROVE  Written(b, w, c, f, n)
<1> DEFINE u == Bytes(c, f, n)
           x == Byte(c, f)
<1>1. /\ u \in Seq(ByteType) /\ Len(u) = n
      /\ \A p \in 1 .. n : u[p] = x
  BY ByteFacts, ZenonT(40)
<1> HIDE DEF u, x
<1>2. b.bytes \in Seq(ByteType) /\ Len(b.bytes) \in Nat /\ b.overflowed \in BOOLEAN
  BY BufferFacts, Zenon
<1>3. CASE b.overflowed \/ ~Fits(b, n)
  <2>1. w = [b EXCEPT !.overflowed = TRUE]
    BY <1>1, <1>3, Zenon DEF Put, u
  <2> QED
    BY <1>3, <2>1, Zenon DEF BufferType, Written
<1>4. CASE ~b.overflowed /\ Fits(b, n)
  <2>1. w = [b EXCEPT !.bytes = b.bytes \o u]
    BY <1>1, <1>4, Zenon DEF Put, u
  <2>2. PICK v \in Seq(ByteType) : v = b.bytes
    BY <1>2, Zenon
  <2>5. PICK t : t = v \o u
    BY Zenon
  <2>3. /\ t \in Seq(ByteType) /\ Len(t) = Len(v) + n /\ Len(v) \in Nat
        /\ \A p \in 1 .. Len(v) : t[p] = v[p]
        /\ \A p \in Len(v) + 1 .. Len(v) + n : p - Len(v) \in 1 .. n /\ t[p] = u[p - Len(v)]
    BY <1>1, <2>5
  <2>4. w \in BufferType /\ w.bytes = t /\ w.base = b.base /\ w.limit = b.limit /\ w.overflowed = b.overflowed
    BY <2>1, <2>2, <2>3, <2>5, Zenon DEF BufferType
  <2> QED
    BY <1>1, <1>2, <1>4, <2>2, <2>3, <2>4, Zenon DEF x, Written
<1> QED
  BY <1>2, <1>3, <1>4, Zenon

\* The buffer w is b with the length len in the prefix at start.
Patched(b, w, start, len) ==
    /\ w \in BufferType /\ w.base = b.base /\ w.limit = b.limit
    /\ w.overflowed = b.overflowed /\ Len(w.bytes) = Len(b.bytes)
    /\ w.bytes[b.base + start + 1].length = len
    /\ \A p \in 1 .. Len(b.bytes) :
         /\ w.bytes[p].conn = b.bytes[p].conn /\ w.bytes[p].flight = b.bytes[p].flight
         /\ p # b.base + start + 1 => w.bytes[p] = b.bytes[p]

\* A patched prefix holds its length, and nothing else changes.
LEMMA PatchFacts ==
    ASSUME NEW b \in BufferType, NEW start \in Nat, NEW len \in 0 .. MaxAsked,
           b.base + start + 1 <= Len(b.bytes), NEW w, w = PatchLengthPrefix(b, start, len)
    PROVE  Patched(b, w, start, len)
<1>1. /\ b.bytes \in Seq(ByteType) /\ Len(b.bytes) \in Nat /\ b.base \in Nat
      /\ DOMAIN b.bytes = 1 .. Len(b.bytes)
  BY BufferFacts, Zenon
<1>2. PICK k \in 1 .. Len(b.bytes) : k = b.base + start + 1
  BY <1>1
<1>3. PICK x : x = [b.bytes[k] EXCEPT !.length = len]
  BY Zenon
<1>4. /\ x \in ByteType /\ x.length = len
      /\ x.conn = b.bytes[k].conn /\ x.flight = b.bytes[k].flight
  <2>1. b.bytes[k] \in ByteType
    BY <1>1
  <2> QED
    BY <1>3, <2>1, Zenon DEF ByteType
<1>5. PICK t : t = [b.bytes EXCEPT ![k] = x]
  BY Zenon
<1>6. /\ t \in Seq(ByteType) /\ Len(t) = Len(b.bytes) /\ t[k] = x
      /\ \A p \in 1 .. Len(b.bytes) : p # k => t[p] = b.bytes[p]
  BY <1>1, <1>4, <1>5
<1>7. w = [b EXCEPT !.bytes = t]
  BY <1>2, <1>3, <1>5, Zenon DEF PatchLengthPrefix
<1>8. /\ w \in BufferType /\ w.base = b.base /\ w.limit = b.limit
      /\ w.overflowed = b.overflowed /\ w.bytes = t
  BY <1>6, <1>7, Zenon DEF BufferType
<1> QED
  BY <1>2, <1>4, <1>6, <1>8, Zenon DEF Patched

-----------------------------------------------------------------------------
(* The invariant. *)

SlotType == [phase : {"Vacant", "Reserved", "Leased"}, owner : Nat, failed : BOOLEAN,
             retained : Nat]

\* The connection whose bytes a slot may hold; no byte belongs to 0.
Tenant(x) == IF x.phase = "Leased" THEN x.owner ELSE 0

\* A buffer of a slot as a pool allocated it, with bytes of c only.
Home(b, cap, c) ==
    /\ b \in BufferType
    /\ b.base = 0 /\ b.limit = cap /\ Len(b.bytes) <= cap
    /\ \A p \in 1 .. Len(b.bytes) : b.bytes[p].conn = c

\* A slot x of a pool k that has made m connections: its parameters and buffers.
SlotOk(k, m, x, ps, rb, fb, ib) ==
    /\ x \in SlotType /\ x.owner <= m
    /\ x.phase = "Vacant" <=> x.owner = 0
    /\ x.phase # "Leased" => x.retained = 0
    /\ ps \in Seq(ByteType)
    /\ x.phase # "Vacant" => BelongTo(ps, x.owner)
    /\ k \notin {"FramedClient", "QuicServer"} => x.phase # "Reserved" /\ ps = <<>>
    /\ Home(rb, Layout(k).reassembly, Tenant(x))
    /\ Home(fb, Layout(k).flight, Tenant(x))
    /\ Home(ib, Layout(k).identity, Tenant(x))
    /\ x.retained > 0 =>
         (IF k \in {"Client", "FramedClient"} THEN fb ELSE ib).bytes
            = Bytes(x.owner, 0, x.retained)

\* The flight buffer of a slot without a loan that is in it.
Own(s) == IF Encoding /\ call.slot = s THEN OwnAfter(s, flight[s]) ELSE flight[s]

PoolInv ==
    /\ kind \in Kinds /\ made \in 0 .. MaxConnections /\ begun \in 0 .. MaxFlights
    /\ slot \in [Slots -> SlotType] /\ params \in [Slots -> Seq(ByteType)]
    /\ reassembly \in [Slots -> BufferType] /\ flight \in [Slots -> BufferType]
    /\ identity \in [Slots -> BufferType]
    /\ \A s \in Slots :
         SlotOk(kind, made, slot[s], params[s], reassembly[s], Own(s), identity[s])

LengthType == [start : Nat, length : Nat]

CallType == [slot : Slots, lent : BOOLEAN, saved : BufferType, outboundBase : Nat,
             frames : Seq(Nat), typed : BOOLEAN, asked : 0 .. MaxAsked,
             lengths : SUBSET LengthType]

\* The buffer b of a call k holds what was encoded so far of flight f of c: all
\* that was asked for or, after an overflow, the part of it that the open
\* frames or the waiting type will abandon.
Draft(b, k, c, f) ==
    /\ b \in BufferType
    /\ b.base = IF k.lent THEN k.outboundBase ELSE 0
    /\ b.base <= Len(b.bytes) /\ Len(b.bytes) <= b.base + k.asked
    /\ ~b.overflowed => Len(b.bytes) = b.base + k.asked
    /\ b.overflowed => k.typed \/ k.frames # <<>>
    /\ \A p \in b.base + 1 .. Len(b.bytes) : b.bytes[p].conn = c /\ b.bytes[p].flight = f
    /\ \A i \in 1 .. Len(k.frames) : b.base + k.frames[i] < Len(b.bytes)
    /\ \A i, j \in 1 .. Len(k.frames) : k.frames[i] = k.frames[j] => i = j
    /\ \A l \in k.lengths :
         /\ b.base + l.start < Len(b.bytes)
         /\ b.bytes[b.base + l.start + 1].length = l.length
         /\ \A i \in 1 .. Len(k.frames) : k.frames[i] # l.start

CallInv ==
    Encoding => /\ call \in CallType
                /\ slot[call.slot].phase = "Leased" /\ slot[call.slot].retained = 0
                /\ Draft(Buffer, call, slot[call.slot].owner, begun)

FlightType == [at : Nat, no : 0 .. MaxFlights, size : Nat, lengths : SUBSET LengthType]

\* Where the last flight of a store ends.
EndOf(fs) == IF fs = <<>> THEN 0 ELSE fs[Len(fs)].at + fs[Len(fs)].size

\* A store of c holds the flights fs, one after the other.
Whole(fs, bytes, c) ==
    /\ EndOf(fs) <= Len(bytes)
    /\ \A i \in 1 .. Len(fs) :
         /\ fs[i].at = IF i = 1 THEN 0 ELSE fs[i - 1].at + fs[i - 1].size
         /\ fs[i].at + fs[i].size <= EndOf(fs)
         /\ \A p \in fs[i].at + 1 .. fs[i].at + fs[i].size :
              bytes[p].conn = c /\ bytes[p].flight = fs[i].no
         /\ \A l \in fs[i].lengths :
              /\ l.start < fs[i].size
              /\ bytes[fs[i].at + l.start + 1].length = l.length

\* While a flight of c is encoded its store ends, without the draft, where the
\* flight begins.
EndInv(c) ==
    IF Encoding /\ slot[call.slot].owner = c
    THEN /\ call.outboundBase = EndOf(sent[c])
         /\ ~call.lent => Len(outbox[c]) = call.outboundBase
    ELSE Len(outbox[c]) = EndOf(sent[c])

StoresInv ==
    /\ outbox \in [Connections -> Seq(ByteType)] /\ sent \in [Connections -> Seq(FlightType)]
    /\ \A c \in Connections : Whole(sent[c], Store(c), c) /\ EndInv(c)

\* The pool's ticket is in the pool or at one connection that was made.
TicketsInv ==
    /\ first \in BOOLEAN /\ ticket \in [Connections -> {"None", "First", "Restored"}]
    /\ \A c \in Connections : ticket[c] = "First" => c <= made
    /\ OfClient =>
         IF first THEN \A c \in Connections : ticket[c] # "First"
         ELSE \E c \in Connections :
                ticket[c] = "First" /\ \A d \in Connections \ {c} : ticket[d] # "First"

\* The inductive invariant.
IInv == PoolInv /\ CallInv /\ StoresInv /\ TicketsInv

-----------------------------------------------------------------------------
(* A slot at home. *)

\* The buffers a pool allocates have a capacity.
LEMMA LayoutFacts ==
    ASSUME NEW k \in Kinds
    PROVE  /\ Layout(k).reassembly \in Nat /\ Layout(k).flight \in Nat /\ Layout(k).identity \in Nat
  BY WorkspaceAssumption, Zenon DEF Kinds, Layout, Larger

\* A new buffer is at home with nobody.
LEMMA NewHome ==
    ASSUME NEW cap \in Nat
    PROVE  Home(WithCapacity(cap), cap, 0)
<1>1. WithCapacity(cap) \in BufferType
  BY DEF WithCapacity, BufferType
<1> QED
  BY <1>1 DEF WithCapacity, Home

\* A cleared buffer is at home with anyone.
LEMMA ClearHome ==
    ASSUME NEW b, NEW cap, NEW c, NEW d, Home(b, cap, c), cap \in Nat
    PROVE  Home(Clear(b), cap, d) /\ Len(Clear(b).bytes) = 0
<1>1. b \in BufferType /\ b.base = 0 /\ b.limit = cap /\ b.base <= Len(b.bytes)
  BY BufferFacts DEF Home
<1>2. PICK e : e = Clear(b)
  BY Zenon
<1>3. e \in BufferType /\ e.base = 0 /\ e.limit = cap /\ Len(e.bytes) = 0
  BY <1>1, <1>2, ClearFacts, Zenon
<1> QED
  BY <1>2, <1>3 DEF Home

\* A buffer at home with nobody is empty: at home with anyone.
LEMMA EmptyHome ==
    ASSUME NEW b, NEW cap, NEW d, Home(b, cap, 0)
    PROVE  Home(b, cap, d)
<1>1. b \in BufferType
  BY Zenon DEF Home
<1>2. \A p \in 1 .. Len(b.bytes) : b.bytes[p] \in ByteType /\ b.bytes[p].conn = 0
  BY <1>1, BufferFacts, Zenon DEF Home
<1>3. \A p \in 1 .. Len(b.bytes) : FALSE
  BY <1>2 DEF ByteType, Connections
<1> QED
  BY <1>3, Zenon DEF Home

\* What fits is written at home.
LEMMA PutHome ==
    ASSUME NEW b, NEW cap \in Nat, NEW c \in Connections, Home(b, cap, c),
           NEW f \in 0 .. MaxFlights, NEW n \in Nat
    PROVE  Home(Put(b, Bytes(c, f, n)), cap, c)
<1>1. b \in BufferType /\ b.base = 0 /\ b.limit = cap /\ Len(b.bytes) \in Nat
      /\ b.overflowed \in BOOLEAN
  BY BufferFacts, Zenon DEF Home
<1>2. PICK w : w = Put(b, Bytes(c, f, n))
  BY Zenon
<1>3. Byte(c, f).conn = c /\ Written(b, w, c, f, n)
  BY <1>1, <1>2, ByteFacts, PutFacts, Zenon
<1>4. CASE b.overflowed \/ ~Fits(b, n)
  <2>1. w \in BufferType /\ w.base = b.base /\ w.limit = b.limit /\ w.bytes = b.bytes
    BY <1>3, <1>4, Zenon DEF Written
  <2> QED
    BY <1>2, <2>1, Zenon DEF Home
<1>5. CASE ~b.overflowed /\ Fits(b, n)
  <2>1. Len(b.bytes) + n <= cap
    BY <1>1, <1>5 DEF Fits, BufferLen
  <2>2. /\ w \in BufferType /\ w.base = b.base /\ w.limit = b.limit
        /\ Len(w.bytes) = Len(b.bytes) + n
        /\ \A p \in 1 .. Len(b.bytes) : w.bytes[p] = b.bytes[p]
        /\ \A p \in Len(b.bytes) + 1 .. Len(b.bytes) + n : w.bytes[p] = Byte(c, f)
    BY <1>3, <1>5, Zenon DEF Written
  <2>3. \A p \in 1 .. Len(b.bytes) : b.bytes[p].conn = c
    BY Zenon DEF Home
  <2>4. \A p \in 1 .. Len(b.bytes) + n : w.bytes[p].conn = c
    <3>1. \A p \in 1 .. Len(b.bytes) + n :
             p \in 1 .. Len(b.bytes) \/ p \in Len(b.bytes) + 1 .. Len(b.bytes) + n
      BY <1>1
    <3> QED
      BY <1>3, <2>2, <2>3, <3>1, Zenon
  <2>5. Home(w, cap, c)
    BY <1>1, <2>1, <2>2, <2>4, Zenon DEF Home
  <2> QED
    BY <1>2, <2>5, Zenon
<1> QED
  BY <1>1, <1>4, <1>5, Zenon

\* More connections make no difference to a slot.
LEMMA SlotGrows ==
    ASSUME NEW k, NEW m \in Nat, NEW n \in Nat, m <= n, NEW x, NEW ps, NEW rb, NEW fb, NEW ib,
           SlotOk(k, m, x, ps, rb, fb, ib)
    PROVE  SlotOk(k, n, x, ps, rb, fb, ib)
<1>1. x.owner \in Nat /\ x.owner <= m
  BY Zenon DEF SlotOk, SlotType
<1>2. x.owner <= n
  BY <1>1
<1> QED
  BY <1>2, Zenon DEF SlotOk

\* What poison leaves of a slot.
LEMMA PoisonOk ==
    ASSUME NEW k \in Kinds, NEW m, NEW x, NEW ps, NEW rb, NEW fb, NEW ib, NEW own,
           SlotOk(k, m, x, ps, rb, fb, ib), x.phase = "Leased",
           Home(own, Layout(k).flight, Tenant(x)),
           NEW y, y = [x EXCEPT !.failed = TRUE, !.retained = 0]
    PROVE  SlotOk(k, m, y, ps, Clear(rb), Clear(own), Clear(ib))
<1>1. x \in SlotType
  BY Zenon DEF SlotOk
<1>2. /\ y \in SlotType /\ y.phase = x.phase /\ y.owner = x.owner /\ y.retained = 0
  BY <1>1, Zenon DEF SlotType
<1>3. Tenant(y) = Tenant(x)
  BY <1>2, Zenon DEF Tenant
<1>4. /\ Home(Clear(rb), Layout(k).reassembly, Tenant(x))
      /\ Home(Clear(own), Layout(k).flight, Tenant(x))
      /\ Home(Clear(ib), Layout(k).identity, Tenant(x))
  BY LayoutFacts, ClearHome, Zenon DEF SlotOk
<1> QED
  BY <1>2, <1>3, <1>4 DEF SlotOk

\* g differs from f at s only.
Only(f, g, s) == g = [f EXCEPT ![s] = g[s]]

\* What the actions between calls start from.
LEMMA IdleFacts ==
    ASSUME PoolInv, call = NoCall, NEW s \in Slots
    PROVE  /\ SlotOk(kind, made, slot[s], params[s], reassembly[s], flight[s], identity[s])
           /\ slot[s] \in SlotType /\ kind \in Kinds
           /\ Only(slot, slot, s) /\ Only(params, params, s) /\ Only(reassembly, reassembly, s)
           /\ Only(flight, flight, s) /\ Only(identity, identity, s)
<1>1. SlotOk(kind, made, slot[s], params[s], reassembly[s], flight[s], identity[s])
  BY Zenon DEF PoolInv, Own, Encoding
<1>2. /\ slot \in [Slots -> SlotType] /\ params \in [Slots -> Seq(ByteType)]
      /\ reassembly \in [Slots -> BufferType] /\ flight \in [Slots -> BufferType]
      /\ identity \in [Slots -> BufferType] /\ kind \in Kinds
  BY Zenon DEF PoolInv
<1>3. /\ Only(slot, slot, s) /\ Only(params, params, s) /\ Only(reassembly, reassembly, s)
      /\ Only(flight, flight, s) /\ Only(identity, identity, s)
  BY <1>2, Zenon DEF Only
<1> QED
  BY <1>1, <1>2, <1>3, Zenon

\* An action between calls that leaves its slot as it should be.
LEMMA SlotStep ==
    ASSUME PoolInv, StoresInv, call = NoCall, call' = NoCall, NEW s \in Slots,
           kind' = kind, made' \in made .. MaxConnections, begun' \in 0 .. MaxFlights,
           outbox' = outbox, sent' = sent,
           Only(slot, slot', s), Only(params, params', s), Only(reassembly, reassembly', s),
           Only(flight, flight', s), Only(identity, identity', s),
           SlotOk(kind, made', slot'[s], params'[s], reassembly'[s], flight'[s], identity'[s])
    PROVE  PoolInv' /\ CallInv' /\ StoresInv'
<1>1. ~Encoding /\ ~Encoding'
  BY Zenon DEF Encoding
<1>2. \A r \in Slots : Own(r) = flight[r] /\ Own(r)' = flight'[r]
  BY <1>1, Zenon DEF Own
<1>3. /\ slot'[s] \in SlotType /\ params'[s] \in Seq(ByteType) /\ reassembly'[s] \in BufferType
      /\ flight'[s] \in BufferType /\ identity'[s] \in BufferType
  BY Zenon DEF SlotOk, Home
<1>4. /\ kind \in Kinds /\ made \in 0 .. MaxConnections
      /\ slot \in [Slots -> SlotType] /\ params \in [Slots -> Seq(ByteType)]
      /\ reassembly \in [Slots -> BufferType] /\ flight \in [Slots -> BufferType]
      /\ identity \in [Slots -> BufferType]
  BY Zenon DEF PoolInv
<1>5. /\ slot' \in [Slots -> SlotType] /\ params' \in [Slots -> Seq(ByteType)]
      /\ reassembly' \in [Slots -> BufferType] /\ flight' \in [Slots -> BufferType]
      /\ identity' \in [Slots -> BufferType]
  BY <1>3, <1>4, Zenon DEF Only
<1>6. ASSUME NEW r \in Slots
      PROVE  SlotOk(kind, made', slot'[r], params'[r], reassembly'[r], flight'[r], identity'[r])
  <2>1. CASE r = s
    BY <2>1, Zenon
  <2>2. CASE r # s
    <3>1. /\ slot'[r] = slot[r] /\ params'[r] = params[r] /\ reassembly'[r] = reassembly[r]
          /\ flight'[r] = flight[r] /\ identity'[r] = identity[r]
      BY <1>4, <2>2, Zenon DEF Only
    <3>2. SlotOk(kind, made, slot[r], params[r], reassembly[r], flight[r], identity[r])
      BY <1>2, Zenon DEF PoolInv
    <3>3. made \in Nat /\ made' \in Nat /\ made <= made'
      BY <1>4, WorkspaceAssumption
    <3> QED
      BY <3>1, <3>2, <3>3, SlotGrows, Zenon
  <2> QED
    BY <2>1, <2>2, Zenon
<1>7. made' \in 0 .. MaxConnections
  BY <1>4, WorkspaceAssumption
<1>8. PoolInv'
  BY <1>2, <1>4, <1>5, <1>6, <1>7, Zenon DEF PoolInv
<1>9. CallInv'
  BY <1>1, Zenon DEF CallInv
<1>10. ASSUME NEW c \in Connections
       PROVE  Store(c)' = Store(c) /\ EndInv(c)' = EndInv(c)
  BY <1>1, Zenon DEF Store, EndInv
<1>11. StoresInv'
  BY <1>10, Zenon DEF StoresInv
<1> QED
  BY <1>8, <1>9, <1>11, Zenon

\* The tickets do not depend on the rest.
LEMMA TicketsKept ==
    ASSUME TicketsInv, UNCHANGED <<first, ticket, kind>>, made \in Nat, made' \in Nat,
           made <= made'
    PROVE  TicketsInv'
<1>1. \A c \in Connections : ticket[c] = "First" => c <= made'
  BY DEF TicketsInv, Connections
<1> QED
  BY <1>1, Zenon DEF TicketsInv, OfClient

-----------------------------------------------------------------------------
(* The slots between calls. *)

\* The initial pool.
LEMMA InitIInv == Init => IInv
<1> SUFFICES ASSUME Init PROVE IInv
  BY Zenon
<1>1. kind \in Kinds /\ 0 \in 0 .. MaxConnections /\ 0 \in 0 .. MaxFlights
  BY WorkspaceAssumption DEF Init
<1>2. Vacant \in SlotType /\ Vacant.owner = 0 /\ Vacant.phase = "Vacant" /\ Vacant.retained = 0
  BY Zenon DEF Vacant, SlotType
<1>3. Tenant(Vacant) = 0
  BY <1>2, Zenon DEF Tenant
<1>4. ASSUME NEW s \in Slots
      PROVE  SlotOk(kind, made, slot[s], params[s], reassembly[s], flight[s], identity[s])
  <2>1. /\ Home(reassembly[s], Layout(kind).reassembly, 0)
        /\ Home(flight[s], Layout(kind).flight, 0)
        /\ Home(identity[s], Layout(kind).identity, 0)
    BY <1>1, LayoutFacts, NewHome, Zenon DEF Init
  <2>2. slot[s] = Vacant /\ params[s] = <<>> /\ made = 0
    BY Zenon DEF Init
  <2> QED
    BY <1>2, <1>3, <2>1, <2>2 DEF SlotOk
<1>5. ~Encoding
  BY Zenon DEF Init, Encoding
<1>6. PoolInv
  <2>1. \A s \in Slots : /\ slot[s] \in SlotType /\ params[s] \in Seq(ByteType)
                         /\ reassembly[s] \in BufferType
                         /\ flight[s] \in BufferType /\ identity[s] \in BufferType
    BY <1>4, Zenon DEF SlotOk, Home
  <2>2. /\ slot \in [Slots -> SlotType] /\ params \in [Slots -> Seq(ByteType)]
        /\ reassembly \in [Slots -> BufferType] /\ flight \in [Slots -> BufferType]
        /\ identity \in [Slots -> BufferType]
    BY <2>1, Zenon DEF Init
  <2>3. \A s \in Slots : Own(s) = flight[s]
    BY <1>5, Zenon DEF Own
  <2>4. made = 0 /\ begun = 0
    BY Zenon DEF Init
  <2> QED
    BY <1>1, <1>4, <2>2, <2>3, <2>4, Zenon DEF PoolInv
<1>7. CallInv
  BY <1>5, Zenon DEF CallInv
<1>8. StoresInv
  <2>1. \A c \in Connections : outbox[c] = <<>> /\ sent[c] = <<>> /\ Store(c) = <<>>
    BY <1>5, Zenon DEF Init, Store
  <2>2. outbox \in [Connections -> Seq(ByteType)] /\ sent \in [Connections -> Seq(FlightType)]
    BY DEF Init
  <2>3. \A c : Whole(<<>>, <<>>, c) /\ EndOf(<<>>) = 0
    BY DEF Whole, EndOf
  <2>4. \A c \in Connections : EndInv(c)
    BY <1>5, <2>1, <2>3 DEF EndInv
  <2> QED
    BY <2>1, <2>2, <2>3, <2>4, Zenon DEF StoresInv
<1>9. TicketsInv
  <2>1. first \in BOOLEAN /\ (OfClient => first)
    <3>1. first = OfClient
      BY Zenon DEF Init
    <3>2. OfClient \in BOOLEAN
      BY DEF OfClient
    <3> QED
      BY <3>1, <3>2, Zenon
  <2>2. /\ ticket \in [Connections -> {"None", "First", "Restored"}]
        /\ \A c \in Connections : ticket[c] # "First"
    BY Zenon DEF Init
  <2> QED
    BY <2>1, <2>2, Zenon DEF TicketsInv
<1> QED
  BY <1>6, <1>7, <1>8, <1>9, Zenon DEF IInv

\* A claimed slot is new, and its buffers are empty.
LEMMA ClaimFacts ==
    ASSUME PoolInv, NEW s \in Slots, NEW phase \in {"Reserved", "Leased"}, Claim(s, phase)
    PROVE  /\ call = NoCall /\ made \in Nat /\ made' = made + 1
           /\ made' \in Connections /\ made' \in made .. MaxConnections
           /\ Only(slot, slot', s)
           /\ slot'[s] \in SlotType /\ slot'[s].phase = phase /\ slot'[s].owner = made'
           /\ slot'[s].retained = 0
           /\ \A d : /\ Home(reassembly[s], Layout(kind).reassembly, d)
                     /\ Home(flight[s], Layout(kind).flight, d)
                     /\ Home(identity[s], Layout(kind).identity, d)
<1>1. call = NoCall /\ made < MaxConnections /\ slot[s].phase = "Vacant" /\ made' = made + 1
  BY Zenon DEF Claim
<1>2. made \in 0 .. MaxConnections /\ slot \in [Slots -> SlotType]
  BY Zenon DEF PoolInv
<1>3. made \in Nat /\ made' \in Connections /\ made' \in made .. MaxConnections
  BY <1>1, <1>2, WorkspaceAssumption DEF Connections
<1>4. PICK x, m : m = made' /\ x = [Vacant EXCEPT !.phase = phase, !.owner = m]
  BY Zenon
<1>5. x \in SlotType /\ x.phase = phase /\ x.owner = m /\ x.retained = 0
  <2>1. m \in Nat
    BY <1>3, <1>4 DEF Connections
  <2> QED
    BY <1>4, <2>1, Zenon DEF Vacant, SlotType
<1>6. slot' = [slot EXCEPT ![s] = x]
  BY <1>4, Zenon DEF Claim
<1>7. slot'[s] = x /\ Only(slot, slot', s)
  BY <1>2, <1>6, Zenon DEF Only
<1>8. SlotOk(kind, made, slot[s], params[s], reassembly[s], flight[s], identity[s])
  BY <1>1, IdleFacts, Zenon
<1>9. Tenant(slot[s]) = 0
  BY <1>1, Zenon DEF Tenant
<1>10. \A d : /\ Home(reassembly[s], Layout(kind).reassembly, d)
              /\ Home(flight[s], Layout(kind).flight, d)
              /\ Home(identity[s], Layout(kind).identity, d)
  BY <1>8, <1>9, EmptyHome, Zenon DEF SlotOk
<1> QED
  BY <1>1, <1>3, <1>4, <1>5, <1>7, <1>10, Zenon

\* Pool::connect.
LEMMA ConnectInv ==
    ASSUME IInv, NEW s \in Slots, Connect(s)
    PROVE  IInv'
<1>1. /\ kind \notin {"FramedClient", "QuicServer"} /\ Claim(s, "Leased")
      /\ ticket' = [ticket EXCEPT ![made'] = IF first THEN "First" ELSE "None"]
      /\ first' = FALSE
      /\ kind' = kind /\ params' = params /\ reassembly' = reassembly /\ flight' = flight
      /\ identity' = identity /\ call' = call /\ begun' = begun /\ outbox' = outbox
      /\ sent' = sent
  BY Zenon DEF Connect, Framed, Buffers
<1>2. PoolInv /\ StoresInv /\ TicketsInv /\ begun \in 0 .. MaxFlights
  BY Zenon DEF IInv, PoolInv
<1>3. /\ call = NoCall /\ made \in Nat /\ made' = made + 1
      /\ made' \in Connections /\ made' \in made .. MaxConnections
      /\ Only(slot, slot', s)
      /\ slot'[s] \in SlotType /\ slot'[s].phase = "Leased" /\ slot'[s].owner = made'
      /\ slot'[s].retained = 0
      /\ \A d : /\ Home(reassembly[s], Layout(kind).reassembly, d)
                /\ Home(flight[s], Layout(kind).flight, d)
                /\ Home(identity[s], Layout(kind).identity, d)
  BY <1>1, <1>2, ClaimFacts, Zenon
<1>4. SlotOk(kind, made, slot[s], params[s], reassembly[s], flight[s], identity[s])
  BY <1>2, <1>3, IdleFacts, Zenon
<1>5. params[s] = <<>> /\ BelongTo(params[s], made')
  BY <1>1, <1>4 DEF SlotOk, BelongTo
<1>6. Tenant(slot'[s]) = made'
  BY <1>3, Zenon DEF Tenant
<1>7. made' # 0 /\ made' <= made'
  BY <1>3 DEF Connections
<1>8. SlotOk(kind, made', slot'[s], params[s], reassembly[s], flight[s], identity[s])
  BY <1>1, <1>3, <1>5, <1>6, <1>7 DEF SlotOk
<1>9. PoolInv' /\ CallInv' /\ StoresInv'
  BY <1>1, <1>2, <1>3, <1>8, IdleFacts, SlotStep, Zenon
<1>10. TicketsInv'
  <2>1. /\ first \in BOOLEAN /\ ticket \in [Connections -> {"None", "First", "Restored"}]
        /\ \A c \in Connections : ticket[c] = "First" => c <= made
    BY <1>2, Zenon DEF TicketsInv
  <2>2. \A c \in Connections : c <= made => c # made' /\ c <= made'
    BY <1>3 DEF Connections
  <2>3. \A c \in Connections : ticket'[c] = IF c = made' THEN IF first THEN "First" ELSE "None"
                                            ELSE ticket[c]
    BY <1>1, <2>1, Zenon
  <2>4. ticket' \in [Connections -> {"None", "First", "Restored"}]
    BY <1>1, <2>1, Zenon
  <2>5. \A c \in Connections : ticket'[c] = "First" => c <= made'
    BY <1>7, <2>1, <2>2, <2>3, Zenon
  <2>6. ASSUME OfClient
        PROVE  \E c \in Connections :
                  ticket'[c] = "First" /\ \A d \in Connections \ {c} : ticket'[d] # "First"
    <3>1. CASE first
      <4>1. \A c \in Connections : ticket[c] # "First"
        BY <1>2, <2>6, <3>1, Zenon DEF TicketsInv
      <4> QED
        BY <1>3, <2>3, <3>1, <4>1, ZenonT(40)
    <3>2. CASE ~first
      <4>1. PICK c \in Connections :
               ticket[c] = "First" /\ \A d \in Connections \ {c} : ticket[d] # "First"
        BY <1>2, <2>6, <3>2, Zenon DEF TicketsInv
      <4>2. c # made'
        BY <2>1, <2>2, <4>1, Zenon
      <4> QED
        BY <2>3, <3>2, <4>1, <4>2, Zenon
    <3> QED
      BY <3>1, <3>2, <2>1, Zenon
  <2> QED
    BY <1>1, <2>4, <2>5, <2>6, Zenon DEF TicketsInv, OfClient
<1> QED
  BY <1>9, <1>10, Zenon DEF IInv

\* reserve and reserve_restored.
LEMMA ReserveInv ==
    ASSUME IInv, NEW s \in Slots, NEW restored \in BOOLEAN, Reserve(s, restored)
    PROVE  IInv'
<1>1. /\ kind \in {"FramedClient", "QuicServer"} /\ Claim(s, "Reserved")
      /\ params' = [params EXCEPT ![s] = <<>>]
      /\ ticket' = [ticket EXCEPT ![made'] = IF restored THEN "Restored" ELSE "None"]
      /\ first' = first
      /\ kind' = kind /\ reassembly' = reassembly /\ flight' = flight
      /\ identity' = identity /\ call' = call /\ begun' = begun /\ outbox' = outbox
      /\ sent' = sent
  BY Zenon DEF Reserve, ReservedParams, Framed, Buffers
<1>2. PoolInv /\ StoresInv /\ TicketsInv /\ begun \in 0 .. MaxFlights
  BY Zenon DEF IInv, PoolInv
<1>3. /\ call = NoCall /\ made \in Nat /\ made' = made + 1
      /\ made' \in Connections /\ made' \in made .. MaxConnections
      /\ Only(slot, slot', s)
      /\ slot'[s] \in SlotType /\ slot'[s].phase = "Reserved" /\ slot'[s].owner = made'
      /\ slot'[s].retained = 0
      /\ \A d : /\ Home(reassembly[s], Layout(kind).reassembly, d)
                /\ Home(flight[s], Layout(kind).flight, d)
                /\ Home(identity[s], Layout(kind).identity, d)
  BY <1>1, <1>2, ClaimFacts, Zenon
<1>4. params'[s] = <<>> /\ Only(params, params', s)
  BY <1>1, <1>2, Zenon DEF Only, PoolInv
<1>5. <<>> \in Seq(ByteType) /\ BelongTo(<<>>, made')
  BY DEF BelongTo
<1>7. made' # 0 /\ made' <= made'
  BY <1>3 DEF Connections
<1>8. SlotOk(kind, made', slot'[s], params'[s], reassembly[s], flight[s], identity[s])
  <2>1. /\ Home(reassembly[s], Layout(kind).reassembly, Tenant(slot'[s]))
        /\ Home(flight[s], Layout(kind).flight, Tenant(slot'[s]))
        /\ Home(identity[s], Layout(kind).identity, Tenant(slot'[s]))
    BY <1>3, Zenon
  <2>2. PICK x, m : x = slot'[s] /\ m = made'
    BY Zenon
  <2>3. /\ x \in SlotType /\ x.owner <= m /\ x.owner = m /\ m # 0 /\ x.phase = "Reserved"
        /\ x.retained = 0 /\ ~(0 > 0) /\ BelongTo(<<>>, x.owner)
    BY <1>3, <1>5, <1>7, <2>2
  <2>4. SlotOk(kind, m, x, <<>>, reassembly[s], flight[s], identity[s])
    BY <1>1, <1>5, <2>1, <2>2, <2>3, Zenon DEF SlotOk
  <2> QED
    BY <1>4, <2>2, <2>4, Zenon
<1>9. PoolInv' /\ CallInv' /\ StoresInv'
  BY <1>1, <1>2, <1>3, <1>4, <1>8, IdleFacts, SlotStep, Zenon
<1>10. TicketsInv'
  <2>1. /\ first \in BOOLEAN /\ ticket \in [Connections -> {"None", "First", "Restored"}]
        /\ \A c \in Connections : ticket[c] = "First" => c <= made
    BY <1>2, Zenon DEF TicketsInv
  <2>2. \A c \in Connections : c <= made => c # made' /\ c <= made'
    BY <1>3 DEF Connections
  <2>3. \A c \in Connections : ticket'[c] = "First" <=> ticket[c] = "First"
    BY <1>1, <2>1, <2>2, Zenon
  <2>4. ticket' \in [Connections -> {"None", "First", "Restored"}]
    BY <1>1, <2>1, Zenon
  <2>5. \A c \in Connections : ticket'[c] = "First" => c <= made'
    BY <2>1, <2>2, <2>3, Zenon
  <2> QED
    BY <1>1, <1>2, <2>3, <2>4, <2>5, Zenon DEF TicketsInv, OfClient
<1> QED
  BY <1>9, <1>10, Zenon DEF IInv

\* RetainedBytes::try_extend.
LEMMA WriteParamsInv ==
    ASSUME IInv, NEW s \in Slots, WriteParams(s)
    PROVE  IInv'
<1>1. /\ call = NoCall /\ slot[s].phase = "Reserved"
      /\ params' = [params EXCEPT ![s] = Append(params[s], Byte(slot[s].owner, 0))]
      /\ kind' = kind /\ slot' = slot /\ reassembly' = reassembly /\ flight' = flight
      /\ identity' = identity /\ first' = first /\ call' = call /\ made' = made
      /\ begun' = begun /\ ticket' = ticket /\ outbox' = outbox /\ sent' = sent
  BY Zenon DEF WriteParams, Buffers
<1>2. /\ PoolInv /\ StoresInv /\ TicketsInv /\ begun \in 0 .. MaxFlights
      /\ made \in 0 .. MaxConnections /\ params \in [Slots -> Seq(ByteType)]
  BY Zenon DEF IInv, PoolInv
<1>3. SlotOk(kind, made, slot[s], params[s], reassembly[s], flight[s], identity[s])
  BY <1>1, <1>2, IdleFacts, Zenon
<1>4. slot[s].owner \in Connections
  BY <1>1, <1>2, <1>3, WorkspaceAssumption, SMTT(30) DEF SlotOk, SlotType, Connections
<1>5. PICK x : x = Byte(slot[s].owner, 0)
  BY Zenon
<1>6. x \in ByteType /\ x.conn = slot[s].owner
  <2>1. 0 \in 0 .. MaxFlights /\ 0 \in Nat
    BY WorkspaceAssumption
  <2> QED
    BY <1>4, <1>5, <2>1, ByteFacts, Zenon
<1>7. params[s] \in Seq(ByteType) /\ \A p \in 1 .. Len(params[s]) : params[s][p].conn = slot[s].owner
  BY <1>1, <1>2, <1>3 DEF SlotOk, BelongTo
<1>8. params'[s] = Append(params[s], x) /\ Only(params, params', s)
  BY <1>1, <1>2, <1>5, Zenon DEF Only
<1>9. params'[s] \in Seq(ByteType) /\ BelongTo(params'[s], slot[s].owner)
  BY <1>6, <1>7, <1>8 DEF BelongTo
<1>10. SlotOk(kind, made', slot'[s], params'[s], reassembly[s], flight[s], identity[s])
  BY <1>1, <1>3, <1>9, Zenon DEF SlotOk
<1>11. made' \in made .. MaxConnections /\ made \in Nat
  BY <1>1, <1>2, WorkspaceAssumption
<1>12. PoolInv' /\ CallInv' /\ StoresInv'
  BY <1>1, <1>2, <1>8, <1>10, <1>11, IdleFacts, SlotStep, Zenon
<1>13. TicketsInv'
  BY <1>1, <1>2, <1>11, TicketsKept
<1> QED
  BY <1>12, <1>13, Zenon DEF IInv

\* Connecting a reservation.
LEMMA ConnectReservedInv ==
    ASSUME IInv, NEW s \in Slots, ConnectReserved(s)
    PROVE  IInv'
<1>1. /\ call = NoCall /\ slot[s].phase = "Reserved"
      /\ slot' = [slot EXCEPT ![s].phase = "Leased"]
      /\ ticket' = [ticket EXCEPT ![slot[s].owner] =
                      IF TakesFirst(s) THEN "First" ELSE ticket[slot[s].owner]]
      /\ first' = (first /\ ~TakesFirst(s))
      /\ kind' = kind /\ params' = params /\ reassembly' = reassembly /\ flight' = flight
      /\ identity' = identity /\ call' = call /\ made' = made
      /\ begun' = begun /\ outbox' = outbox /\ sent' = sent
  BY Zenon DEF ConnectReserved, Buffers
<1>2. /\ PoolInv /\ StoresInv /\ TicketsInv /\ begun \in 0 .. MaxFlights
      /\ made \in 0 .. MaxConnections /\ slot \in [Slots -> SlotType]
  BY Zenon DEF IInv, PoolInv
<1>3. SlotOk(kind, made, slot[s], params[s], reassembly[s], flight[s], identity[s])
  BY <1>1, <1>2, IdleFacts, Zenon
<1>4. slot[s].owner \in Connections /\ slot[s].owner <= made
  BY <1>1, <1>2, <1>3, WorkspaceAssumption, SMTT(30) DEF SlotOk, SlotType, Connections
<1>5. PICK x : x = [slot[s] EXCEPT !.phase = "Leased"]
  BY Zenon
<1>6. /\ x \in SlotType /\ x.phase = "Leased" /\ x.owner = slot[s].owner
      /\ x.retained = slot[s].retained
  BY <1>2, <1>5, Zenon DEF SlotType
<1>7. slot'[s] = x /\ Only(slot, slot', s)
  BY <1>1, <1>2, <1>5, Zenon DEF Only
<1>8. /\ Home(reassembly[s], Layout(kind).reassembly, 0)
      /\ Home(flight[s], Layout(kind).flight, 0)
      /\ Home(identity[s], Layout(kind).identity, 0)
  BY <1>1, <1>3, Zenon DEF SlotOk, Tenant
<1>9. /\ Home(reassembly[s], Layout(kind).reassembly, Tenant(x))
      /\ Home(flight[s], Layout(kind).flight, Tenant(x))
      /\ Home(identity[s], Layout(kind).identity, Tenant(x))
  BY <1>8, EmptyHome, Zenon
<1>10. SlotOk(kind, made, x, params[s], reassembly[s], flight[s], identity[s])
  BY <1>1, <1>3, <1>6, <1>9, Zenon DEF SlotOk
<1>11. made' \in made .. MaxConnections /\ made \in Nat
  BY <1>1, <1>2, WorkspaceAssumption
<1>12. PoolInv' /\ CallInv' /\ StoresInv'
  BY <1>1, <1>2, <1>7, <1>10, <1>11, IdleFacts, SlotStep, Zenon
<1>13. TicketsInv'
  <2>1. /\ first \in BOOLEAN /\ ticket \in [Connections -> {"None", "First", "Restored"}]
        /\ \A c \in Connections : ticket[c] = "First" => c <= made
    BY <1>2, Zenon DEF TicketsInv
  <2>2. CASE TakesFirst(s)
    <3>1. first /\ first' = FALSE /\ ticket' = [ticket EXCEPT ![slot[s].owner] = "First"]
      BY <1>1, <2>2, Zenon DEF TakesFirst
    <3>2. /\ ticket' \in [Connections -> {"None", "First", "Restored"}]
          /\ ticket'[slot[s].owner] = "First"
          /\ \A c \in Connections \ {slot[s].owner} : ticket'[c] = ticket[c]
      BY <1>4, <2>1, <3>1, Zenon
    <3>3. \A c \in Connections : ticket'[c] = "First" => c <= made
      BY <1>4, <2>1, <3>2, Zenon
    <3>4. OfClient => \A c \in Connections : ticket[c] # "First"
      BY <1>2, <3>1, Zenon DEF TicketsInv
    <3>5. OfClient => \E c \in Connections :
             ticket'[c] = "First" /\ \A d \in Connections \ {c} : ticket'[d] # "First"
      BY <1>4, <3>2, <3>4, Zenon
    <3> QED
      BY <1>1, <3>1, <3>2, <3>3, <3>5, Zenon DEF TicketsInv, OfClient
  <2>3. CASE ~TakesFirst(s)
    <3>1. ticket' = ticket
      BY <1>1, <1>4, <2>1, <2>3, Zenon
    <3>2. first' = first
      BY <1>1, <2>1, <2>3, Zenon
    <3> QED
      BY <1>1, <1>2, <1>11, <3>1, <3>2, TicketsKept
  <2> QED
    BY <2>2, <2>3, Zenon
<1> QED
  BY <1>12, <1>13, Zenon DEF IInv

\* A reservation dropped, or a lease: the slot is vacant, its buffers empty.
LEMMA VacantOk ==
    ASSUME NEW k, NEW m \in Nat, NEW ps \in Seq(ByteType), NEW rb, NEW fb, NEW ib,
           Home(rb, Layout(k).reassembly, 0), Home(fb, Layout(k).flight, 0),
           Home(ib, Layout(k).identity, 0),
           k \notin {"FramedClient", "QuicServer"} => ps = <<>>
    PROVE  SlotOk(k, m, Vacant, ps, rb, fb, ib)
<1>1. Vacant \in SlotType /\ Vacant.owner = 0 /\ Vacant.phase = "Vacant" /\ Vacant.retained = 0
  BY Zenon DEF Vacant, SlotType
<1>2. Tenant(Vacant) = 0
  BY <1>1, Zenon DEF Tenant
<1> QED
  BY <1>1, <1>2 DEF SlotOk

\* A reservation dropped unused.
LEMMA DropReservationInv ==
    ASSUME IInv, NEW s \in Slots, DropReservation(s)
    PROVE  IInv'
<1>1. /\ call = NoCall /\ slot[s].phase = "Reserved"
      /\ slot' = [slot EXCEPT ![s] = Vacant]
      /\ kind' = kind /\ params' = params /\ reassembly' = reassembly /\ flight' = flight
      /\ identity' = identity /\ first' = first /\ call' = call /\ made' = made
      /\ begun' = begun /\ ticket' = ticket /\ outbox' = outbox /\ sent' = sent
  BY Zenon DEF DropReservation, Buffers
<1>2. /\ PoolInv /\ StoresInv /\ TicketsInv /\ begun \in 0 .. MaxFlights
      /\ made \in 0 .. MaxConnections /\ slot \in [Slots -> SlotType]
  BY Zenon DEF IInv, PoolInv
<1>3. SlotOk(kind, made, slot[s], params[s], reassembly[s], flight[s], identity[s])
  BY <1>1, <1>2, IdleFacts, Zenon
<1>4. slot'[s] = Vacant /\ Only(slot, slot', s)
  BY <1>1, <1>2, Zenon DEF Only
<1>5. /\ Home(reassembly[s], Layout(kind).reassembly, 0)
      /\ Home(flight[s], Layout(kind).flight, 0)
      /\ Home(identity[s], Layout(kind).identity, 0)
      /\ params[s] \in Seq(ByteType)
      /\ kind \notin {"FramedClient", "QuicServer"} => params[s] = <<>>
  BY <1>1, <1>3, Zenon DEF SlotOk, Tenant
<1>6. made' \in made .. MaxConnections /\ made \in Nat
  BY <1>1, <1>2, WorkspaceAssumption
<1>7. SlotOk(kind, made, Vacant, params[s], reassembly[s], flight[s], identity[s])
  BY <1>5, <1>6, VacantOk, Zenon
<1>8. PoolInv' /\ CallInv' /\ StoresInv'
  BY <1>1, <1>2, <1>4, <1>6, <1>7, IdleFacts, SlotStep, Zenon
<1>9. TicketsInv'
  BY <1>1, <1>2, <1>6, TicketsKept
<1> QED
  BY <1>8, <1>9, Zenon DEF IInv

\* A lease dropped: into_seed.
LEMMA ReleaseInv ==
    ASSUME IInv, NEW s \in Slots, Release(s)
    PROVE  IInv'
<1>1. /\ call = NoCall
      /\ slot' = [slot EXCEPT ![s] = Vacant]
      /\ params' = [params EXCEPT ![s] = <<>>]
      /\ reassembly' = [reassembly EXCEPT ![s] = Clear(reassembly[s])]
      /\ flight' = [flight EXCEPT ![s] = Clear(flight[s])]
      /\ identity' = [identity EXCEPT ![s] = Clear(identity[s])]
      /\ kind' = kind /\ first' = first /\ call' = call /\ made' = made
      /\ begun' = begun /\ ticket' = ticket /\ outbox' = outbox /\ sent' = sent
  BY Zenon DEF Release, Recycled
<1>2. /\ PoolInv /\ StoresInv /\ TicketsInv /\ begun \in 0 .. MaxFlights
      /\ made \in 0 .. MaxConnections /\ slot \in [Slots -> SlotType] /\ kind \in Kinds
      /\ params \in [Slots -> Seq(ByteType)]
      /\ reassembly \in [Slots -> BufferType] /\ flight \in [Slots -> BufferType]
      /\ identity \in [Slots -> BufferType]
  BY Zenon DEF IInv, PoolInv
<1>3. SlotOk(kind, made, slot[s], params[s], reassembly[s], flight[s], identity[s])
  BY <1>1, <1>2, IdleFacts, Zenon
<1>4. /\ slot'[s] = Vacant /\ Only(slot, slot', s)
      /\ params'[s] = <<>> /\ Only(params, params', s)
      /\ reassembly'[s] = Clear(reassembly[s]) /\ Only(reassembly, reassembly', s)
      /\ flight'[s] = Clear(flight[s]) /\ Only(flight, flight', s)
      /\ identity'[s] = Clear(identity[s]) /\ Only(identity, identity', s)
  BY <1>1, <1>2, Zenon DEF Only
<1>5. /\ Home(reassembly'[s], Layout(kind).reassembly, 0)
      /\ Home(flight'[s], Layout(kind).flight, 0)
      /\ Home(identity'[s], Layout(kind).identity, 0)
  BY <1>2, <1>3, <1>4, LayoutFacts, ClearHome, ZenonT(40) DEF SlotOk
<1>6. made' \in made .. MaxConnections /\ made \in Nat
  BY <1>1, <1>2, WorkspaceAssumption
<1>7. <<>> \in Seq(ByteType)
  OBVIOUS
<1>8. SlotOk(kind, made, Vacant, <<>>, reassembly'[s], flight'[s], identity'[s])
  BY <1>5, <1>6, <1>7, VacantOk, Zenon
<1>9. PoolInv' /\ CallInv' /\ StoresInv'
  BY <1>1, <1>2, <1>4, <1>6, <1>8, SlotStep, Zenon
<1>10. TicketsInv'
  BY <1>1, <1>2, <1>6, TicketsKept
<1> QED
  BY <1>9, <1>10, Zenon DEF IInv

-----------------------------------------------------------------------------
(* The input side. *)

\* A connection is poisoned between calls.
LEMMA PoisonStep ==
    ASSUME IInv, call = NoCall, NEW s \in Slots, slot[s].phase = "Leased", Poison(s, flight[s]),
           UNCHANGED <<kind, params, first, call, made, ticket, outbox, sent>>,
           begun' \in 0 .. MaxFlights
    PROVE  IInv'
<1>1. /\ PoolInv /\ StoresInv /\ TicketsInv
      /\ made \in 0 .. MaxConnections /\ slot \in [Slots -> SlotType] /\ kind \in Kinds
      /\ reassembly \in [Slots -> BufferType] /\ flight \in [Slots -> BufferType]
      /\ identity \in [Slots -> BufferType]
  BY Zenon DEF IInv, PoolInv
<1>2. SlotOk(kind, made, slot[s], params[s], reassembly[s], flight[s], identity[s])
  BY <1>1, IdleFacts, Zenon
<1>3. PICK y : y = [slot[s] EXCEPT !.failed = TRUE, !.retained = 0]
  BY Zenon
<1>4. /\ slot'[s] = y /\ Only(slot, slot', s)
      /\ reassembly'[s] = Clear(reassembly[s]) /\ Only(reassembly, reassembly', s)
      /\ flight'[s] = Clear(flight[s]) /\ Only(flight, flight', s)
      /\ identity'[s] = Clear(identity[s]) /\ Only(identity, identity', s)
  BY <1>1, <1>3, Zenon DEF Only, Poison
<1>5. Home(flight[s], Layout(kind).flight, Tenant(slot[s]))
  BY <1>2, Zenon DEF SlotOk
<1>6. SlotOk(kind, made, y, params[s], reassembly'[s], flight'[s], identity'[s])
  <2>1. SlotOk(kind, made, y, params[s], Clear(reassembly[s]), Clear(flight[s]), Clear(identity[s]))
    BY <1>1, <1>2, <1>3, <1>5, PoisonOk, Zenon
  <2> QED
    BY <1>4, <2>1, Zenon
<1>7. made' \in made .. MaxConnections /\ made \in Nat
  BY <1>1, WorkspaceAssumption
<1>8. PoolInv' /\ CallInv' /\ StoresInv'
  BY <1>1, <1>4, <1>6, <1>7, IdleFacts, SlotStep, Zenon
<1>9. TicketsInv'
  BY <1>1, <1>7, TicketsKept
<1> QED
  BY <1>8, <1>9, Zenon DEF IInv

\* What an action of a live connection starts from.
LEMMA LiveFacts ==
    ASSUME IInv, call = NoCall, NEW s \in Slots, slot[s].phase = "Leased"
    PROVE  /\ PoolInv /\ StoresInv /\ TicketsInv
           /\ made \in Nat /\ made \in made .. MaxConnections /\ begun \in 0 .. MaxFlights
           /\ kind \in Kinds /\ slot \in [Slots -> SlotType]
           /\ reassembly \in [Slots -> BufferType] /\ flight \in [Slots -> BufferType]
           /\ identity \in [Slots -> BufferType]
           /\ SlotOk(kind, made, slot[s], params[s], reassembly[s], flight[s], identity[s])
           /\ slot[s].owner \in Connections /\ Tenant(slot[s]) = slot[s].owner
           /\ 0 \in 0 .. MaxFlights
<1>1. /\ PoolInv /\ StoresInv /\ TicketsInv /\ made \in 0 .. MaxConnections
      /\ begun \in 0 .. MaxFlights /\ kind \in Kinds /\ slot \in [Slots -> SlotType]
      /\ reassembly \in [Slots -> BufferType] /\ flight \in [Slots -> BufferType]
      /\ identity \in [Slots -> BufferType]
  BY Zenon DEF IInv, PoolInv
<1>2. SlotOk(kind, made, slot[s], params[s], reassembly[s], flight[s], identity[s])
  BY <1>1, IdleFacts, Zenon
<1>3. slot[s].owner \in Connections
  BY <1>1, <1>2, WorkspaceAssumption, SMTT(30) DEF SlotOk, SlotType, Connections
<1>4. made \in Nat /\ made \in made .. MaxConnections /\ 0 \in 0 .. MaxFlights
  BY <1>1, WorkspaceAssumption
<1> QED
  BY <1>1, <1>2, <1>3, <1>4, Zenon DEF Tenant

\* A fragment is kept, or fails the connection.
LEMMA FragmentInv ==
    ASSUME IInv, NEW s \in Slots, NEW n \in Chunks, Fragment(s, n)
    PROVE  IInv'
<1>1. /\ call = NoCall /\ slot[s].phase = "Leased"
      /\ kind' = kind /\ params' = params /\ first' = first /\ call' = call /\ made' = made
      /\ begun' = begun /\ ticket' = ticket /\ outbox' = outbox /\ sent' = sent
  BY Zenon DEF Fragment, Live
<1>2. begun \in 0 .. MaxFlights
  BY <1>1, LiveFacts, Zenon
<1>3. CASE Fits(reassembly[s], n)
  <2>1. /\ reassembly' = [reassembly EXCEPT ![s] = Put(reassembly[s], Bytes(slot[s].owner, 0, n))]
        /\ slot' = slot /\ flight' = flight /\ identity' = identity
    BY <1>3, Zenon DEF Fragment
  <2>2. PICK w : w = Put(reassembly[s], Bytes(slot[s].owner, 0, n))
    BY Zenon
  <2>3. n \in Nat
    BY DEF Chunks
  <2>4. Layout(kind).reassembly \in Nat
    BY <1>1, LiveFacts, LayoutFacts, Zenon
  <2>5. Home(w, Layout(kind).reassembly, slot[s].owner)
    BY <1>1, <2>2, <2>3, <2>4, LiveFacts, PutHome, Zenon DEF SlotOk
  <2>6. SlotOk(kind, made, slot[s], params[s], w, flight[s], identity[s])
    BY <1>1, <2>5, LiveFacts, Zenon DEF SlotOk
  <2>7. reassembly'[s] = w /\ Only(reassembly, reassembly', s)
    BY <1>1, <2>1, <2>2, LiveFacts, Zenon DEF Only
  <2>8. PoolInv' /\ CallInv' /\ StoresInv'
    BY <1>1, <2>1, <2>6, <2>7, LiveFacts, IdleFacts, SlotStep, Zenon
  <2>9. TicketsInv'
    <3>1. TicketsInv /\ made \in Nat
      BY <1>1, LiveFacts, Zenon
    <3> QED
      BY <1>1, <3>1, TicketsKept
  <2> QED
    BY <2>8, <2>9, Zenon DEF IInv
<1>4. CASE ~Fits(reassembly[s], n)
  BY <1>1, <1>2, <1>4, PoisonStep, Zenon DEF Fragment
<1> QED
  BY <1>3, <1>4, Zenon

\* The message is handed on.
LEMMA CompleteInv ==
    ASSUME IInv, NEW s \in Slots, Complete(s)
    PROVE  IInv'
<1>1. /\ call = NoCall /\ slot[s].phase = "Leased"
      /\ reassembly' = [reassembly EXCEPT ![s] = Clear(reassembly[s])]
      /\ slot' = slot /\ flight' = flight /\ identity' = identity
      /\ kind' = kind /\ params' = params /\ first' = first /\ call' = call /\ made' = made
      /\ begun' = begun /\ ticket' = ticket /\ outbox' = outbox /\ sent' = sent
  BY Zenon DEF Complete, Live
<1>2. PICK w : w = Clear(reassembly[s])
  BY Zenon
<1>3. Layout(kind).reassembly \in Nat
  BY <1>1, LiveFacts, LayoutFacts, Zenon
<1>4. Home(w, Layout(kind).reassembly, slot[s].owner)
  BY <1>1, <1>2, <1>3, LiveFacts, ClearHome, Zenon DEF SlotOk
<1>5. SlotOk(kind, made, slot[s], params[s], w, flight[s], identity[s])
  BY <1>1, <1>4, LiveFacts, Zenon DEF SlotOk
<1>6. reassembly'[s] = w /\ Only(reassembly, reassembly', s)
  BY <1>1, <1>2, LiveFacts, Zenon DEF Only
<1>7. PoolInv' /\ CallInv' /\ StoresInv'
  BY <1>1, <1>5, <1>6, LiveFacts, IdleFacts, SlotStep, Zenon
<1>8. TicketsInv /\ made \in Nat
  BY <1>1, LiveFacts, Zenon
<1>9. TicketsInv'
  BY <1>1, <1>8, TicketsKept
<1> QED
  BY <1>7, <1>9, Zenon DEF IInv

\* A peer's identity that fits fills its buffer.
LEMMA KeepIdentity ==
    ASSUME NEW b, NEW cap \in Nat, NEW c \in Connections, Home(b, cap, c), NEW n \in Nat,
           Fits(Clear(b), n), NEW w, w = Put(Clear(b), Bytes(c, 0, n))
    PROVE  Home(w, cap, c) /\ w.bytes = Bytes(c, 0, n)
<1>1. 0 \in 0 .. MaxFlights
  BY WorkspaceAssumption
<1>2. PICK e : e = Clear(b)
  BY Zenon
<1>3. Home(e, cap, c) /\ Len(e.bytes) = 0
  BY <1>2, ClearHome, Zenon
<1>4. Home(w, cap, c)
  BY <1>1, <1>2, <1>3, PutHome, Zenon
<1>5. b \in BufferType /\ b.base <= Len(b.bytes)
  BY BufferFacts DEF Home
<1>6. e \in BufferType /\ e.overflowed = FALSE
  BY <1>2, <1>5, ClearFacts, Zenon
<1>7. /\ w \in BufferType /\ Len(w.bytes) = Len(e.bytes) + n
      /\ \A p \in Len(e.bytes) + 1 .. Len(e.bytes) + n : w.bytes[p] = Byte(c, 0)
  <2>1. Written(e, w, c, 0, n)
    BY <1>1, <1>2, <1>6, PutFacts, Zenon
  <2> QED
    BY <1>2, <1>6, <2>1, Zenon DEF Written
<1>8. /\ w.bytes \in Seq(ByteType) /\ Len(w.bytes) = n
      /\ \A p \in 1 .. n : w.bytes[p] = Byte(c, 0)
  BY <1>3, <1>7, BufferFacts
<1>9. PICK x : x = Byte(c, 0)
  BY Zenon
<1>10. w.bytes = [i \in 1 .. n |-> x]
  BY <1>8, <1>9
<1> QED
  BY <1>4, <1>9, <1>10, Zenon DEF Bytes

\* A slot with its identity buffer written or cleared, as the other fields were.
LEMMA IdentityOk ==
    ASSUME NEW k \in Kinds, NEW m, NEW x, NEW ps, NEW rb, NEW fb, NEW ib, NEW n \in Nat, NEW w, NEW y,
           SlotOk(k, m, x, ps, rb, fb, ib), x.phase = "Leased",
           y = [x EXCEPT !.retained = n],
           Home(w, IF k \in {"Client", "FramedClient"} THEN Layout(k).flight
                   ELSE Layout(k).identity, Tenant(x)),
           n > 0 => w.bytes = Bytes(x.owner, 0, n)
    PROVE  IF k \in {"Client", "FramedClient"} THEN SlotOk(k, m, y, ps, rb, w, ib)
           ELSE SlotOk(k, m, y, ps, rb, fb, w)
<1>1. x \in SlotType
  BY Zenon DEF SlotOk
<1>2. /\ y \in SlotType /\ y.phase = x.phase /\ y.owner = x.owner /\ y.retained = n
  BY <1>1, Zenon DEF SlotType
<1>3. Tenant(y) = Tenant(x)
  BY <1>2, Zenon DEF Tenant
<1>4. CASE k \in {"Client", "FramedClient"}
  BY <1>2, <1>3, <1>4, Zenon DEF SlotOk
<1>5. CASE k \notin {"Client", "FramedClient"}
  BY <1>2, <1>3, <1>5, Zenon DEF SlotOk
<1> QED
  BY <1>4, <1>5, Zenon

\* An action that writes or clears the identity buffer of a live connection.
LEMMA IdentityStep ==
    ASSUME IInv, call = NoCall, NEW s \in Slots, slot[s].phase = "Leased",
           NEW n \in Nat, NEW w,
           Home(w, IF OfClient THEN Layout(kind).flight ELSE Layout(kind).identity, slot[s].owner),
           n > 0 => w.bytes = Bytes(slot[s].owner, 0, n),
           slot' = [slot EXCEPT ![s].retained = n],
           flight' = IF OfClient THEN [flight EXCEPT ![s] = w] ELSE flight,
           identity' = IF OfClient THEN identity ELSE [identity EXCEPT ![s] = w],
           UNCHANGED <<kind, params, reassembly, first, call, made, begun, ticket, outbox, sent>>
    PROVE  IInv'
<1>1. PICK y : y = [slot[s] EXCEPT !.retained = n]
  BY Zenon
<1>2. slot'[s] = y /\ Only(slot, slot', s)
  BY <1>1, LiveFacts, Zenon DEF Only
<1>3. /\ kind \in Kinds /\ Tenant(slot[s]) = slot[s].owner
      /\ SlotOk(kind, made, slot[s], params[s], reassembly[s], flight[s], identity[s])
      /\ flight \in [Slots -> BufferType] /\ identity \in [Slots -> BufferType]
  BY LiveFacts, Zenon
<1>4. IF OfClient THEN SlotOk(kind, made, y, params[s], reassembly[s], w, identity[s])
      ELSE SlotOk(kind, made, y, params[s], reassembly[s], flight[s], w)
  BY <1>1, <1>3, IdentityOk DEF OfClient
<1>5. SlotOk(kind, made, y, params[s], reassembly[s], flight'[s], identity'[s])
  BY <1>3, <1>4, Zenon
<1>6. Only(flight, flight', s) /\ Only(identity, identity', s)
  BY <1>3, Zenon DEF Only
<1>7. PoolInv' /\ CallInv' /\ StoresInv'
  BY <1>2, <1>5, <1>6, LiveFacts, IdleFacts, SlotStep, Zenon
<1>8. TicketsInv /\ made \in Nat
  BY LiveFacts, Zenon
<1>9. TicketsInv'
  BY <1>8, TicketsKept
<1> QED
  BY <1>7, <1>9, Zenon DEF IInv

\* The identity buffer of a live connection.
LEMMA PeerHome ==
    ASSUME IInv, call = NoCall, NEW s \in Slots, slot[s].phase = "Leased", NEW b, NEW cap,
           b = IF OfClient THEN flight[s] ELSE identity[s],
           cap = IF OfClient THEN Layout(kind).flight ELSE Layout(kind).identity
    PROVE  cap \in Nat /\ Home(b, cap, slot[s].owner) /\ slot[s].owner \in Connections
<1>1. /\ kind \in Kinds /\ Tenant(slot[s]) = slot[s].owner /\ slot[s].owner \in Connections
      /\ SlotOk(kind, made, slot[s], params[s], reassembly[s], flight[s], identity[s])
  BY LiveFacts, Zenon
<1> QED
  BY <1>1, LayoutFacts, Zenon DEF SlotOk

\* Certificate: the identity is kept, or fails the connection.
LEMMA RetainIdentityInv ==
    ASSUME IInv, NEW s \in Slots, NEW n \in 1 .. IdentityNeeded + 1, RetainIdentity(s, n)
    PROVE  IInv'
<1>1. /\ call = NoCall /\ slot[s].phase = "Leased"
      /\ kind' = kind /\ params' = params /\ first' = first /\ call' = call /\ made' = made
      /\ begun' = begun /\ ticket' = ticket /\ outbox' = outbox /\ sent' = sent
  BY Zenon DEF RetainIdentity, Live
<1>2. begun \in 0 .. MaxFlights
  BY <1>1, LiveFacts, Zenon
<1>3. PICK b, cap : /\ b = IF OfClient THEN flight[s] ELSE identity[s]
                    /\ cap = IF OfClient THEN Layout(kind).flight ELSE Layout(kind).identity
  BY Zenon
<1>4. CASE Fits(Clear(b), n)
  <2>1. PICK w : w = Put(Clear(b), Bytes(slot[s].owner, 0, n))
    BY Zenon
  <2>2. n \in Nat
    BY WorkspaceAssumption
  <2>3. /\ slot' = [slot EXCEPT ![s].retained = n]
        /\ flight' = IF OfClient THEN [flight EXCEPT ![s] = w] ELSE flight
        /\ identity' = IF OfClient THEN identity ELSE [identity EXCEPT ![s] = w]
        /\ reassembly' = reassembly
    BY <1>3, <1>4, <2>1, Zenon DEF RetainIdentity
  <2>4. Home(w, cap, slot[s].owner) /\ w.bytes = Bytes(slot[s].owner, 0, n)
    BY <1>1, <1>3, <1>4, <2>1, <2>2, PeerHome, KeepIdentity
  <2> QED
    BY <1>1, <1>3, <2>2, <2>3, <2>4, IdentityStep, Zenon
<1>5. CASE ~Fits(Clear(b), n)
  <2>1. Poison(s, flight[s])
    BY <1>3, <1>5, Zenon DEF RetainIdentity
  <2> QED
    BY <1>1, <1>2, <2>1, PoisonStep, Zenon
<1> QED
  BY <1>4, <1>5, Zenon

\* CertificateVerify: the identity is used and cleared, or the call fails.
LEMMA UseIdentityInv ==
    ASSUME IInv, NEW s \in Slots, NEW good \in BOOLEAN, UseIdentity(s, good)
    PROVE  IInv'
<1>1. /\ call = NoCall /\ slot[s].phase = "Leased"
      /\ kind' = kind /\ params' = params /\ first' = first /\ call' = call /\ made' = made
      /\ begun' = begun /\ ticket' = ticket /\ outbox' = outbox /\ sent' = sent
  BY Zenon DEF UseIdentity, Live
<1>2. begun \in 0 .. MaxFlights
  BY <1>1, LiveFacts, Zenon
<1>3. PICK b, cap : /\ b = IF OfClient THEN flight[s] ELSE identity[s]
                    /\ cap = IF OfClient THEN Layout(kind).flight ELSE Layout(kind).identity
  BY Zenon
<1>4. CASE good
  <2>1. PICK w : w = Clear(b)
    BY Zenon
  <2>2. /\ slot' = [slot EXCEPT ![s].retained = 0]
        /\ flight' = IF OfClient THEN [flight EXCEPT ![s] = w] ELSE flight
        /\ identity' = IF OfClient THEN identity ELSE [identity EXCEPT ![s] = w]
        /\ reassembly' = reassembly
    BY <1>3, <1>4, <2>1, Zenon DEF UseIdentity
  <2>3. Home(w, cap, slot[s].owner)
    BY <1>1, <1>3, <2>1, PeerHome, ClearHome, Zenon
  <2>4. 0 \in Nat /\ ~(0 > 0)
    OBVIOUS
  <2> QED
    BY <1>1, <1>3, <2>2, <2>3, <2>4, IdentityStep, Zenon
<1>5. CASE ~good
  BY <1>1, <1>2, <1>5, PoisonStep, Zenon DEF UseIdentity
<1> QED
  BY <1>4, <1>5, Zenon

\* The sink refuses the flight.
LEMMA RefuseFlightInv ==
    ASSUME IInv, NEW s \in Slots, RefuseFlight(s)
    PROVE  IInv'
<1>1. /\ call = NoCall /\ begun < MaxFlights /\ slot[s].phase = "Leased" /\ begun' = begun + 1
      /\ Poison(s, flight[s])
      /\ UNCHANGED <<kind, params, first, call, made, ticket, outbox, sent>>
  BY Zenon DEF RefuseFlight, MayBegin, Live
<1>2. begun' \in 0 .. MaxFlights
  BY <1>1, LiveFacts, WorkspaceAssumption
<1> QED
  BY <1>1, <1>2, PoisonStep, Zenon

-----------------------------------------------------------------------------
(* What a store holds. *)

\* The end of a store's flights.
LEMMA EndFacts ==
    ASSUME NEW fs \in Seq(FlightType)
    PROVE  /\ EndOf(fs) \in Nat /\ Len(fs) \in Nat /\ DOMAIN fs = 1 .. Len(fs)
           /\ \A i \in 1 .. Len(fs) :
                /\ fs[i].at \in Nat /\ fs[i].size \in Nat
                /\ fs[i].lengths \subseteq LengthType
<1>1. \A i \in 1 .. Len(fs) : fs[i] \in FlightType
  OBVIOUS
<1>2. \A i \in 1 .. Len(fs) : /\ fs[i].at \in Nat /\ fs[i].size \in Nat
                              /\ fs[i].lengths \subseteq LengthType
  BY <1>1, Zenon DEF FlightType
<1>3. fs # <<>> => Len(fs) \in 1 .. Len(fs)
  OBVIOUS
<1> QED
  BY <1>2, <1>3 DEF EndOf

\* The flights of a store depend on its bytes up to their end only.
LEMMA WholeAgrees ==
    ASSUME NEW fs \in Seq(FlightType), NEW t, NEW u, NEW c, Whole(fs, t, c),
           EndOf(fs) <= Len(u), \A p \in 1 .. EndOf(fs) : u[p] = t[p]
    PROVE  Whole(fs, u, c)
<1> SUFFICES ASSUME NEW i \in 1 .. Len(fs)
             PROVE  /\ \A p \in fs[i].at + 1 .. fs[i].at + fs[i].size :
                         u[p].conn = c /\ u[p].flight = fs[i].no
                    /\ \A l \in fs[i].lengths : u[fs[i].at + l.start + 1].length = l.length
  BY ZenonT(40) DEF Whole
<1>1. PICK e \in Nat, a \in Nat, z \in Nat : e = EndOf(fs) /\ a = fs[i].at /\ z = fs[i].size
  BY EndFacts, Zenon
<1>2. a + z <= e
  BY <1>1, Zenon DEF Whole
<1>3. \A p \in a + 1 .. a + z : u[p] = t[p] /\ t[p].conn = c /\ t[p].flight = fs[i].no
  <2>1. \A p \in a + 1 .. a + z : p \in 1 .. e
    BY <1>2
  <2> QED
    BY <1>1, <2>1, ZenonT(40) DEF Whole
<1>4. ASSUME NEW l \in fs[i].lengths
      PROVE  u[a + l.start + 1] = t[a + l.start + 1] /\ t[a + l.start + 1].length = l.length
  <2>1. l.start \in Nat
    BY EndFacts, Zenon DEF LengthType
  <2>2. l.start < z /\ t[a + l.start + 1].length = l.length
    BY <1>1, Zenon DEF Whole
  <2>3. a + l.start + 1 \in 1 .. e
    BY <1>2, <2>1, <2>2, SMTT(30)
  <2> QED
    BY <1>1, <2>2, <2>3, Zenon
<1> QED
  BY <1>1, <1>3, <1>4, ZenonT(40)

\* A flight written behind the others is one more that the store holds.
LEMMA WholeAppend ==
    ASSUME NEW fs \in Seq(FlightType), NEW t, NEW c, Whole(fs, t, c),
           NEW g \in FlightType, g.at = EndOf(fs), Len(t) \in Nat, g.at + g.size <= Len(t),
           \A p \in g.at + 1 .. g.at + g.size : t[p].conn = c /\ t[p].flight = g.no,
           \A l \in g.lengths : l.start < g.size /\ t[g.at + l.start + 1].length = l.length,
           NEW gs, gs = Append(fs, g)
    PROVE  Whole(gs, t, c) /\ gs \in Seq(FlightType) /\ EndOf(gs) = g.at + g.size
<1>1. /\ gs \in Seq(FlightType) /\ Len(gs) = Len(fs) + 1 /\ Len(fs) \in Nat
      /\ \A i \in 1 .. Len(fs) : gs[i] = fs[i]
      /\ gs[Len(fs) + 1] = g /\ gs # <<>>
  OBVIOUS
<1>2. EndOf(gs) = g.at + g.size
  BY <1>1, Zenon DEF EndOf
<1>3. g.at \in Nat /\ g.size \in Nat
  BY Zenon DEF FlightType
<1>4. ASSUME NEW i \in 1 .. Len(gs)
      PROVE  /\ gs[i].at = IF i = 1 THEN 0 ELSE gs[i - 1].at + gs[i - 1].size
             /\ gs[i].at + gs[i].size <= EndOf(gs)
             /\ \A p \in gs[i].at + 1 .. gs[i].at + gs[i].size :
                  t[p].conn = c /\ t[p].flight = gs[i].no
             /\ \A l \in gs[i].lengths :
                  /\ l.start < gs[i].size
                  /\ t[gs[i].at + l.start + 1].length = l.length
  <2>1. CASE i \in 1 .. Len(fs)
    <3>1. gs[i] = fs[i] /\ (i # 1 => gs[i - 1] = fs[i - 1])
      BY <1>1, <2>1, SMTT(30)
    <3>2. fs[i].at + fs[i].size <= EndOf(gs)
      <4>1. fs[i].at + fs[i].size <= EndOf(fs) /\ EndOf(fs) \in Nat
            /\ fs[i].at \in Nat /\ fs[i].size \in Nat
        BY <2>1, EndFacts, Zenon DEF Whole
      <4> QED
        BY <1>2, <1>3, <4>1, SMTT(30)
    <3>3. fs[i].at = IF i = 1 THEN 0 ELSE fs[i - 1].at + fs[i - 1].size
      BY <2>1, Zenon DEF Whole
    <3>4. /\ \A p \in fs[i].at + 1 .. fs[i].at + fs[i].size :
                  t[p].conn = c /\ t[p].flight = fs[i].no
          /\ \A l \in fs[i].lengths :
                  /\ l.start < fs[i].size
                  /\ t[fs[i].at + l.start + 1].length = l.length
      BY <2>1, Zenon DEF Whole
    <3> QED
      BY <3>1, <3>2, <3>3, <3>4, Zenon
  <2>2. CASE i = Len(fs) + 1
    <3>1. gs[i] = g
      BY <1>1, <2>2, Zenon
    <3>2. g.at = IF i = 1 THEN 0 ELSE gs[i - 1].at + gs[i - 1].size
      <4>1. CASE Len(fs) = 0
        <5>1. fs = <<>>
          BY <4>1
        <5> QED
          BY <2>2, <4>1, <5>1 DEF EndOf
      <4>2. CASE Len(fs) # 0
        <5>1. fs # <<>> /\ i # 1 /\ i - 1 = Len(fs) /\ Len(fs) \in 1 .. Len(fs)
          BY <1>1, <2>2, <4>2
        <5> QED
          BY <1>1, <5>1, Zenon DEF EndOf
      <4> QED
        BY <4>1, <4>2, Zenon
    <3>3. g.at + g.size <= EndOf(gs)
      BY <1>2, <1>3
    <3> QED
      BY <3>1, <3>2, <3>3, Zenon
  <2> QED
    BY <1>1, <2>1, <2>2
<1>5. EndOf(gs) <= Len(t)
  BY <1>2, Zenon
<1> QED
  BY <1>1, <1>2, <1>4, <1>5, Zenon DEF Whole

-----------------------------------------------------------------------------
(* A flight begins. *)

\* A step to an encoding call, from one or from between calls.
LEMMA CallStep ==
    ASSUME PoolInv, StoresInv, NEW k \in CallType, k # NoCall, call' = k,
           NEW s \in Slots, s = k.slot, NEW c \in Connections, c = slot[s].owner,
           slot[s].phase = "Leased", slot[s].retained = 0,
           Encoding => call.slot = s,
           kind' = kind, slot' = slot, params' = params, reassembly' = reassembly,
           identity' = identity, made' = made, sent' = sent, begun' \in 0 .. MaxFlights,
           Only(flight, flight', s), Only(outbox, outbox', c), outbox'[c] \in Seq(ByteType),
           Home(Own(s)', Layout(kind).flight, c),
           Draft(flight'[s], k, c, begun'),
           Whole(sent[c], Store(c)', c),
           k.outboundBase = EndOf(sent[c]), ~k.lent => Len(outbox'[c]) = k.outboundBase
    PROVE  PoolInv' /\ CallInv' /\ StoresInv'
<1>1. Encoding' /\ call'.slot = s
  BY Zenon DEF Encoding
<1>2. /\ kind \in Kinds /\ made \in 0 .. MaxConnections
      /\ slot \in [Slots -> SlotType] /\ params \in [Slots -> Seq(ByteType)]
      /\ reassembly \in [Slots -> BufferType] /\ flight \in [Slots -> BufferType]
      /\ identity \in [Slots -> BufferType]
      /\ \A r \in Slots :
           SlotOk(kind, made, slot[r], params[r], reassembly[r], Own(r), identity[r])
  BY Zenon DEF PoolInv
<1>3. flight'[s] \in BufferType
  BY Zenon DEF Draft
<1>4. flight' \in [Slots -> BufferType] /\ \A r \in Slots \ {s} : flight'[r] = flight[r]
  BY <1>2, <1>3, Zenon DEF Only
<1>5. ASSUME NEW r \in Slots, r # s
      PROVE  Own(r)' = Own(r)
  BY <1>1, <1>4, <1>5, Zenon DEF Own
<1>6. SlotOk(kind, made, slot[s], params[s], reassembly[s], Own(s)', identity[s])
  <2>1. SlotOk(kind, made, slot[s], params[s], reassembly[s], Own(s), identity[s])
    BY <1>2, Zenon
  <2>2. Tenant(slot[s]) = c /\ ~(slot[s].retained > 0)
    BY DEF Tenant
  <2> QED
    BY <2>1, <2>2, Zenon DEF SlotOk
<1>7. ASSUME NEW r \in Slots
      PROVE  SlotOk(kind, made, slot[r], params[r], reassembly[r], Own(r)', identity[r])
  <2>1. CASE r = s
    BY <1>6, <2>1, Zenon
  <2>2. CASE r # s
    BY <1>2, <1>5, <2>2, Zenon
  <2> QED
    BY <2>1, <2>2, Zenon
<1>8. PoolInv'
  BY <1>2, <1>4, <1>7, Zenon DEF PoolInv
<1>9. CallInv'
  BY <1>1, Zenon DEF CallInv, Buffer
<1>10. outbox \in [Connections -> Seq(ByteType)] /\ sent \in [Connections -> Seq(FlightType)]
  BY Zenon DEF StoresInv
<1>11. /\ outbox' \in [Connections -> Seq(ByteType)]
       /\ \A d \in Connections \ {c} : outbox'[d] = outbox[d]
  BY <1>10, Zenon DEF Only
<1>12. ASSUME NEW d \in Connections, d # c
       PROVE  Whole(sent[d], Store(d)', d) /\ EndInv(d)'
  <2>1. Store(d)' = outbox[d] /\ Store(d) = outbox[d]
    <3>1. slot'[call'.slot].owner # d
      BY <1>1, <1>12, Zenon
    <3>2. Encoding => slot[call.slot].owner # d
      BY <1>12, Zenon
    <3> QED
      BY <1>11, <1>12, <3>1, <3>2, Zenon DEF Store
  <2>2. Whole(sent[d], Store(d), d) /\ EndInv(d)
    BY Zenon DEF StoresInv
  <2>3. Len(outbox[d]) = EndOf(sent[d])
    BY <1>12, <2>2, Zenon DEF EndInv
  <2>4. EndInv(d)'
    BY <1>1, <1>11, <1>12, <2>3, Zenon DEF EndInv
  <2> QED
    BY <2>1, <2>2, <2>4, Zenon
<1>13. EndInv(c)'
  BY <1>1, Zenon DEF EndInv
<1>14. StoresInv'
  BY <1>10, <1>11, <1>12, <1>13, Zenon DEF StoresInv
<1> QED
  BY <1>8, <1>9, <1>14, Zenon

\* The call that NewCall makes.
IsNewCall(k, s, lent) ==
    /\ k \in CallType /\ k # NoCall /\ k.slot = s /\ k.lent = lent /\ k.saved = flight[s]
    /\ k.outboundBase = Len(outbox[slot[s].owner]) /\ k.frames = <<>> /\ k.asked = 0
    /\ k.lengths = {}

\* A new call has its type.
LEMMA NewCallFacts ==
    ASSUME IInv, NEW s \in Slots, MayBegin(s), NEW lent \in BOOLEAN,
           NEW k, k = NewCall(s, lent)
    PROVE  IsNewCall(k, s, lent)
<1>1. flight[s] \in BufferType /\ Len(outbox[slot[s].owner]) \in Nat
  BY LiveFacts DEF MayBegin, Live, StoresInv
<1>2. PICK n \in Nat, b \in BufferType : n = Len(outbox[slot[s].owner]) /\ b = flight[s]
  BY <1>1, Zenon
<1>3. k = [slot |-> s, lent |-> lent, saved |-> b, outboundBase |-> n,
           frames |-> <<>>, typed |-> FALSE, asked |-> 0, lengths |-> {}]
  BY <1>2, Zenon DEF NewCall
<1>4. 0 \in 0 .. MaxAsked
  BY WorkspaceAssumption
<1>5. k \in CallType
  BY <1>2, <1>3, <1>4 DEF CallType
<1>6. DOMAIN k # DOMAIN NoCall
  BY <1>3 DEF NoCall
<1> QED
  BY <1>2, <1>3, <1>5, <1>6, SMTT(30) DEF IsNewCall

\* What a flight begins with.
LEMMA NewDraft ==
    ASSUME NEW b \in BufferType, NEW k \in CallType, b.base = Len(b.bytes), b.overflowed = FALSE,
           b.base = IF k.lent THEN k.outboundBase ELSE 0,
           k.frames = <<>>, k.asked = 0, k.lengths = {}, NEW c, NEW f
    PROVE  Draft(b, k, c, f)
<1>1. b.base \in Nat /\ Len(b.bytes) \in Nat
  BY BufferFacts, Zenon
<1>2. Len(b.bytes) = b.base + k.asked /\ b.base + 1 .. Len(b.bytes) = {} /\ Len(k.frames) = 0
  BY <1>1
<1> QED
  BY <1>1, <1>2 DEF Draft

\* begin_send lends nothing.
LEMMA BeginOwnInv ==
    ASSUME IInv, NEW s \in Slots, BeginOwn(s)
    PROVE  IInv'
<1>1. /\ MayBegin(s) /\ begun' = begun + 1 /\ call' = NewCall(s, FALSE)
      /\ call = NoCall /\ begun < MaxFlights /\ slot[s].phase = "Leased" /\ slot[s].retained = 0
      /\ flight' = [flight EXCEPT ![s] = Clear(flight[s])]
      /\ kind' = kind /\ slot' = slot /\ params' = params /\ reassembly' = reassembly
      /\ identity' = identity /\ first' = first /\ made' = made /\ ticket' = ticket
      /\ outbox' = outbox /\ sent' = sent
  BY Zenon DEF BeginOwn, MayBegin, Live
<1>2. PICK c \in Connections : c = slot[s].owner
  BY <1>1, LiveFacts, Zenon
<1>0. PICK lent \in BOOLEAN : lent = FALSE
  BY Zenon
<1>3. PICK k : k = NewCall(s, lent) /\ k = NewCall(s, FALSE)
  BY <1>0, Zenon
<1>4. /\ k \in CallType /\ k # NoCall /\ k.slot = s /\ k.lent = FALSE
      /\ k.outboundBase = Len(outbox[c]) /\ k.frames = <<>>
      /\ k.asked = 0 /\ k.lengths = {}
  <2>1. IsNewCall(k, s, lent)
    BY <1>1, <1>3, NewCallFacts, ZenonT(40)
  <2> QED
    BY <1>0, <1>2, <2>1, Zenon DEF IsNewCall
<1>5. /\ PoolInv /\ StoresInv /\ TicketsInv /\ kind \in Kinds /\ made \in Nat
      /\ flight \in [Slots -> BufferType] /\ begun' \in 0 .. MaxFlights
      /\ Home(flight[s], Layout(kind).flight, c)
  BY <1>1, <1>2, LiveFacts, WorkspaceAssumption, SMTT(30) DEF SlotOk
<1>6. PICK b : b = Clear(flight[s])
  BY Zenon
<1>7. Home(b, Layout(kind).flight, c) /\ Len(b.bytes) = 0
  BY <1>5, <1>6, LayoutFacts, ClearHome, Zenon
<1>8. b \in BufferType /\ b.base = 0 /\ b.overflowed = FALSE
  <2>1. flight[s] \in BufferType /\ flight[s].base <= Len(flight[s].bytes)
    BY <1>5, BufferFacts DEF Home
  <2> QED
    BY <1>6, <1>7, <2>1, ClearFacts, Zenon DEF Home
<1>9. Draft(b, k, c, begun')
  BY <1>4, <1>7, <1>8, NewDraft, Zenon
<1>10. flight'[s] = b /\ Only(flight, flight', s)
  BY <1>1, <1>5, <1>6, Zenon DEF Only
<1>11. Own(s)' = b
  BY <1>1, <1>3, <1>4, <1>10, Zenon DEF Own, OwnAfter
<1>12. /\ outbox \in [Connections -> Seq(ByteType)] /\ Only(outbox, outbox', c)
       /\ Whole(sent[c], Store(c), c) /\ EndInv(c)
  BY <1>1, <1>5, Zenon DEF StoresInv, Only
<1>13. Store(c)' = outbox[c] /\ Store(c) = outbox[c] /\ Len(outbox[c]) = EndOf(sent[c])
  BY <1>1, <1>3, <1>4, <1>12, Zenon DEF Store, EndInv, Encoding
<1>14. ~Encoding /\ outbox'[c] \in Seq(ByteType)
  BY <1>1, <1>12, Zenon DEF Encoding
<1>15. PoolInv' /\ CallInv' /\ StoresInv'
  BY <1>1, <1>2, <1>3, <1>4, <1>5, <1>7, <1>9, <1>10, <1>11, <1>12, <1>13, <1>14, CallStep, ZenonT(40)
<1>16. TicketsInv'
  BY <1>1, <1>5, TicketsKept
<1> QED
  BY <1>15, <1>16, Zenon DEF IInv

\* begin_send lends the transport's store.
LEMMA BeginLentInv ==
    ASSUME IInv, NEW s \in Slots, NEW maximum \in Loans, BeginLent(s, maximum)
    PROVE  IInv'
<1>1. /\ MayBegin(s) /\ begun' = begun + 1 /\ call' = NewCall(s, TRUE)
      /\ call = NoCall /\ begun < MaxFlights /\ slot[s].phase = "Leased" /\ slot[s].retained = 0
      /\ kind' = kind /\ slot' = slot /\ params' = params /\ reassembly' = reassembly
      /\ identity' = identity /\ first' = first /\ made' = made /\ ticket' = ticket
      /\ sent' = sent
  BY Zenon DEF BeginLent, MayBegin, Live
<1>2. PICK c \in Connections : c = slot[s].owner
  BY <1>1, LiveFacts, Zenon
<1>0. PICK lent \in BOOLEAN : lent = TRUE
  BY Zenon
<1>3. PICK k : k = NewCall(s, lent) /\ k = NewCall(s, TRUE)
  BY <1>0, Zenon
<1>4. /\ k \in CallType /\ k # NoCall /\ k.slot = s /\ k.lent = TRUE /\ k.saved = flight[s]
      /\ k.outboundBase = Len(outbox[c]) /\ k.frames = <<>>
      /\ k.asked = 0 /\ k.lengths = {}
  <2>1. IsNewCall(k, s, lent)
    BY <1>1, <1>3, NewCallFacts, Zenon
  <2> QED
    BY <1>0, <1>2, <2>1, Zenon DEF IsNewCall
<1>5. /\ PoolInv /\ StoresInv /\ TicketsInv /\ kind \in Kinds /\ made \in Nat
      /\ flight \in [Slots -> BufferType] /\ begun' \in 0 .. MaxFlights
      /\ Home(flight[s], Layout(kind).flight, c)
  BY <1>1, <1>2, LiveFacts, WorkspaceAssumption, SMTT(30) DEF SlotOk
<1>6. /\ outbox \in [Connections -> Seq(ByteType)]
      /\ Whole(sent[c], Store(c), c) /\ EndInv(c) /\ sent[c] \in Seq(FlightType)
  BY <1>5, Zenon DEF StoresInv
<1>7. PICK a : a = [bytes |-> outbox[c], base |-> Len(outbox[c]), limit |-> maximum,
                    overflowed |-> FALSE]
  BY Zenon
<1>8. /\ a \in BufferType /\ a.base = Len(outbox[c]) /\ a.bytes = outbox[c]
      /\ Len(outbox[c]) \in Nat
  BY <1>6, <1>7, WorkspaceAssumption DEF BufferType
<1>9. PICK b : b = Clear(a) /\ a.base <= Len(a.bytes)
  BY <1>8
<1>10. /\ b \in BufferType /\ b.base = a.base /\ b.overflowed = FALSE /\ Len(b.bytes) = a.base
       /\ \A p \in 1 .. a.base : b.bytes[p] = a.bytes[p]
  BY <1>8, <1>9, ClearFacts, Zenon
<1>11. Draft(b, k, c, begun')
  BY <1>4, <1>8, <1>10, NewDraft, Zenon
<1>12. /\ flight' = [flight EXCEPT ![s] = b]
       /\ outbox' = [outbox EXCEPT ![c] = flight[s].bytes]
  BY <1>2, <1>7, <1>9, Zenon DEF BeginLent
<1>13. flight'[s] = b /\ Only(flight, flight', s)
  BY <1>5, <1>12, Zenon DEF Only
<1>14. /\ outbox'[c] = flight[s].bytes /\ Only(outbox, outbox', c)
       /\ outbox'[c] \in Seq(ByteType)
  BY <1>5, <1>6, <1>12, Zenon DEF Only, BufferType
<1>15. Own(s)' = flight[s]
  <2>1. PICK f \in BufferType : f = flight[s]
    BY <1>5, Zenon
  <2>2. Own(s)' = [bytes |-> f.bytes, base |-> f.base, limit |-> f.limit,
                   overflowed |-> f.overflowed]
    BY <1>1, <1>2, <1>3, <1>4, <1>14, <2>1, Zenon DEF Own, OwnAfter, Encoding
  <2> QED
    BY <2>1, <2>2, BufferFacts, Zenon
<1>16. Store(c)' = b.bytes /\ Store(c) = outbox[c] /\ Len(outbox[c]) = EndOf(sent[c])
  BY <1>1, <1>2, <1>3, <1>4, <1>6, <1>13, Zenon DEF Store, EndInv, Encoding, Buffer
<1>17. Whole(sent[c], b.bytes, c)
  BY <1>6, <1>8, <1>10, <1>16, WholeAgrees
<1>18. ~Encoding
  BY <1>1, Zenon DEF Encoding
<1>19. PoolInv' /\ CallInv' /\ StoresInv'
  BY <1>1, <1>2, <1>3, <1>4, <1>5, <1>11, <1>13, <1>14, <1>15, <1>16, <1>17, <1>18, CallStep, ZenonT(40)
<1>20. TicketsInv'
  BY <1>1, <1>5, TicketsKept
<1> QED
  BY <1>19, <1>20, Zenon DEF IInv

-----------------------------------------------------------------------------
(* The encoder. *)

\* What a step of the encoder starts from.
LEMMA EncodingFacts ==
    ASSUME IInv, Encoding, NEW s, s = call.slot, NEW c, c = slot[s].owner
    PROVE  /\ s \in Slots /\ c \in Connections
           /\ slot[s].phase = "Leased" /\ slot[s].retained = 0 /\ Tenant(slot[s]) = c
           /\ call \in CallType /\ Buffer = flight[s] /\ Draft(flight[s], call, c, begun)
           /\ begun \in 0 .. MaxFlights /\ kind \in Kinds /\ made \in Nat
           /\ flight \in [Slots -> BufferType]
           /\ SlotOk(kind, made, slot[s], params[s], reassembly[s], Own(s), identity[s])
           /\ Home(Own(s), Layout(kind).flight, c)
           /\ outbox \in [Connections -> Seq(ByteType)] /\ sent \in [Connections -> Seq(FlightType)]
           /\ call.outboundBase = EndOf(sent[c])
           /\ Whole(sent[c], IF call.lent THEN flight[s].bytes ELSE outbox[c], c)
           /\ ~call.lent => Len(outbox[c]) = call.outboundBase
           /\ ~call.lent => Own(s) = flight[s]
<1>1. /\ call \in CallType /\ slot[s].phase = "Leased" /\ slot[s].retained = 0
      /\ Draft(flight[s], call, c, begun)
  BY Zenon DEF IInv, CallInv, Buffer
<1>2. s \in Slots
  BY <1>1, Zenon DEF CallType
<1>3. /\ begun \in 0 .. MaxFlights /\ kind \in Kinds /\ made \in 0 .. MaxConnections
      /\ flight \in [Slots -> BufferType]
      /\ SlotOk(kind, made, slot[s], params[s], reassembly[s], Own(s), identity[s])
  BY <1>2, Zenon DEF IInv, PoolInv
<1>4. made \in Nat /\ c \in Connections
  BY <1>1, <1>3, WorkspaceAssumption, SMTT(30) DEF SlotOk, SlotType, Connections
<1>5. Tenant(slot[s]) = c /\ Home(Own(s), Layout(kind).flight, c)
  BY <1>1, <1>3, Zenon DEF Tenant, SlotOk
<1>6. /\ outbox \in [Connections -> Seq(ByteType)] /\ sent \in [Connections -> Seq(FlightType)]
      /\ Whole(sent[c], Store(c), c) /\ EndInv(c)
  BY <1>4, Zenon DEF IInv, StoresInv
<1>7. Store(c) = (IF call.lent THEN flight[s].bytes ELSE outbox[c])
  BY Zenon DEF Store, Buffer
<1>8. ~call.lent => Own(s) = flight[s]
  BY Zenon DEF Own, OwnAfter
<1>9. call.outboundBase = EndOf(sent[c]) /\ (~call.lent => Len(outbox[c]) = call.outboundBase)
  BY <1>6, Zenon DEF EndInv
<1> QED
  BY <1>1, <1>2, <1>3, <1>4, <1>5, <1>6, <1>7, <1>8, <1>9, Zenon DEF Buffer

\* A step of the encoder that leaves a draft in the buffer.
LEMMA EncodedStep ==
    ASSUME IInv, Encoding, NEW s, s = call.slot, NEW c, c = slot[s].owner,
           NEW k \in CallType, k.slot = s, k.lent = call.lent, k.saved = call.saved,
           k.outboundBase = call.outboundBase, DOMAIN k = DOMAIN call,
           NEW b, Encoded(b, k), Draft(b, k, c, begun),
           \A p \in 1 .. flight[s].base : b.bytes[p] = flight[s].bytes[p],
           ~call.lent => Home(b, Layout(kind).flight, c)
    PROVE  IInv'
<1>1. /\ flight' = [flight EXCEPT ![s] = b] /\ call' = k
      /\ kind' = kind /\ slot' = slot /\ params' = params /\ reassembly' = reassembly
      /\ identity' = identity /\ first' = first /\ made' = made /\ begun' = begun
      /\ ticket' = ticket /\ outbox' = outbox /\ sent' = sent
  BY Zenon DEF Encoded
<1>2. /\ s \in Slots /\ c \in Connections
      /\ slot[s].phase = "Leased" /\ slot[s].retained = 0
      /\ call \in CallType /\ Draft(flight[s], call, c, begun)
      /\ begun \in 0 .. MaxFlights /\ kind \in Kinds /\ made \in Nat
      /\ flight \in [Slots -> BufferType]
      /\ Home(Own(s), Layout(kind).flight, c)
      /\ outbox \in [Connections -> Seq(ByteType)] /\ sent \in [Connections -> Seq(FlightType)]
      /\ call.outboundBase = EndOf(sent[c])
      /\ Whole(sent[c], IF call.lent THEN flight[s].bytes ELSE outbox[c], c)
      /\ ~call.lent => Len(outbox[c]) = call.outboundBase
  BY EncodingFacts, ZenonT(40)
<1>3. k # NoCall
  <2>1. DOMAIN k = {"slot", "lent", "saved", "outboundBase", "frames", "typed", "asked", "lengths"}
    BY Zenon DEF CallType
  <2>2. DOMAIN NoCall = {"slot"}
    BY Zenon DEF NoCall
  <2> QED
    BY <2>1, <2>2
<1>4. Encoding'
  BY <1>1, <1>3, Zenon DEF Encoding
<1>5. flight'[s] = b /\ Only(flight, flight', s)
  BY <1>1, <1>2, Zenon DEF Only
<1>6. Only(outbox, outbox', c) /\ outbox'[c] \in Seq(ByteType)
  BY <1>1, <1>2, Zenon DEF Only
<1>7. Home(Own(s)', Layout(kind).flight, c)
  <2>1. CASE call.lent
    <3>1. Own(s)' = Own(s)
      BY <1>1, <1>4, <2>1, Zenon DEF Own, OwnAfter
    <3> QED
      BY <1>2, <3>1, Zenon
  <2>2. CASE ~call.lent
    <3>1. Own(s)' = b
      BY <1>1, <1>5, <2>2, Zenon DEF Own, OwnAfter
    <3> QED
      BY <2>2, <3>1, Zenon
  <2> QED
    BY <2>1, <2>2, Zenon
<1>8. Whole(sent[c], Store(c)', c)
  <2>1. CASE call.lent
    <3>1. Store(c)' = b.bytes
      BY <1>1, <1>4, <1>5, <2>1, Zenon DEF Store, Buffer
    <3>2. flight[s].base = EndOf(sent[c]) /\ b.base = EndOf(sent[c]) /\ b.base <= Len(b.bytes)
      BY <1>2, <2>1, Zenon DEF Draft
    <3>3. /\ sent[c] \in Seq(FlightType) /\ Whole(sent[c], flight[s].bytes, c)
          /\ EndOf(sent[c]) <= Len(b.bytes)
          /\ \A p \in 1 .. EndOf(sent[c]) : b.bytes[p] = flight[s].bytes[p]
      BY <1>2, <2>1, <3>2, Zenon
    <3> QED
      BY <3>1, <3>3, WholeAgrees, ZenonT(40)
  <2>2. CASE ~call.lent
    <3>1. Store(c)' = outbox[c]
      BY <1>1, <2>2, Zenon DEF Store
    <3> QED
      BY <1>2, <2>2, <3>1, Zenon
  <2> QED
    BY <2>1, <2>2, Zenon
<1>9. PoolInv /\ StoresInv /\ TicketsInv
  BY Zenon DEF IInv
<1>10. PoolInv' /\ CallInv' /\ StoresInv'
  BY <1>1, <1>2, <1>3, <1>5, <1>6, <1>7, <1>8, <1>9, CallStep, Zenon
<1>11. TicketsInv'
  <2>1. made \in Nat /\ made' = made
    BY <1>1, <1>2, Zenon
  <2>2. made' \in Nat /\ made <= made'
    BY <2>1
  <2> QED
    BY <1>1, <1>9, <2>1, <2>2, TicketsKept, Zenon
<1> QED
  BY <1>10, <1>11, Zenon DEF IInv

\* The buffer w is b with at most n bytes of flight f of c behind it.
Grown(b, w, c, f, n) ==
    /\ w \in BufferType /\ w.base = b.base
    /\ Len(w.bytes) \in Len(b.bytes) .. Len(b.bytes) + n
    /\ \A p \in 1 .. Len(b.bytes) : w.bytes[p] = b.bytes[p]
    /\ \A p \in Len(b.bytes) + 1 .. Len(w.bytes) : w.bytes[p].conn = c /\ w.bytes[p].flight = f
    /\ ~w.overflowed => ~b.overflowed /\ Len(w.bytes) = Len(b.bytes) + n
    /\ ~b.overflowed /\ Fits(b, n) => ~w.overflowed

\* Put leaves what is there, and writes bytes of its flight behind it.
LEMMA PutGrows ==
    ASSUME NEW b \in BufferType, NEW c \in Connections, NEW f \in 0 .. MaxFlights, NEW n \in Nat,
           NEW w, w = Put(b, Bytes(c, f, n))
    PROVE  Grown(b, w, c, f, n)
<1>1. Len(b.bytes) \in Nat /\ b.overflowed \in BOOLEAN
  BY BufferFacts, Zenon
<1>2. Byte(c, f).conn = c /\ Byte(c, f).flight = f /\ Written(b, w, c, f, n)
  BY ByteFacts, PutFacts, Zenon
<1>3. CASE b.overflowed \/ ~Fits(b, n)
  <2>1. /\ w \in BufferType /\ w.base = b.base /\ w.bytes = b.bytes /\ w.overflowed = TRUE
    BY <1>2, <1>3, Zenon DEF Written
  <2> QED
    BY <1>1, <1>3, <2>1 DEF Grown
<1>4. CASE ~b.overflowed /\ Fits(b, n)
  <2>1. /\ w \in BufferType /\ w.base = b.base /\ w.overflowed = FALSE
        /\ Len(w.bytes) = Len(b.bytes) + n
        /\ \A p \in 1 .. Len(b.bytes) : w.bytes[p] = b.bytes[p]
        /\ \A p \in Len(b.bytes) + 1 .. Len(b.bytes) + n : w.bytes[p] = Byte(c, f)
    BY <1>2, <1>4, Zenon DEF Written
  <2> QED
    BY <1>1, <1>2, <1>4, <2>1 DEF Grown
<1> QED
  BY <1>3, <1>4, Zenon

\* The call j goes on from k, which had the buffer b and has w now, after n
\* more bytes were asked for.
Follows(b, k, w, j, n) ==
    /\ j.lent = k.lent /\ j.outboundBase = k.outboundBase /\ j.asked = k.asked + n
    /\ j.lengths = k.lengths
    /\ w.overflowed => j.typed \/ j.frames # <<>>
    /\ \A i \in 1 .. Len(j.frames) : b.base + j.frames[i] < Len(w.bytes)
    /\ \A h, i \in 1 .. Len(j.frames) : j.frames[h] = j.frames[i] => h = i
    /\ \A l \in k.lengths : \A i \in 1 .. Len(j.frames) : j.frames[i] # l.start

\* The buffer w is a draft for the call j, and what stood before the base of b
\* is as it was.
Redrafted(b, w, j, c, f) ==
    Draft(w, j, c, f) /\ \A p \in 1 .. b.base : w.bytes[p] = b.bytes[p]

\* What a draft keeps when Put writes behind it, whatever frames are open.
LEMMA PutDraft ==
    ASSUME NEW k \in CallType, NEW j \in CallType, NEW b, NEW c \in Connections,
           NEW f \in 0 .. MaxFlights, NEW n \in Nat, Draft(b, k, c, f),
           NEW w, w = Put(b, Bytes(c, f, n)), Follows(b, k, w, j, n)
    PROVE  Redrafted(b, w, j, c, f)
<1>1. b \in BufferType
  BY Zenon DEF Draft
<1>0. b.base \in Nat /\ Len(b.bytes) \in Nat
  BY <1>1, BufferFacts, Zenon
<1>a. k.asked \in Nat
  BY WorkspaceAssumption DEF CallType
<1>2. PICK m \in Nat, z \in Nat, a \in Nat : m = b.base /\ z = Len(b.bytes) /\ a = k.asked
  BY <1>0, <1>a, Zenon
<1>g. Grown(b, w, c, f, n)
  BY <1>1, PutGrows, Zenon
<1>3. /\ m <= z /\ z <= m + a /\ (~b.overflowed => z = m + a)
      /\ \A p \in m + 1 .. z : b.bytes[p].conn = c /\ b.bytes[p].flight = f
  BY <1>2, Zenon DEF Draft
<1>4. PICK y \in z .. z + n : y = Len(w.bytes)
  BY <1>2, <1>g, Zenon DEF Grown
<1>5. /\ w \in BufferType /\ w.base = m
      /\ \A p \in 1 .. z : w.bytes[p] = b.bytes[p]
      /\ \A p \in z + 1 .. y : w.bytes[p].conn = c /\ w.bytes[p].flight = f
      /\ ~w.overflowed => ~b.overflowed /\ y = z + n
  BY <1>2, <1>4, <1>g, Zenon DEF Grown
<1>6. \A p \in 1 .. m : w.bytes[p] = b.bytes[p]
  BY <1>3, <1>5
<1>7. m <= y /\ y <= m + j.asked /\ (~w.overflowed => y = m + j.asked)
  <2>1. y \in Nat /\ z <= y /\ y <= z + n /\ j.asked = a + n
    BY <1>2, <1>4, SMTT(30) DEF Follows
  <2>2. m <= y /\ y <= m + (a + n)
    BY <1>3, <2>1, SMTT(30)
  <2>3. ~w.overflowed => y = m + (a + n)
    BY <1>3, <1>5, <2>1
  <2> QED
    BY <2>1, <2>2, <2>3, Zenon
<1>8. \A p \in m + 1 .. y : w.bytes[p].conn = c /\ w.bytes[p].flight = f
  <2>1. \A p \in m + 1 .. y : (p \in m + 1 .. z /\ p \in 1 .. z) \/ p \in z + 1 .. y
    BY <1>3, <1>4
  <2> QED
    BY <1>3, <1>5, <2>1, ZenonT(40)
<1>b. j.lengths = k.lengths
  BY Zenon DEF Follows
<1>9. ASSUME NEW l \in j.lengths
      PROVE  m + l.start < y /\ w.bytes[m + l.start + 1].length = l.length
  <2>1. l.start \in Nat
    BY Zenon DEF CallType, LengthType
  <2>2. m + l.start < z /\ b.bytes[m + l.start + 1].length = l.length
    BY <1>2, <1>b, Zenon DEF Draft
  <2>3. m + l.start + 1 \in 1 .. z
    BY <2>1, <2>2
  <2> QED
    <3>1. w.bytes[m + l.start + 1] = b.bytes[m + l.start + 1]
      BY <1>5, <2>3, Zenon
    <3>2. m + l.start < y
      BY <1>4, <2>1, <2>2, SMTT(30)
    <3> QED
      BY <2>2, <3>1, <3>2, Zenon
<1>10. w.base = IF j.lent THEN j.outboundBase ELSE 0
  BY <1>2, <1>5, Zenon DEF Draft, Follows
<1> QED
  BY <1>2, <1>4, <1>5, <1>6, <1>7, <1>8, <1>9, <1>10, ZenonT(40) DEF Draft, Follows, Redrafted

\* What lies within a buffer lies within a longer one.
LEMMA StillWithin ==
    ASSUME NEW m \in Nat, NEW x \in Nat, NEW z \in Nat, NEW y \in Nat, z <= y, m + x < z
    PROVE  m + x < y
  OBVIOUS

\* Put when no frame is opened.
LEMMA PutSameFrames ==
    ASSUME NEW k \in CallType, NEW j \in CallType, NEW b, NEW c \in Connections,
           NEW f \in 0 .. MaxFlights, NEW n \in Nat, Draft(b, k, c, f),
           NEW w, w = Put(b, Bytes(c, f, n)),
           j.lent = k.lent, j.outboundBase = k.outboundBase, j.asked = k.asked + n,
           j.lengths = k.lengths, j.frames = k.frames, j.typed \/ j.frames # <<>>
    PROVE  Redrafted(b, w, j, c, f)
<1>1. b \in BufferType
  BY Zenon DEF Draft
<1>2. /\ Len(b.bytes) \in Nat /\ b.base \in Nat
      /\ Len(w.bytes) \in Len(b.bytes) .. Len(b.bytes) + n
  <2>1. Grown(b, w, c, f, n)
    BY <1>1, PutGrows, Zenon
  <2> QED
    BY <1>1, <2>1, BufferFacts, Zenon DEF Grown
<1>3. \A i \in 1 .. Len(j.frames) : j.frames[i] \in Nat /\ b.base + j.frames[i] < Len(b.bytes)
  BY SMTT(30) DEF CallType, Draft
<1>4. \A i \in 1 .. Len(j.frames) : b.base + j.frames[i] < Len(w.bytes)
  <2>1. PICK m \in Nat, z \in Nat : m = b.base /\ z = Len(b.bytes)
    BY <1>2, Zenon
  <2>2. PICK y \in Nat : y = Len(w.bytes) /\ z <= y
    BY <1>2, <2>1
  <2> QED
    BY <1>3, <2>1, <2>2, StillWithin, Zenon
<1>5. \A h, i \in 1 .. Len(j.frames) : j.frames[h] = j.frames[i] => h = i
  BY Zenon DEF Draft
<1>6. \A l \in k.lengths : \A i \in 1 .. Len(j.frames) : j.frames[i] # l.start
  BY DEF Draft
<1>7. Follows(b, k, w, j, n)
  BY <1>4, <1>5, <1>6, Zenon DEF Follows
<1> QED
  BY <1>7, PutDraft, Zenon

\* Put when it writes the length of a frame that opens.
LEMMA PutNewFrame ==
    ASSUME NEW k \in CallType, NEW j \in CallType, NEW b, NEW c \in Connections,
           NEW f \in 0 .. MaxFlights, Draft(b, k, c, f),
           NEW w, w = Put(b, Bytes(c, f, 1)), ~b.overflowed, Fits(b, 1),
           j.lent = k.lent, j.outboundBase = k.outboundBase, j.asked = k.asked + 1,
           j.lengths = k.lengths, j.frames = Append(k.frames, BufferLen(b))
    PROVE  Redrafted(b, w, j, c, f)
<1>1. b \in BufferType
  BY Zenon DEF Draft
<1>2. PICK m \in Nat, z \in Nat : m = b.base /\ z = Len(b.bytes)
  BY <1>1, BufferFacts, Zenon
<1>3. m <= z
  BY <1>2, Zenon DEF Draft
<1>4. ~w.overflowed /\ Len(w.bytes) = z + 1
  <2>1. Grown(b, w, c, f, 1)
    BY <1>1, PutGrows, Zenon
  <2> QED
    BY <1>2, <2>1, Zenon DEF Grown
<1>5. PICK start \in Nat : start = BufferLen(b) /\ m + start = z
  BY <1>2, <1>3 DEF BufferLen
<1>6. /\ k.frames \in Seq(Nat) /\ j.frames = Append(k.frames, start)
  BY <1>5, Zenon DEF CallType
<1>7. /\ Len(k.frames) \in Nat /\ Len(j.frames) = Len(k.frames) + 1
      /\ \A i \in 1 .. Len(k.frames) : j.frames[i] = k.frames[i] /\ k.frames[i] \in Nat
      /\ j.frames[Len(k.frames) + 1] = start
  BY <1>6, SMTT(30)
<1>8. \A i \in 1 .. Len(k.frames) : m + k.frames[i] < z
  BY <1>2, Zenon DEF Draft
<1>9. \A i \in 1 .. Len(k.frames) : k.frames[i] < start
  BY <1>5, <1>7, <1>8, SMTT(30)
<1>10. \A i \in 1 .. Len(j.frames) : i \in 1 .. Len(k.frames) \/ i = Len(k.frames) + 1
  BY <1>7, SMTT(30)
<1>11. \A i \in 1 .. Len(j.frames) : m + j.frames[i] < Len(w.bytes)
  BY <1>4, <1>5, <1>7, <1>8, <1>10, SMTT(30)
<1>12. \A h, i \in 1 .. Len(j.frames) : j.frames[h] = j.frames[i] => h = i
  <2>1. \A h, i \in 1 .. Len(k.frames) : k.frames[h] = k.frames[i] => h = i
    BY Zenon DEF Draft
  <2>2. \A i \in 1 .. Len(k.frames) : k.frames[i] # start
    BY <1>7, <1>9, SMTT(30)
  <2> QED
    BY <1>7, <1>10, <2>1, <2>2, Zenon
<1>13. ASSUME NEW l \in k.lengths, NEW i \in 1 .. Len(j.frames)
       PROVE  j.frames[i] # l.start
  <2>1. l.start \in Nat
    BY Zenon DEF CallType, LengthType
  <2>2. m + l.start < z /\ \A h \in 1 .. Len(k.frames) : k.frames[h] # l.start
    BY <1>2, Zenon DEF Draft
  <2>3. l.start # start
    BY <1>5, <2>1, <2>2
  <2> QED
    BY <1>7, <1>10, <2>2, <2>3, Zenon
<1>14. \A i \in 1 .. Len(j.frames) : b.base + j.frames[i] < Len(w.bytes)
  BY <1>2, <1>11, Zenon
<1>15. \A l \in k.lengths : \A i \in 1 .. Len(j.frames) : j.frames[i] # l.start
  BY <1>13, Zenon
<1>16. w.overflowed => j.typed \/ j.frames # <<>>
  BY <1>4, Zenon
<1>17. Follows(b, k, w, j, 1)
  BY <1>12, <1>14, <1>15, <1>16, Zenon DEF Follows
<1>18. 1 \in Nat
  BY Zenon
<1> QED
  BY <1>17, <1>18, PutDraft, Zenon

\* Two prefixes that start apart are apart.
LEMMA PrefixesApart ==
    ASSUME NEW m \in Nat, NEW z \in Nat, NEW s \in Nat, NEW q \in Nat, m + q < z, s # q
    PROVE  m + q + 1 \in 1 .. z /\ m + q + 1 # m + s + 1
  OBVIOUS

\* A prefix that starts within a buffer lies within it.
LEMMA PrefixWithin ==
    ASSUME NEW m \in Nat, NEW z \in Nat, NEW s \in Nat, m + s < z
    PROVE  m + s + 1 <= z
  OBVIOUS

\* What is left of the open frames when the innermost one is taken away.
LEMMA FramesLeft ==
    ASSUME NEW q \in Seq(Nat), q # <<>>, NEW t, t = SubSeq(q, 1, Len(q) - 1)
    PROVE  /\ Len(q) \in 1 .. Len(q) /\ q[Len(q)] \in Nat /\ Len(t) = Len(q) - 1
           /\ \A i \in 1 .. Len(t) : i \in 1 .. Len(q) /\ i # Len(q) /\ t[i] = q[i]
<1>1. PICK n \in Nat : n = Len(q) /\ n >= 1 /\ n - 1 \in Nat
  OBVIOUS
<1>2. n \in 1 .. n /\ n - 1 \in 0 .. n
  BY <1>1
<1>3. q[n] \in Nat
  BY <1>1, <1>2
<1>4. Len(t) = n - 1 /\ \A i \in 1 .. n - 1 : t[i] = q[i]
  BY <1>1, <1>2
<1> QED
  BY <1>1, <1>2, <1>3, <1>4, SMTT(30)

\* The call j is k, with the buffer w for b, after its innermost frame was
\* finished with this length.
Closes(b, k, w, j, start, length) ==
    /\ k.frames # <<>> /\ ~b.overflowed
    /\ start = k.frames[Len(k.frames)] /\ length = BufferLen(b) - (start + 1)
    /\ w = PatchLengthPrefix(b, start, length)
    /\ j.lent = k.lent /\ j.outboundBase = k.outboundBase /\ j.asked = k.asked
    /\ j.frames = SubSeq(k.frames, 1, Len(k.frames) - 1)
    /\ j.lengths = k.lengths \cup {[start |-> start, length |-> length]}

\* LengthFrame::finish: the innermost frame has its length.
LEMMA FinishDraft ==
    ASSUME NEW k \in CallType, NEW j \in CallType, NEW b, NEW c \in Connections,
           NEW f \in 0 .. MaxFlights, Draft(b, k, c, f), NEW w, NEW start, NEW length,
           Closes(b, k, w, j, start, length)
    PROVE  Redrafted(b, w, j, c, f) /\ w.limit = b.limit /\ Len(w.bytes) = Len(b.bytes)
<1> SUFFICES ASSUME k.frames # <<>>, ~b.overflowed,
                    start = k.frames[Len(k.frames)], length = BufferLen(b) - (start + 1),
                    w = PatchLengthPrefix(b, start, length),
                    j.lent = k.lent, j.outboundBase = k.outboundBase, j.asked = k.asked,
                    j.frames = SubSeq(k.frames, 1, Len(k.frames) - 1),
                    j.lengths = k.lengths \cup {[start |-> start, length |-> length]}
             PROVE  Redrafted(b, w, j, c, f) /\ w.limit = b.limit /\ Len(w.bytes) = Len(b.bytes)
  BY Zenon DEF Closes
<1>1. b \in BufferType
  BY Zenon DEF Draft
<1>2. PICK m \in Nat, z \in Nat, a \in 0 .. MaxAsked : m = b.base /\ z = Len(b.bytes) /\ a = k.asked
  BY <1>1, BufferFacts, Zenon DEF CallType
<1>3. /\ m <= z /\ z = m + a
      /\ \A p \in m + 1 .. z : b.bytes[p].conn = c /\ b.bytes[p].flight = f
  BY <1>2, Zenon DEF Draft
<1>4. /\ k.frames \in Seq(Nat) /\ Len(k.frames) \in 1 .. Len(k.frames) /\ Len(k.frames) \in Nat
  BY SMTT(30) DEF CallType
<1>5. start \in Nat /\ m + start < z
  <2>1. start \in Nat
    BY <1>4, SMTT(30)
  <2>2. b.base + k.frames[Len(k.frames)] < Len(b.bytes)
    BY <1>4, Zenon DEF Draft
  <2> QED
    BY <1>2, <2>1, <2>2, Zenon
<1>6. length \in 0 .. MaxAsked /\ length \in Nat
  <2>1. MaxAsked \in Nat /\ a \in Nat /\ a <= MaxAsked
    BY WorkspaceAssumption
  <2>2. length = (z - m) - (start + 1)
    BY <1>2, Zenon DEF BufferLen
  <2>3. z - m = a
    BY <1>3, <2>1, SMTT(30)
  <2>4. start < a
    BY <1>3, <1>5, <2>1, SMTT(30)
  <2> QED
    BY <1>5, <2>1, <2>2, <2>3, <2>4, SMTT(30)
<1>7. /\ w \in BufferType /\ w.base = m /\ w.limit = b.limit
      /\ w.overflowed = b.overflowed /\ Len(w.bytes) = z
      /\ w.bytes[m + start + 1].length = length
      /\ \A p \in 1 .. z :
           /\ w.bytes[p].conn = b.bytes[p].conn /\ w.bytes[p].flight = b.bytes[p].flight
           /\ p # m + start + 1 => w.bytes[p] = b.bytes[p]
  <2>1. b.base + start + 1 <= Len(b.bytes)
    BY <1>2, <1>5, PrefixWithin, Zenon
  <2>2. Patched(b, w, start, length)
    BY <1>1, <1>5, <1>6, <2>1, PatchFacts, Zenon
  <2> QED
    BY <1>2, <2>2, Zenon DEF Patched
<1>8. /\ Len(j.frames) = Len(k.frames) - 1
      /\ \A i \in 1 .. Len(j.frames) : /\ i \in 1 .. Len(k.frames) /\ i # Len(k.frames)
                                       /\ j.frames[i] = k.frames[i]
  BY <1>4, FramesLeft, Zenon
<1>9. \A i \in 1 .. Len(j.frames) : m + j.frames[i] < z
  BY <1>2, <1>8, Zenon DEF Draft
<1>10. \A h, i \in 1 .. Len(j.frames) : j.frames[h] = j.frames[i] => h = i
  BY <1>8, ZenonT(40) DEF Draft
<1>11. \A i \in 1 .. Len(j.frames) : j.frames[i] # start
  BY <1>4, <1>8, ZenonT(40) DEF Draft
<1>12. ASSUME NEW l \in j.lengths
       PROVE  /\ m + l.start < z /\ w.bytes[m + l.start + 1].length = l.length
              /\ \A i \in 1 .. Len(j.frames) : j.frames[i] # l.start
  <2>1. CASE l \in k.lengths
    <3>1. l.start \in Nat
      BY <2>1, Zenon DEF CallType, LengthType
    <3>2. /\ m + l.start < z /\ b.bytes[m + l.start + 1].length = l.length
          /\ \A i \in 1 .. Len(k.frames) : k.frames[i] # l.start
      BY <1>2, <2>1, Zenon DEF Draft
    <3>3. start # l.start
      BY <1>4, <3>2, Zenon
    <3>4. PICK q \in Nat : q = l.start
      BY <3>1, Zenon
    <3>5. m + q + 1 \in 1 .. z /\ m + q + 1 # m + start + 1
      BY <1>5, <3>2, <3>3, <3>4, PrefixesApart, ZenonT(40)
    <3>6. w.bytes[m + q + 1] = b.bytes[m + q + 1]
      BY <1>7, <3>5, Zenon
    <3> QED
      BY <1>8, <3>2, <3>4, <3>6, Zenon
  <2>2. CASE l = [start |-> start, length |-> length]
    BY <1>5, <1>7, <1>11, <2>2, Zenon
  <2> QED
    BY <2>1, <2>2, Zenon
<1>13. \A p \in 1 .. m : w.bytes[p] = b.bytes[p]
  <2>1. \A p \in 1 .. m : p \in 1 .. z /\ p # m + start + 1
    BY <1>3, <1>5, SMTT(30)
  <2> QED
    BY <1>7, <2>1, ZenonT(40)
<1>14. \A p \in m + 1 .. z : w.bytes[p].conn = c /\ w.bytes[p].flight = f
  <2>1. \A p \in m + 1 .. z : p \in 1 .. z
    OBVIOUS
  <2>2. \A p \in 1 .. z : w.bytes[p].conn = b.bytes[p].conn /\ w.bytes[p].flight = b.bytes[p].flight
    BY <1>7, Zenon
  <2> QED
    BY <1>3, <2>1, <2>2, ZenonT(40)
<1>15. w.base = IF j.lent THEN j.outboundBase ELSE 0
  BY <1>2, <1>7, ZenonT(40) DEF Draft
<1>16. /\ w.base = m /\ Len(w.bytes) = z /\ j.asked = a /\ ~w.overflowed
  BY <1>2, <1>7, Zenon
<1>17. /\ w \in BufferType /\ m <= z /\ z <= m + a /\ z = m + a
  <2>1. m <= z /\ z = m + a
    BY <1>3, Zenon
  <2>2. z <= m + a
    BY <2>1
  <2> QED
    BY <1>7, <2>1, <2>2, Zenon
<1>18. Draft(w, j, c, f)
  BY <1>9, <1>10, <1>12, <1>14, <1>15, <1>16, <1>17, ZenonT(40) DEF Draft
<1> QED
  BY <1>2, <1>7, <1>13, <1>18, Zenon DEF Redrafted

-----------------------------------------------------------------------------
(* The end of a call. *)

\* A step that ends the call with its slot and its store as they should be.
LEMMA EndStep ==
    ASSUME IInv, Encoding, NEW s, s = call.slot, NEW c, c = slot[s].owner, call' = NoCall,
           kind' = kind, params' = params, first' = first, made' = made, begun' = begun,
           ticket' = ticket,
           Only(slot, slot', s), Only(reassembly, reassembly', s), Only(flight, flight', s),
           Only(identity, identity', s), Only(outbox, outbox', c), Only(sent, sent', c),
           SlotOk(kind, made, slot'[s], params[s], reassembly'[s], flight'[s], identity'[s]),
           outbox'[c] \in Seq(ByteType), sent'[c] \in Seq(FlightType),
           Whole(sent'[c], outbox'[c], c), Len(outbox'[c]) = EndOf(sent'[c])
    PROVE  IInv'
<1>1. s \in Slots /\ c \in Connections /\ made \in Nat
  BY EncodingFacts, Zenon
<1>2. ~Encoding'
  BY Zenon DEF Encoding
<1>3. \A r \in Slots : Own(r)' = flight'[r]
  BY <1>2, Zenon DEF Own
<1>4. \A r \in Slots \ {s} : Own(r) = flight[r]
  BY Zenon DEF Own
<1>5. /\ slot'[s] \in SlotType /\ reassembly'[s] \in BufferType
      /\ flight'[s] \in BufferType /\ identity'[s] \in BufferType
  BY Zenon DEF SlotOk, Home
<1>6. /\ kind \in Kinds /\ made \in 0 .. MaxConnections /\ begun \in 0 .. MaxFlights
      /\ slot \in [Slots -> SlotType] /\ params \in [Slots -> Seq(ByteType)]
      /\ reassembly \in [Slots -> BufferType] /\ flight \in [Slots -> BufferType]
      /\ identity \in [Slots -> BufferType]
      /\ \A r \in Slots :
           SlotOk(kind, made, slot[r], params[r], reassembly[r], Own(r), identity[r])
  BY Zenon DEF IInv, PoolInv
<1>7. /\ slot' \in [Slots -> SlotType]
      /\ reassembly' \in [Slots -> BufferType] /\ flight' \in [Slots -> BufferType]
      /\ identity' \in [Slots -> BufferType]
  BY <1>5, <1>6, Zenon DEF Only
<1>8. ASSUME NEW r \in Slots
      PROVE  SlotOk(kind, made, slot'[r], params[r], reassembly'[r], flight'[r], identity'[r])
  <2>1. CASE r = s
    BY <2>1, Zenon
  <2>2. CASE r # s
    <3>1. /\ slot'[r] = slot[r] /\ reassembly'[r] = reassembly[r]
          /\ flight'[r] = flight[r] /\ identity'[r] = identity[r]
      BY <1>6, <2>2, Zenon DEF Only
    <3> QED
      BY <1>4, <1>6, <2>2, <3>1, Zenon
  <2> QED
    BY <2>1, <2>2, Zenon
<1>9. PoolInv'
  BY <1>3, <1>6, <1>7, <1>8, Zenon DEF PoolInv
<1>10. CallInv'
  BY <1>2, Zenon DEF CallInv
<1>11. outbox \in [Connections -> Seq(ByteType)] /\ sent \in [Connections -> Seq(FlightType)]
  BY Zenon DEF IInv, StoresInv
<1>12. /\ outbox' \in [Connections -> Seq(ByteType)] /\ sent' \in [Connections -> Seq(FlightType)]
       /\ \A d \in Connections \ {c} : outbox'[d] = outbox[d] /\ sent'[d] = sent[d]
  BY <1>11, Zenon DEF Only
<1>13. ASSUME NEW d \in Connections
       PROVE  Whole(sent'[d], outbox'[d], d) /\ Len(outbox'[d]) = EndOf(sent'[d])
  <2>1. CASE d = c
    BY <2>1, Zenon
  <2>2. CASE d # c
    <3>1. Whole(sent[d], Store(d), d) /\ EndInv(d)
      BY Zenon DEF IInv, StoresInv
    <3>2. Whole(sent[d], outbox[d], d) /\ Len(outbox[d]) = EndOf(sent[d])
      BY <2>2, <3>1, Zenon DEF Store, EndInv
    <3> QED
      BY <1>12, <2>2, <3>2, Zenon
  <2> QED
    BY <2>1, <2>2, Zenon
<1>14. StoresInv'
  <2>1. \A d \in Connections : Store(d)' = outbox'[d] /\ EndInv(d)' = (Len(outbox'[d]) = EndOf(sent'[d]))
    BY <1>2, Zenon DEF Store, EndInv
  <2> QED
    BY <1>12, <1>13, <2>1, ZenonT(40) DEF StoresInv
<1>15. TicketsInv'
  <2>1. TicketsInv
    BY Zenon DEF IInv
  <2> QED
    BY <1>1, <2>1, TicketsKept
<1> QED
  BY <1>9, <1>10, <1>14, <1>15, Zenon DEF IInv

\* The buffer b is what is left of a, at least what stood before its base.
RolledBack(a, b) ==
    /\ b \in BufferType /\ b.base = a.base /\ b.limit = a.limit
    /\ b.base <= Len(b.bytes) /\ Len(b.bytes) <= Len(a.bytes)
    /\ \A p \in 1 .. Len(b.bytes) : b.bytes[p] = a.bytes[p]

\* The open frames roll back to the start of the outermost.
LEMMA RollbackFacts ==
    ASSUME NEW k \in CallType, NEW a, NEW c, NEW f, Draft(a, k, c, f),
           NEW b, b = IF k.frames = <<>> THEN a ELSE RollbackTo(a, k.frames[1])
    PROVE  RolledBack(a, b)
<1>1. a \in BufferType /\ a.base <= Len(a.bytes)
  BY Zenon DEF Draft
<1>2. a.base \in Nat /\ Len(a.bytes) \in Nat /\ a.bytes \in Seq(ByteType)
  BY <1>1, BufferFacts, Zenon
<1>3. CASE k.frames = <<>>
  BY <1>1, <1>2, <1>3 DEF RolledBack
<1>4. CASE k.frames # <<>>
  <2>1. k.frames \in Seq(Nat)
    BY Zenon DEF CallType
  <2>2. 1 \in 1 .. Len(k.frames) /\ k.frames[1] \in Nat
    BY <1>4, <2>1, SMTT(30)
  <2>3. PICK n \in Nat : n = a.base + k.frames[1] /\ a.base <= n /\ n <= Len(a.bytes)
    BY <1>2, <2>2, SMTT(30) DEF Draft
  <2>4. PICK t : t = SubSeq(a.bytes, 1, n)
    BY Zenon
  <2>5. t \in Seq(ByteType) /\ Len(t) = n /\ \A p \in 1 .. n : t[p] = a.bytes[p]
    BY <1>2, <2>3, <2>4
  <2>6. b = [a EXCEPT !.bytes = t]
    BY <1>4, <2>3, <2>4, Zenon DEF RollbackTo, Truncate
  <2>7. b \in BufferType /\ b.base = a.base /\ b.limit = a.limit /\ b.bytes = t
    BY <1>1, <2>5, <2>6, Zenon DEF BufferType
  <2> QED
    BY <2>3, <2>5, <2>7, Zenon DEF RolledBack
<1> QED
  BY <1>3, <1>4, Zenon

\* An error while encoding leaves the flights of the store, and nothing else.
LEMMA AbandonInv ==
    ASSUME IInv, Encoding, Abandon
    PROVE  IInv'
<1>1. PICK s : s = call.slot
  BY Zenon
<1>2. PICK c : c = slot[s].owner
  BY Zenon
<1>3. PICK b : b = IF call.frames = <<>> THEN flight[s] ELSE RollbackTo(flight[s], call.frames[1])
  BY Zenon
<1>4. /\ outbox' = IF call.lent THEN [outbox EXCEPT ![c] = StoreAfter(b, FALSE)] ELSE outbox
      /\ Poison(s, OwnAfter(s, b)) /\ call' = NoCall
      /\ kind' = kind /\ params' = params /\ first' = first /\ made' = made /\ begun' = begun
      /\ ticket' = ticket /\ sent' = sent
  BY <1>1, <1>2, <1>3, Zenon DEF Abandon
<1>5. /\ s \in Slots /\ c \in Connections
      /\ slot[s].phase = "Leased" /\ Tenant(slot[s]) = c
      /\ call \in CallType /\ Draft(flight[s], call, c, begun)
      /\ kind \in Kinds
      /\ SlotOk(kind, made, slot[s], params[s], reassembly[s], Own(s), identity[s])
      /\ Home(Own(s), Layout(kind).flight, c)
      /\ outbox \in [Connections -> Seq(ByteType)] /\ sent \in [Connections -> Seq(FlightType)]
      /\ call.outboundBase = EndOf(sent[c])
      /\ Whole(sent[c], IF call.lent THEN flight[s].bytes ELSE outbox[c], c)
      /\ ~call.lent => Len(outbox[c]) = call.outboundBase
      /\ ~call.lent => Own(s) = flight[s]
  BY <1>1, <1>2, EncodingFacts, Zenon
<1>6. /\ b \in BufferType /\ b.base = flight[s].base /\ b.limit = flight[s].limit
      /\ b.base <= Len(b.bytes) /\ Len(b.bytes) <= Len(flight[s].bytes)
      /\ \A p \in 1 .. Len(b.bytes) : b.bytes[p] = flight[s].bytes[p]
  <2>1. RolledBack(flight[s], b)
    BY <1>3, <1>5, RollbackFacts, Zenon
  <2> QED
    BY <2>1, Zenon DEF RolledBack
<1>7. PICK own : own = OwnAfter(s, b)
  BY Zenon
<1>8. Home(own, Layout(kind).flight, Tenant(slot[s]))
  <2>1. CASE call.lent
    <3>1. own = Own(s)
      BY <1>1, <1>7, <2>1, Zenon DEF Own, OwnAfter
    <3> QED
      BY <1>5, <3>1, Zenon
  <2>2. CASE ~call.lent
    <3>1. own = b /\ Home(flight[s], Layout(kind).flight, c)
      BY <1>5, <1>7, <2>2, Zenon DEF OwnAfter
    <3>2. /\ flight[s] \in BufferType /\ flight[s].base = 0
          /\ flight[s].limit = Layout(kind).flight
          /\ Len(flight[s].bytes) <= Layout(kind).flight
          /\ \A p \in 1 .. Len(flight[s].bytes) : flight[s].bytes[p].conn = c
      BY <3>1, Zenon DEF Home
    <3>3. /\ Len(b.bytes) \in Nat /\ Len(flight[s].bytes) \in Nat /\ Layout(kind).flight \in Nat
      BY <1>5, <1>6, <3>2, BufferFacts, LayoutFacts, Zenon
    <3>4. /\ Len(b.bytes) <= Layout(kind).flight
          /\ \A p \in 1 .. Len(b.bytes) : p \in 1 .. Len(flight[s].bytes)
      BY <1>6, <3>2, <3>3
    <3> QED
      BY <1>5, <1>6, <3>1, <3>2, <3>4, Zenon DEF Home
  <2> QED
    BY <2>1, <2>2, Zenon
<1>9. PICK y : y = [slot[s] EXCEPT !.failed = TRUE, !.retained = 0]
  BY Zenon
<1>10. /\ slot \in [Slots -> SlotType] /\ reassembly \in [Slots -> BufferType]
       /\ flight \in [Slots -> BufferType] /\ identity \in [Slots -> BufferType]
  BY Zenon DEF IInv, PoolInv
<1>11. /\ slot'[s] = y /\ Only(slot, slot', s)
       /\ reassembly'[s] = Clear(reassembly[s]) /\ Only(reassembly, reassembly', s)
       /\ flight'[s] = Clear(own) /\ Only(flight, flight', s)
       /\ identity'[s] = Clear(identity[s]) /\ Only(identity, identity', s)
  BY <1>4, <1>5, <1>7, <1>9, <1>10, Zenon DEF Only, Poison
<1>12. SlotOk(kind, made, slot'[s], params[s], reassembly'[s], flight'[s], identity'[s])
  <2>1. SlotOk(kind, made, y, params[s], Clear(reassembly[s]), Clear(own), Clear(identity[s]))
    BY <1>5, <1>8, <1>9, PoisonOk, Zenon
  <2> QED
    BY <1>11, <2>1, Zenon
<1>13. Only(sent, sent', c) /\ sent'[c] = sent[c] /\ sent'[c] \in Seq(FlightType)
  BY <1>4, <1>5, Zenon DEF Only
<1>14. /\ Only(outbox, outbox', c) /\ outbox'[c] \in Seq(ByteType)
       /\ Len(outbox'[c]) = EndOf(sent[c]) /\ Whole(sent[c], outbox'[c], c)
  <2>1. CASE call.lent
    <3>1. PICK m \in Nat : m = b.base /\ m = EndOf(sent[c]) /\ m = call.outboundBase
      BY <1>5, <1>6, <2>1, BufferFacts, Zenon DEF Draft
    <3>2. PICK t : t = SubSeq(b.bytes, 1, m)
      BY Zenon
    <3>3. b.bytes \in Seq(ByteType) /\ m <= Len(b.bytes) /\ Len(b.bytes) \in Nat
      BY <1>6, <3>1, BufferFacts, Zenon
    <3>4. /\ t \in Seq(ByteType) /\ Len(t) = m
          /\ \A p \in 1 .. m : p \in 1 .. Len(b.bytes) /\ t[p] = b.bytes[p]
      BY <3>2, <3>3
    <3>5. StoreAfter(b, FALSE) = t
      BY <1>6, <3>1, <3>2, Zenon DEF StoreAfter, Truncate, BufferType
    <3>6. outbox' = [outbox EXCEPT ![c] = t]
      BY <1>4, <2>1, <3>5, Zenon
    <3>7. outbox'[c] = t /\ Only(outbox, outbox', c)
      BY <1>5, <3>6, Zenon DEF Only
    <3>8. \A p \in 1 .. EndOf(sent[c]) : t[p] = flight[s].bytes[p]
      BY <1>6, <3>1, <3>4, ZenonT(40)
    <3>9. sent[c] \in Seq(FlightType) /\ Whole(sent[c], flight[s].bytes, c) /\ EndOf(sent[c]) <= Len(t)
      BY <1>5, <2>1, <3>1, <3>4
    <3>10. Whole(sent[c], t, c)
      BY <3>8, <3>9, WholeAgrees, Zenon
    <3> QED
      BY <3>1, <3>4, <3>7, <3>10, Zenon
  <2>2. CASE ~call.lent
    BY <1>4, <1>5, <2>2, Zenon DEF Only
  <2> QED
    BY <2>1, <2>2, Zenon
<1> QED
  BY <1>1, <1>2, <1>4, <1>11, <1>12, <1>13, <1>14, EndStep, Zenon

-----------------------------------------------------------------------------
(* The actions of the encoder. *)

\* In its own buffer a workspace writes at home.
LEMMA OwnPutHome ==
    ASSUME IInv, Encoding, NEW s, s = call.slot, NEW c, c = slot[s].owner, ~call.lent,
           NEW n \in Nat, NEW w, w = Put(flight[s], Bytes(c, begun, n))
    PROVE  Home(w, Layout(kind).flight, c)
<1>1. /\ c \in Connections /\ begun \in 0 .. MaxFlights /\ kind \in Kinds
      /\ Home(flight[s], Layout(kind).flight, c)
  BY EncodingFacts, Zenon
<1> QED
  BY <1>1, LayoutFacts, PutHome, Zenon

\* The call after a step, in the fields the step leaves alone.
Continues(j, k) ==
    /\ k \in CallType /\ DOMAIN k = DOMAIN j
    /\ k.slot = j.slot /\ k.lent = j.lent /\ k.saved = j.saved
    /\ k.outboundBase = j.outboundBase

\* The call k has these frames, this type and these bytes and lengths.
Carries(k, frames, typed, asked, lengths) ==
    k.frames = frames /\ k.typed = typed /\ k.asked = asked /\ k.lengths = lengths

\* What a step of the encoder may change of its call.
LEMMA CallContinues ==
    ASSUME NEW j \in CallType, NEW fs \in Seq(Nat), NEW t \in BOOLEAN, NEW a \in 0 .. MaxAsked,
           NEW ls \in SUBSET LengthType, NEW k,
           k = [j EXCEPT !.frames = fs, !.typed = t, !.asked = a, !.lengths = ls]
    PROVE  Continues(j, k) /\ Carries(k, fs, t, a, ls)
<1>1. k \in CallType /\ DOMAIN k = DOMAIN j
  BY Zenon DEF CallType
<1>2. k.slot = j.slot /\ k.lent = j.lent /\ k.saved = j.saved /\ k.outboundBase = j.outboundBase
  BY Zenon DEF CallType
<1>3. k.frames = fs /\ k.typed = t /\ k.asked = a /\ k.lengths = ls
  BY Zenon DEF CallType
<1> QED
  BY <1>1, <1>2, <1>3, Zenon DEF Continues, Carries

\* A call has its fields.
LEMMA CallFacts ==
    ASSUME NEW j \in CallType
    PROVE  /\ j.frames \in Seq(Nat) /\ j.typed \in BOOLEAN /\ j.asked \in 0 .. MaxAsked
           /\ j.asked \in Nat /\ j.lengths \in SUBSET LengthType
<1>1. /\ j.frames \in Seq(Nat) /\ j.typed \in BOOLEAN /\ j.asked \in 0 .. MaxAsked
      /\ j.lengths \in SUBSET LengthType
  BY Zenon DEF CallType
<1>2. j.asked \in Nat
  BY <1>1, WorkspaceAssumption
<1> QED
  BY <1>1, <1>2, Zenon

\* What may be asked for stays within the bound.
LEMMA AskedFacts ==
    ASSUME NEW j \in CallType, NEW n \in Nat, j.asked + n <= MaxAsked
    PROVE  j.asked + n \in 0 .. MaxAsked
<1>1. PICK a \in Nat : a = j.asked
  BY CallFacts, Zenon
<1>2. MaxAsked \in Nat
  BY WorkspaceAssumption, Zenon
<1> QED
  BY <1>1, <1>2

\* EncodedStep, for a call that continues with a draft.
LEMMA EncodedInv ==
    ASSUME IInv, Encoding, NEW s, s = call.slot, NEW c, c = slot[s].owner,
           NEW k, Continues(call, k), NEW b, Encoded(b, k), Redrafted(flight[s], b, k, c, begun),
           ~call.lent => Home(b, Layout(kind).flight, c)
    PROVE  IInv'
<1>1. /\ k \in CallType /\ k.slot = s /\ k.lent = call.lent /\ k.saved = call.saved
      /\ k.outboundBase = call.outboundBase /\ DOMAIN k = DOMAIN call
  BY Zenon DEF Continues
<1>2. Draft(b, k, c, begun) /\ \A p \in 1 .. flight[s].base : b.bytes[p] = flight[s].bytes[p]
  BY Zenon DEF Redrafted
<1> QED
  BY <1>1, <1>2, EncodedStep, ZenonT(40)

\* A message type.
LEMMA PutTypeInv ==
    ASSUME IInv, PutType
    PROVE  IInv'
<1>1. PICK s : s = call.slot
  BY Zenon
<1>2. PICK c : c = slot[s].owner
  BY Zenon
<1>3. PICK w, k : /\ w = Put(flight[s], Bytes(c, begun, 1))
                  /\ k = [call EXCEPT !.typed = TRUE, !.asked = @ + 1]
  BY Zenon
<1>4. Encoding /\ call.asked + 1 <= MaxAsked /\ Encoded(w, k)
  BY <1>1, <1>2, <1>3, Zenon DEF PutType, MayAsk, Owned, Buffer
<1>5. /\ c \in Connections /\ call \in CallType /\ Draft(flight[s], call, c, begun)
      /\ begun \in 0 .. MaxFlights
  BY <1>1, <1>2, <1>4, EncodingFacts, Zenon
<1>6. Continues(call, k) /\ Carries(k, call.frames, TRUE, call.asked + 1, call.lengths)
  <2>1. PICK j \in CallType : j = call
    BY <1>5, Zenon
  <2>2. k = [j EXCEPT !.frames = j.frames, !.typed = TRUE, !.asked = j.asked + 1,
                      !.lengths = j.lengths]
    BY <1>3, <2>1, Zenon DEF CallType
  <2>3. j.asked + 1 \in 0 .. MaxAsked /\ TRUE \in BOOLEAN
    BY <1>4, <2>1, AskedFacts, Zenon
  <2>4. j.frames \in Seq(Nat) /\ j.lengths \in SUBSET LengthType
    BY CallFacts, Zenon
  <2>5. Continues(j, k) /\ Carries(k, j.frames, TRUE, j.asked + 1, j.lengths)
    BY <2>2, <2>3, <2>4, CallContinues, Zenon
  <2> QED
    BY <2>1, <2>5, Zenon
<1>7. Redrafted(flight[s], w, k, c, begun)
  <2>1. /\ k \in CallType /\ k.lent = call.lent /\ k.outboundBase = call.outboundBase
        /\ k.asked = call.asked + 1 /\ k.lengths = call.lengths /\ k.frames = call.frames
        /\ k.typed
    BY <1>6, Zenon DEF Continues, Carries
  <2>2. 1 \in Nat
    BY Zenon
  <2> QED
    BY <1>3, <1>5, <2>1, <2>2, PutSameFrames, Zenon
<1>8. ~call.lent => Home(w, Layout(kind).flight, c)
  BY <1>1, <1>2, <1>3, <1>4, OwnPutHome, Zenon
<1> QED
  BY <1>1, <1>2, <1>4, <1>6, <1>7, <1>8, EncodedInv, Zenon

\* LengthFrame::begin.
LEMMA BeginFrameInv ==
    ASSUME IInv, BeginFrame
    PROVE  IInv'
<1>1. PICK s : s = call.slot
  BY Zenon
<1>2. PICK c : c = slot[s].owner
  BY Zenon
<1>3. PICK w, k, start :
         /\ w = Put(flight[s], Bytes(c, begun, 1))
         /\ start = BufferLen(flight[s])
         /\ k = [call EXCEPT !.typed = FALSE, !.asked = @ + 1, !.frames = Append(@, start)]
  BY Zenon
<1>4. Encoding /\ call.asked + 1 <= MaxAsked
  BY Zenon DEF BeginFrame, MayAsk
<1>5. CASE flight[s].overflowed \/ ~Fits(flight[s], 1)
  <2>1. Abandon
    BY <1>1, <1>5, Zenon DEF BeginFrame, Buffer
  <2> QED
    BY <1>4, <2>1, AbandonInv, Zenon
<1>6. CASE ~(flight[s].overflowed \/ ~Fits(flight[s], 1))
  <2>1. Encoded(w, k)
    BY <1>1, <1>2, <1>3, <1>6, Zenon DEF BeginFrame, Buffer, Owned
  <2>2. /\ c \in Connections /\ call \in CallType /\ Draft(flight[s], call, c, begun)
        /\ begun \in 0 .. MaxFlights
    BY <1>1, <1>2, <1>4, EncodingFacts, Zenon
  <2>3. start \in Nat
    <3>1. flight[s] \in BufferType /\ flight[s].base <= Len(flight[s].bytes)
      BY <2>2, Zenon DEF Draft
    <3> QED
      BY <1>3, <3>1, BufferFacts DEF BufferLen
  <2>4. PICK fs : fs = Append(call.frames, start)
    BY Zenon
  <2>5. fs \in Seq(Nat)
    BY <2>2, <2>3, <2>4 DEF CallType
  <2>6. k = [call EXCEPT !.typed = FALSE, !.asked = @ + 1, !.frames = fs]
    BY <1>3, <2>4, Zenon
  <2>7. Continues(call, k) /\ Carries(k, fs, FALSE, call.asked + 1, call.lengths)
    <3>1. PICK j \in CallType : j = call
      BY <2>2, Zenon
    <3>2. k = [j EXCEPT !.frames = fs, !.typed = FALSE, !.asked = j.asked + 1,
                        !.lengths = j.lengths]
      BY <2>6, <3>1, Zenon DEF CallType
    <3>3. j.asked + 1 \in 0 .. MaxAsked /\ FALSE \in BOOLEAN
      BY <1>4, <3>1, AskedFacts, Zenon
    <3>4. j.lengths \in SUBSET LengthType
      BY CallFacts, Zenon
    <3>5. Continues(j, k) /\ Carries(k, fs, FALSE, j.asked + 1, j.lengths)
      BY <2>5, <3>2, <3>3, <3>4, CallContinues, Zenon
    <3> QED
      BY <3>1, <3>5, Zenon
  <2>8. Redrafted(flight[s], w, k, c, begun)
    <3>1. /\ k \in CallType /\ k.lent = call.lent /\ k.outboundBase = call.outboundBase
          /\ k.asked = call.asked + 1 /\ k.lengths = call.lengths
          /\ k.frames = Append(call.frames, BufferLen(flight[s]))
      BY <1>3, <2>4, <2>7, Zenon DEF Continues, Carries
    <3> QED
      BY <1>3, <1>6, <2>2, <3>1, PutNewFrame, Zenon
  <2>9. ~call.lent => Home(w, Layout(kind).flight, c)
    BY <1>1, <1>2, <1>3, <1>4, OwnPutHome, Zenon
  <2> QED
    BY <1>1, <1>2, <1>4, <2>1, <2>7, <2>8, <2>9, EncodedInv, ZenonT(40)
<1> QED
  BY <1>5, <1>6, Zenon

\* Some bytes of a body.
LEMMA PutBodyInv ==
    ASSUME IInv, NEW n \in Chunks, PutBody(n)
    PROVE  IInv'
<1>1. PICK s : s = call.slot
  BY Zenon
<1>2. PICK c : c = slot[s].owner
  BY Zenon
<1>3. PICK w, k : /\ w = Put(flight[s], Bytes(c, begun, n))
                  /\ k = [call EXCEPT !.asked = @ + n]
  BY Zenon
<1>4. Encoding /\ call.asked + n <= MaxAsked /\ Encoded(w, k) /\ call.frames # <<>> /\ n \in Nat
  BY <1>1, <1>2, <1>3 DEF PutBody, MayAsk, Owned, Buffer, Chunks
<1>5. /\ c \in Connections /\ call \in CallType /\ Draft(flight[s], call, c, begun)
      /\ begun \in 0 .. MaxFlights
  BY <1>1, <1>2, <1>4, EncodingFacts, Zenon
<1>6. Continues(call, k) /\ Carries(k, call.frames, call.typed, call.asked + n, call.lengths)
  <2>1. PICK j \in CallType : j = call
    BY <1>5, Zenon
  <2>2. k = [j EXCEPT !.frames = j.frames, !.typed = j.typed, !.asked = j.asked + n,
                      !.lengths = j.lengths]
    BY <1>3, <2>1, Zenon DEF CallType
  <2>3. j.asked + n \in 0 .. MaxAsked
    BY <1>4, <2>1, AskedFacts, Zenon
  <2>4. j.frames \in Seq(Nat) /\ j.lengths \in SUBSET LengthType /\ j.typed \in BOOLEAN
    BY CallFacts, Zenon
  <2>5. Continues(j, k) /\ Carries(k, j.frames, j.typed, j.asked + n, j.lengths)
    BY <2>2, <2>3, <2>4, CallContinues, Zenon
  <2> QED
    BY <2>1, <2>5, Zenon
<1>7. Redrafted(flight[s], w, k, c, begun)
  <2>1. /\ k \in CallType /\ k.lent = call.lent /\ k.outboundBase = call.outboundBase
        /\ k.asked = call.asked + n /\ k.lengths = call.lengths /\ k.frames = call.frames
        /\ k.frames # <<>>
    BY <1>4, <1>6, Zenon DEF Continues, Carries
  <2> QED
    BY <1>3, <1>4, <1>5, <2>1, PutSameFrames, Zenon
<1>8. ~call.lent => Home(w, Layout(kind).flight, c)
  BY <1>1, <1>2, <1>3, <1>4, OwnPutHome, Zenon
<1> QED
  BY <1>1, <1>2, <1>4, <1>6, <1>7, <1>8, EncodedInv, Zenon

\* LengthFrame::finish.
LEMMA FinishFrameInv ==
    ASSUME IInv, FinishFrame
    PROVE  IInv'
<1>1. PICK s : s = call.slot
  BY Zenon
<1>2. PICK c : c = slot[s].owner
  BY Zenon
<1>3. PICK start, length : /\ start = call.frames[Len(call.frames)]
                           /\ length = BufferLen(flight[s]) - (start + 1)
  BY Zenon
<1>4. PICK w, fs, ls : /\ w = PatchLengthPrefix(flight[s], start, length)
                       /\ fs = SubSeq(call.frames, 1, Len(call.frames) - 1)
                       /\ ls = call.lengths \cup {[start |-> start, length |-> length]}
  BY Zenon
<1>5. PICK k : k = [call EXCEPT !.frames = fs, !.lengths = ls]
  BY Zenon
<1>6. Encoding /\ call.frames # <<>>
  BY Zenon DEF FinishFrame
<1>7. CASE flight[s].overflowed
  <2>1. Abandon
    BY <1>1, <1>7, Zenon DEF FinishFrame, FrameFails, Buffer
  <2> QED
    BY <1>6, <2>1, AbandonInv, Zenon
<1>8. CASE ~flight[s].overflowed
  <2>1. Encoded(w, k)
    BY <1>1, <1>3, <1>4, <1>5, <1>8, Zenon DEF FinishFrame, FrameFails, Buffer
  <2>2. /\ c \in Connections /\ call \in CallType /\ Draft(flight[s], call, c, begun)
        /\ begun \in 0 .. MaxFlights /\ (~call.lent => Home(flight[s], Layout(kind).flight, c))
    BY <1>1, <1>2, <1>6, EncodingFacts, Zenon
  <2>3. call.frames \in Seq(Nat) /\ call.lengths \subseteq LengthType
    BY <2>2, Zenon DEF CallType
  <2>4. start \in Nat /\ flight[s].base + start < Len(flight[s].bytes)
    <3>1. Len(call.frames) \in 1 .. Len(call.frames) /\ call.frames[Len(call.frames)] \in Nat
      BY <1>6, <2>3, FramesLeft, ZenonT(40)
    <3> QED
      BY <1>3, <2>2, <3>1, Zenon DEF Draft
  <2>5. length \in Nat
    <3>1. flight[s].base \in Nat /\ Len(flight[s].bytes) \in Nat
      BY <2>2, BufferFacts, Zenon DEF Draft
    <3>2. PICK m \in Nat, z \in Nat : m = flight[s].base /\ z = Len(flight[s].bytes)
      BY <3>1, Zenon
    <3>3. length = (z - m) - (start + 1) /\ m + start < z
      BY <1>3, <2>4, <3>2, ZenonT(40) DEF BufferLen
    <3> QED
      BY <2>4, <3>3
  <2>6. fs \in Seq(Nat) /\ ls \subseteq LengthType
    BY <1>4, <1>6, <2>3, <2>4, <2>5, SMTT(30) DEF LengthType
  <2>7. Continues(call, k) /\ Carries(k, fs, call.typed, call.asked, ls)
    <3>1. PICK j \in CallType : j = call
      BY <2>2, Zenon
    <3>2. k = [j EXCEPT !.frames = fs, !.typed = j.typed, !.asked = j.asked, !.lengths = ls]
      BY <1>5, <3>1, Zenon DEF CallType
    <3>3. j.typed \in BOOLEAN /\ j.asked \in 0 .. MaxAsked
      BY CallFacts, Zenon
    <3>4. Continues(j, k) /\ Carries(k, fs, j.typed, j.asked, ls)
      BY <2>6, <3>2, <3>3, CallContinues, ZenonT(40)
    <3> QED
      BY <3>1, <3>4, Zenon
  <2>8. /\ Redrafted(flight[s], w, k, c, begun)
        /\ w.limit = flight[s].limit /\ Len(w.bytes) = Len(flight[s].bytes)
    <3>1. /\ k \in CallType /\ k.lent = call.lent /\ k.outboundBase = call.outboundBase
          /\ k.asked = call.asked
          /\ k.frames = SubSeq(call.frames, 1, Len(call.frames) - 1)
          /\ k.lengths = call.lengths \cup {[start |-> start, length |-> length]}
      BY <1>4, <2>7, Zenon DEF Continues, Carries
    <3>2. Closes(flight[s], call, w, k, start, length)
      BY <1>3, <1>4, <1>6, <1>8, <3>1, Zenon DEF Closes
    <3> QED
      BY <2>2, <3>1, <3>2, FinishDraft
  <2>9. ASSUME ~call.lent PROVE Home(w, Layout(kind).flight, c)
    <3>1. w \in BufferType /\ w.base = 0
      BY <2>7, <2>8, <2>9, Zenon DEF Draft, Continues, Redrafted
    <3>2. \A p \in 1 .. Len(w.bytes) : w.bytes[p].conn = c
      <4>1. 0 + 1 .. Len(w.bytes) = 1 .. Len(w.bytes)
        OBVIOUS
      <4> QED
        BY <2>8, <3>1, <4>1, Zenon DEF Draft, Redrafted
    <3> QED
      BY <2>2, <2>8, <2>9, <3>1, <3>2, Zenon DEF Home
  <2> QED
    BY <1>1, <1>2, <1>6, <2>1, <2>7, <2>8, <2>9, EncodedInv, Zenon
<1> QED
  BY <1>7, <1>8, Zenon

\* One sequence of bytes behind another.
LEMMA ConcatFacts ==
    ASSUME NEW o \in Seq(ByteType), NEW v \in Seq(ByteType), NEW t, t = o \o v
    PROVE  /\ t \in Seq(ByteType) /\ Len(t) = Len(o) + Len(v)
           /\ \A p \in 1 .. Len(v) : t[Len(o) + p] = v[p]
           /\ \A p \in 1 .. Len(o) : t[p] = o[p]
  OBVIOUS

\* The flight is committed, or refused.
LEMMA CommitInv ==
    ASSUME IInv, NEW accepted \in BOOLEAN, Commit(accepted)
    PROVE  IInv'
<1>1. PICK s : s = call.slot
  BY Zenon
<1>2. PICK c : c = slot[s].owner
  BY Zenon
<1>3. PICK store : store = IF call.lent THEN flight[s].bytes ELSE outbox[c] \o AsSlice(flight[s])
  BY Zenon
<1>4. PICK g : g = [at |-> call.outboundBase, no |-> begun, size |-> call.asked,
                    lengths |-> call.lengths]
  BY Zenon
<1>5. /\ Encoding /\ call.frames = <<>> /\ ~call.typed /\ (call.lent => accepted)
      /\ call' = NoCall /\ kind' = kind /\ params' = params /\ first' = first
      /\ made' = made /\ begun' = begun /\ ticket' = ticket
      /\ IF accepted
         THEN /\ outbox' = [outbox EXCEPT ![c] = store]
              /\ sent' = [sent EXCEPT ![c] = Append(sent[c], g)]
              /\ flight' = [flight EXCEPT ![s] = OwnAfter(s, flight[s])]
              /\ slot' = slot /\ reassembly' = reassembly /\ identity' = identity
         ELSE Poison(s, OwnAfter(s, flight[s])) /\ outbox' = outbox /\ sent' = sent
  BY <1>1, <1>2, <1>3, <1>4, Zenon DEF Commit, StoreAfter, Buffer
<1>6. /\ s \in Slots /\ c \in Connections
      /\ slot[s].phase = "Leased" /\ Tenant(slot[s]) = c
      /\ call \in CallType /\ Draft(flight[s], call, c, begun)
      /\ begun \in 0 .. MaxFlights /\ kind \in Kinds
      /\ SlotOk(kind, made, slot[s], params[s], reassembly[s], Own(s), identity[s])
      /\ Home(Own(s), Layout(kind).flight, c)
      /\ outbox \in [Connections -> Seq(ByteType)] /\ sent \in [Connections -> Seq(FlightType)]
      /\ call.outboundBase = EndOf(sent[c])
      /\ Whole(sent[c], IF call.lent THEN flight[s].bytes ELSE outbox[c], c)
      /\ ~call.lent => Len(outbox[c]) = call.outboundBase
      /\ ~call.lent => Own(s) = flight[s]
  <2>1. Encoding
    BY <1>5, Zenon
  <2> QED
    BY <1>1, <1>2, <2>1, EncodingFacts, ZenonT(40)
<1>7. /\ slot \in [Slots -> SlotType] /\ reassembly \in [Slots -> BufferType]
      /\ flight \in [Slots -> BufferType] /\ identity \in [Slots -> BufferType]
  BY Zenon DEF IInv, PoolInv
<1>8. OwnAfter(s, flight[s]) = Own(s)
  BY <1>1, <1>5, Zenon DEF Own
<1>9. CASE ~accepted
  <2>1. PICK y : y = [slot[s] EXCEPT !.failed = TRUE, !.retained = 0]
    BY Zenon
  <2>2. /\ slot'[s] = y /\ Only(slot, slot', s)
        /\ reassembly'[s] = Clear(reassembly[s]) /\ Only(reassembly, reassembly', s)
        /\ flight'[s] = Clear(Own(s)) /\ Only(flight, flight', s)
        /\ identity'[s] = Clear(identity[s]) /\ Only(identity, identity', s)
    BY <1>5, <1>6, <1>7, <1>8, <1>9, <2>1, ZenonT(40) DEF Only, Poison
  <2>3. SlotOk(kind, made, slot'[s], params[s], reassembly'[s], flight'[s], identity'[s])
    <3>1. SlotOk(kind, made, y, params[s], Clear(reassembly[s]), Clear(Own(s)), Clear(identity[s]))
      BY <1>6, <2>1, PoisonOk, Zenon
    <3> QED
      BY <2>2, <3>1, Zenon
  <2>4. /\ Only(sent, sent', c) /\ Only(outbox, outbox', c) /\ ~call.lent
        /\ sent'[c] = sent[c] /\ outbox'[c] = outbox[c]
        /\ sent[c] \in Seq(FlightType) /\ outbox[c] \in Seq(ByteType)
    BY <1>5, <1>6, <1>9, Zenon DEF Only
  <2> QED
    BY <1>1, <1>2, <1>5, <1>6, <2>2, <2>3, <2>4, EndStep, Zenon
<1>10. CASE accepted
  <2>1. /\ slot'[s] = slot[s] /\ Only(slot, slot', s)
        /\ reassembly'[s] = reassembly[s] /\ Only(reassembly, reassembly', s)
        /\ flight'[s] = Own(s) /\ Only(flight, flight', s)
        /\ identity'[s] = identity[s] /\ Only(identity, identity', s)
    BY <1>5, <1>6, <1>7, <1>8, <1>10, Zenon DEF Only
  <2>2. PICK gs : gs = Append(sent[c], g)
    BY Zenon
  <2>3. /\ sent'[c] = gs /\ outbox'[c] = store /\ Only(sent, sent', c) /\ Only(outbox, outbox', c)
    BY <1>5, <1>6, <1>10, <2>2, Zenon DEF Only
  <2>4. PICK m \in Nat, z \in Nat, a \in Nat :
           m = flight[s].base /\ z = Len(flight[s].bytes) /\ a = call.asked
    <3>1. flight[s] \in BufferType
      BY <1>6, Zenon DEF Draft
    <3>2. flight[s].base \in Nat /\ Len(flight[s].bytes) \in Nat
      BY <3>1, BufferFacts, Zenon
    <3>3. call.asked \in Nat
      BY <1>6, CallFacts, Zenon
    <3> QED
      BY <3>2, <3>3, Zenon
  <2>5. z = m + a /\ flight[s].bytes \in Seq(ByteType)
    BY <1>5, <1>6, <2>4, Zenon DEF Draft, BufferType
  <2>6. PICK e \in Nat : e = call.outboundBase /\ e = EndOf(sent[c])
    BY <1>6, Zenon DEF CallType
  \* The draft lies in the store behind what was sent.
  <2>7. /\ store \in Seq(ByteType) /\ Len(store) = e + a
        /\ \A p \in 1 .. a : store[e + p] = flight[s].bytes[m + p]
        /\ \A p \in 1 .. e : store[p] = (IF call.lent THEN flight[s].bytes ELSE outbox[c])[p]
    <3>1. CASE call.lent
      <4>1. m = e
        BY <1>6, <2>4, <2>6, <3>1, Zenon DEF Draft
      <4> QED
        BY <1>3, <2>4, <2>5, <3>1, <4>1, Zenon
    <3>2. CASE ~call.lent
      <4>1. m = 0 /\ outbox[c] \in Seq(ByteType) /\ Len(outbox[c]) = e
        BY <1>6, <2>4, <2>6, <3>2, Zenon DEF Draft
      <4>2. PICK v \in Seq(ByteType), o \in Seq(ByteType) : v = flight[s].bytes /\ o = outbox[c]
        BY <2>5, <4>1, Zenon
      <4>3. Len(v) = z /\ Len(o) = e /\ z = a
        <5>1. z = m + a /\ m = 0
          BY <2>5, <4>1, Zenon
        <5>2. z = a
          BY <5>1, SMTT(30)
        <5> QED
          BY <2>4, <4>1, <4>2, <5>2, Zenon
      <4>4. AsSlice(flight[s]) = SubSeq(v, 1, z)
        BY <2>4, <4>1, <4>2 DEF AsSlice
      <4>5. SubSeq(v, 1, z) = v
        BY <4>3
      <4>6. store = o \o v
        BY <1>3, <3>2, <4>2, <4>4, <4>5, Zenon
      <4>7. /\ store \in Seq(ByteType) /\ Len(store) = e + a
            /\ \A p \in 1 .. a : store[e + p] = v[p]
            /\ \A p \in 1 .. e : store[p] = o[p]
        <5>1. /\ store \in Seq(ByteType) /\ Len(store) = Len(o) + Len(v)
              /\ \A p \in 1 .. Len(v) : store[Len(o) + p] = v[p]
              /\ \A p \in 1 .. Len(o) : store[p] = o[p]
          BY <4>6, ConcatFacts
        <5> QED
          BY <4>3, <5>1, Zenon
      <4>8. \A p \in 1 .. a : m + p = p
        BY <4>1
      <4> QED
        BY <3>2, <4>2, <4>7, <4>8, Zenon
    <3> QED
      BY <3>1, <3>2, Zenon
  <2>8. /\ g \in FlightType /\ g.at = e /\ g.size = a /\ g.no = begun /\ g.lengths = call.lengths
    BY <1>4, <1>6, <2>4, <2>6, Zenon DEF FlightType, CallType
  <2>9. sent[c] \in Seq(FlightType)
    BY <1>6, Zenon
  <2>10. Whole(sent[c], store, c)
    <3>1. e <= Len(store)
      BY <2>4, <2>6, <2>7
    <3> QED
      BY <1>6, <2>6, <2>7, <2>9, <3>1, WholeAgrees, ZenonT(40)
  <2>11. \A p \in e + 1 .. e + a : store[p].conn = c /\ store[p].flight = begun
    <3>1. \A p \in 1 .. a : flight[s].bytes[m + p].conn = c /\ flight[s].bytes[m + p].flight = begun
      <4>1. \A p \in 1 .. a : m + p \in m + 1 .. z
        BY <2>5
      <4> QED
        BY <1>6, <2>4, <4>1, Zenon DEF Draft
    <3>2. ASSUME NEW p \in e + 1 .. e + a
          PROVE  store[p].conn = c /\ store[p].flight = begun
      <4>1. p - e \in 1 .. a /\ e + (p - e) = p
        OBVIOUS
      <4> QED
        BY <2>7, <3>1, <4>1, Zenon
    <3> QED
      BY <3>2, Zenon
  <2>12. ASSUME NEW l \in call.lengths
         PROVE  l.start < a /\ store[e + l.start + 1].length = l.length
    <3>1. l.start \in Nat
      BY <1>6, Zenon DEF CallType, LengthType
    <3>2. m + l.start < z /\ flight[s].bytes[m + l.start + 1].length = l.length
      BY <1>6, <2>4, Zenon DEF Draft
    <3>3. l.start < a /\ l.start + 1 \in 1 .. a
      BY <2>5, <3>1, <3>2, SMTT(30)
    <3>4. store[e + (l.start + 1)] = flight[s].bytes[m + (l.start + 1)]
      BY <2>7, <3>3, Zenon
    <3>5. e + (l.start + 1) = e + l.start + 1 /\ m + (l.start + 1) = m + l.start + 1
      BY <3>1
    <3> QED
      BY <3>2, <3>3, <3>4, <3>5, Zenon
  <2>13. Whole(gs, store, c) /\ gs \in Seq(FlightType) /\ EndOf(gs) = e + a
    <3>1. Len(store) \in Nat /\ e + a <= Len(store)
      BY <2>7
    <3> QED
      BY <2>2, <2>6, <2>8, <2>9, <2>10, <2>11, <2>12, <3>1, WholeAppend, ZenonT(40)
  <2> QED
    BY <1>1, <1>2, <1>5, <1>6, <2>1, <2>3, <2>7, <2>13, EndStep, ZenonT(40)
<1> QED
  BY <1>9, <1>10, Zenon

-----------------------------------------------------------------------------
(* The theorems. *)

\* Every action preserves the invariant.
LEMMA NextIInv == IInv /\ [Next]_vars => IInv'
<1> SUFFICES ASSUME IInv, [Next]_vars PROVE IInv'
  BY Zenon
<1>1. ASSUME NEW s \in Slots, Connect(s) PROVE IInv'
  BY <1>1, ConnectInv, Zenon
<1>2. ASSUME NEW s \in Slots, NEW restored \in BOOLEAN, Reserve(s, restored) PROVE IInv'
  BY <1>2, ReserveInv, Zenon
<1>3. ASSUME NEW s \in Slots, WriteParams(s) PROVE IInv'
  BY <1>3, WriteParamsInv, Zenon
<1>4. ASSUME NEW s \in Slots, ConnectReserved(s) PROVE IInv'
  BY <1>4, ConnectReservedInv, Zenon
<1>5. ASSUME NEW s \in Slots, DropReservation(s) PROVE IInv'
  BY <1>5, DropReservationInv, Zenon
<1>6. ASSUME NEW s \in Slots, Release(s) PROVE IInv'
  BY <1>6, ReleaseInv, Zenon
<1>7. ASSUME NEW s \in Slots, NEW n \in Chunks, Fragment(s, n) PROVE IInv'
  BY <1>7, FragmentInv, Zenon
<1>8. ASSUME NEW s \in Slots, Complete(s) PROVE IInv'
  BY <1>8, CompleteInv, Zenon
<1>9. ASSUME NEW s \in Slots, NEW n \in 1 .. IdentityNeeded + 1, RetainIdentity(s, n) PROVE IInv'
  BY <1>9, RetainIdentityInv, Zenon
<1>10. ASSUME NEW s \in Slots, NEW good \in BOOLEAN, UseIdentity(s, good) PROVE IInv'
  BY <1>10, UseIdentityInv, Zenon
<1>11. ASSUME NEW s \in Slots, RefuseFlight(s) PROVE IInv'
  BY <1>11, RefuseFlightInv, Zenon
<1>12. ASSUME NEW s \in Slots, BeginOwn(s) PROVE IInv'
  BY <1>12, BeginOwnInv, Zenon
<1>13. ASSUME NEW s \in Slots, NEW maximum \in Loans, BeginLent(s, maximum) PROVE IInv'
  BY <1>13, BeginLentInv, Zenon
<1>14. ASSUME PutType PROVE IInv'
  BY <1>14, PutTypeInv, Zenon
<1>15. ASSUME BeginFrame PROVE IInv'
  BY <1>15, BeginFrameInv, Zenon
<1>16. ASSUME NEW n \in Chunks, PutBody(n) PROVE IInv'
  BY <1>16, PutBodyInv, Zenon
<1>17. ASSUME FinishFrame PROVE IInv'
  BY <1>17, FinishFrameInv, Zenon
<1>18. ASSUME EncodeFails PROVE IInv'
  BY <1>18, AbandonInv, Zenon DEF EncodeFails
<1>19. ASSUME NEW accepted \in BOOLEAN, Commit(accepted) PROVE IInv'
  BY <1>19, CommitInv, Zenon
<1>20. CASE UNCHANGED vars
  BY <1>20, Zenon DEF vars, IInv, PoolInv, Own, Encoding, OwnAfter, CallInv, Buffer, StoresInv, Store,
       EndInv, TicketsInv, OfClient
<1> QED
  BY <1>1, <1>2, <1>3, <1>4, <1>5, <1>6, <1>7, <1>8, <1>9, <1>10, <1>11, <1>12, <1>13, <1>14,
     <1>15, <1>16, <1>17, <1>18, <1>19, <1>20, Zenon DEF Next

\* The invariant of the pool.
THEOREM PoolInvariant == Spec => []IInv
  BY InitIInv, NextIInv, PTL DEF Spec

\* The bytes after the base of a buffer that counts from its start.
LEMMA SliceFacts ==
    ASSUME NEW b, NEW cap, NEW c, Home(b, cap, c)
    PROVE  AsSlice(b) = b.bytes /\ BelongTo(AsSlice(b), c)
<1>1. b.bytes \in Seq(ByteType) /\ b.base = 0 /\ \A p \in 1 .. Len(b.bytes) : b.bytes[p].conn = c
  BY Zenon DEF Home, BufferType
<1>2. AsSlice(b) = SubSeq(b.bytes, 1, Len(b.bytes))
  BY <1>1 DEF AsSlice
<1>3. SubSeq(b.bytes, 1, Len(b.bytes)) = b.bytes
  BY <1>1
<1> QED
  BY <1>1, <1>2, <1>3 DEF BelongTo

\* What a loan or a failed call changed of a workspace buffer is put back:
\* between calls each has the capacity the pool allocated (Flight::drop,
\* BoundedBuffer::clear).
THEOREM BuffersAlwaysRestored == Spec => []TypeOK
<1>1. IInv => TypeOK
  <2> SUFFICES ASSUME IInv PROVE TypeOK
    BY Zenon
  <2>1. /\ PoolInv /\ slot \in [Slots -> SlotType] /\ params \in [Slots -> Seq(ByteType)]
        /\ reassembly \in [Slots -> BufferType] /\ flight \in [Slots -> BufferType]
        /\ identity \in [Slots -> BufferType] /\ made \in 0 .. MaxConnections
        /\ \A s \in Slots :
             SlotOk(kind, made, slot[s], params[s], reassembly[s], Own(s), identity[s])
    BY Zenon DEF IInv, PoolInv
  <2>2. \A s \in Slots : slot[s].owner <= made
    BY <2>1, Zenon DEF SlotOk
  <2>3. slot \in [Slots -> [phase : {"Vacant", "Reserved", "Leased"}, owner : 0 .. made,
                            failed : BOOLEAN, retained : Nat]]
    <3>1. ASSUME NEW s \in Slots
          PROVE  slot[s] \in [phase : {"Vacant", "Reserved", "Leased"}, owner : 0 .. made,
                              failed : BOOLEAN, retained : Nat]
      BY <2>1, <2>2, WorkspaceAssumption DEF SlotType
    <3> QED
      BY <2>1, <3>1, Zenon
  <2>4. ticket \in [Connections -> {"None", "First", "Restored"}]
        /\ outbox \in [Connections -> Seq(ByteType)]
    BY Zenon DEF IInv, TicketsInv, StoresInv
  <2>5. \A b, cap, c : Home(b, cap, c) => b.base = 0 /\ b.limit = cap /\ BufferLen(b) <= b.limit
    <3>1. \A b, cap, c : Home(b, cap, c) => /\ b.base = 0 /\ b.limit = cap /\ Len(b.bytes) <= cap
                                            /\ Len(b.bytes) \in Nat
      BY BufferFacts, Zenon DEF Home
    <3> QED
      BY <3>1 DEF BufferLen
  <2>6. ASSUME NEW s \in Slots, NEW own, NEW r \in DOMAIN own,
               own = [reassembly |-> reassembly[s], flight |-> flight[s], identity |-> identity[s]],
               call = NoCall \/ r # "flight"
        PROVE  own[r].base = 0 /\ own[r].limit = Layout(kind)[r] /\ BufferLen(own[r]) <= own[r].limit
    <3>1. CASE r = "reassembly"
      <4>1. own[r] = reassembly[s] /\ Layout(kind)[r] = Layout(kind).reassembly
        BY <2>6, <3>1, Zenon
      <4> QED
        BY <2>1, <2>5, <4>1, Zenon DEF SlotOk
    <3>2. CASE r = "identity"
      <4>1. own[r] = identity[s] /\ Layout(kind)[r] = Layout(kind).identity
        BY <2>6, <3>2, ZenonT(40)
      <4> QED
        BY <2>1, <2>5, <4>1, Zenon DEF SlotOk
    <3>3. CASE r = "flight"
      <4>1. own[r] = flight[s] /\ Layout(kind)[r] = Layout(kind).flight /\ call = NoCall
        BY <2>6, <3>3, Zenon
      <4>2. Own(s) = flight[s]
        BY <4>1, Zenon DEF Own, Encoding
      <4> QED
        BY <2>1, <2>5, <4>1, <4>2 DEF SlotOk
    <3> QED
      BY <2>6, <3>1, <3>2, <3>3, Zenon
  <2>7. ASSUME NEW s \in Slots
        PROVE  LET own == [reassembly |-> reassembly[s], flight |-> flight[s],
                           identity |-> identity[s]]
               IN \A r \in DOMAIN own :
                    call = NoCall \/ r # "flight" =>
                       /\ own[r].base = 0
                       /\ own[r].limit = Layout(kind)[r]
                       /\ BufferLen(own[r]) <= own[r].limit
    <3>1. PICK own : own = [reassembly |-> reassembly[s], flight |-> flight[s],
                            identity |-> identity[s]]
      BY ZenonT(40)
    <3>2. \A r \in DOMAIN own :
             call = NoCall \/ r # "flight" =>
                /\ own[r].base = 0
                /\ own[r].limit = Layout(kind)[r]
                /\ BufferLen(own[r]) <= own[r].limit
      BY <2>6, <3>1
    <3> QED
      BY <3>1, <3>2, Zenon
  <2> QED
    BY <2>1, <2>3, <2>4, <2>7, Zenon DEF TypeOK
<1> QED
  BY <1>1, PoolInvariant, PTL

\* The transport's store holds every flight that was sent, complete and as it
\* was encoded, whatever later flights meet: LengthFrame::drop and Flight::drop
\* take back what they must and nothing else.
THEOREM FlightsAlwaysWhole == Spec => []FlightsAreWhole
<1>1. IInv => FlightsAreWhole
  <2> SUFFICES ASSUME IInv, NEW c \in Connections
               PROVE  /\ \A i \in DOMAIN sent[c] :
                           LET f == sent[c][i]
                               end == f.at + f.size
                           IN /\ f.at = IF i = 1 THEN 0
                                        ELSE sent[c][i - 1].at + sent[c][i - 1].size
                              /\ Len(Store(c)) >= end
                              /\ \A p \in f.at + 1 .. end :
                                   Store(c)[p].conn = c /\ Store(c)[p].flight = f.no
                              /\ \A l \in f.lengths : Store(c)[f.at + l.start + 1].length = l.length
                      /\ call = NoCall =>
                           Len(outbox[c]) = IF sent[c] = <<>> THEN 0
                                            ELSE sent[c][Len(sent[c])].at + sent[c][Len(sent[c])].size
    BY Zenon DEF FlightsAreWhole
  <2>1. sent[c] \in Seq(FlightType) /\ Whole(sent[c], Store(c), c) /\ EndInv(c)
        /\ outbox[c] \in Seq(ByteType)
    BY Zenon DEF IInv, StoresInv
  <2>2. Len(Store(c)) \in Nat
    <3>1. CASE Encoding /\ call.lent /\ slot[call.slot].owner = c
      <4>1. Draft(Buffer, call, slot[call.slot].owner, begun)
        BY <3>1, Zenon DEF IInv, CallInv
      <4> QED
        BY <3>1, <4>1, BufferFacts, Zenon DEF Draft, Store
    <3>2. CASE ~(Encoding /\ call.lent /\ slot[call.slot].owner = c)
      BY <2>1, <3>2 DEF Store
    <3> QED
      BY <3>1, <3>2, Zenon
  <2>3. PICK fs, t : fs = sent[c] /\ t = Store(c)
    BY Zenon
  <2>4. fs \in Seq(FlightType) /\ Whole(fs, t, c) /\ Len(t) \in Nat
    BY <2>1, <2>2, <2>3, Zenon
  <2>5. ASSUME NEW i \in 1 .. Len(fs)
        PROVE  /\ fs[i].at = IF i = 1 THEN 0 ELSE fs[i - 1].at + fs[i - 1].size
               /\ Len(t) >= fs[i].at + fs[i].size
               /\ \A p \in fs[i].at + 1 .. fs[i].at + fs[i].size :
                    t[p].conn = c /\ t[p].flight = fs[i].no
               /\ \A l \in fs[i].lengths : t[fs[i].at + l.start + 1].length = l.length
    <3>1. /\ EndOf(fs) \in Nat /\ fs[i].at \in Nat /\ fs[i].size \in Nat
      BY <2>4, EndFacts, Zenon
    <3>2. fs[i].at + fs[i].size <= EndOf(fs) /\ EndOf(fs) <= Len(t)
      BY <2>4, Zenon DEF Whole
    <3>3. Len(t) >= fs[i].at + fs[i].size
      BY <2>4, <3>1, <3>2
    <3> QED
      BY <2>4, <3>3, Zenon DEF Whole
  <2>6. call = NoCall => Len(outbox[c]) = EndOf(sent[c])
    BY <2>1, Zenon DEF EndInv, Encoding
  <2>7. DOMAIN sent[c] = 1 .. Len(fs)
    BY <2>3, <2>4, EndFacts, Zenon
  <2> QED
    BY <2>3, <2>5, <2>6, <2>7, SMTT(30) DEF EndOf
<1> QED
  BY <1>1, PoolInvariant, PTL

\* Connections that share a slot one after the other share nothing else, and
\* the pool's ticket starts one connection (Pool::connect,
\* FramedReservation::connect, into_seed, reserve).
THEOREM OwnersAlwaysSeparate == Spec => []OwnersAreSeparate
<1>1. IInv => OwnersAreSeparate
  <2> SUFFICES ASSUME IInv PROVE OwnersAreSeparate
    BY Zenon
  <2>1. OfClient =>
          IF first THEN \A c \in Connections : ticket[c] # "First"
          ELSE \E c \in Connections :
                 ticket[c] = "First" /\ \A d \in Connections \ {c} : ticket[d] # "First"
    BY Zenon DEF IInv, TicketsInv
  <2>2. ASSUME call = NoCall, NEW s \in Slots
        PROVE  /\ \A b \in {reassembly[s], flight[s], identity[s]} :
                    BelongTo(AsSlice(b), slot[s].owner)
               /\ slot[s].phase # "Vacant" => BelongTo(params[s], slot[s].owner)
               /\ slot[s].retained > 0 =>
                    AsSlice(IF OfClient THEN flight[s] ELSE identity[s])
                       = Bytes(slot[s].owner, 0, slot[s].retained)
    <3>1. SlotOk(kind, made, slot[s], params[s], reassembly[s], flight[s], identity[s])
      BY <2>2, IdleFacts, Zenon DEF IInv
    <3>2. /\ Home(reassembly[s], Layout(kind).reassembly, slot[s].owner)
          /\ Home(flight[s], Layout(kind).flight, slot[s].owner)
          /\ Home(identity[s], Layout(kind).identity, slot[s].owner)
      BY <3>1, EmptyHome, Zenon DEF SlotOk, Tenant
    <3>3. /\ AsSlice(flight[s]) = flight[s].bytes /\ AsSlice(identity[s]) = identity[s].bytes
          /\ \A b \in {reassembly[s], flight[s], identity[s]} : BelongTo(AsSlice(b), slot[s].owner)
      BY <3>2, SliceFacts, Zenon
    <3>4. slot[s].retained > 0 =>
            (IF OfClient THEN flight[s] ELSE identity[s]).bytes
               = Bytes(slot[s].owner, 0, slot[s].retained)
      BY <3>1, Zenon DEF SlotOk, OfClient
    <3> QED
      BY <3>1, <3>3, <3>4, Zenon DEF SlotOk
  <2> QED
    BY <2>1, <2>2, Zenon DEF OwnersAreSeparate
<1> QED
  BY <1>1, PoolInvariant, PTL

============================================================================
