---------------------------- MODULE RecordLayer ----------------------------
(***************************************************************************)
(* One direction of the record layer (wire/record): a Sealer, a transport   *)
(* and an Opener, with the key generations a consumer installs on the two   *)
(* sides.  A key is its generation; the nonce of a record is its sequence   *)
(* number, so the AEAD opens a record only under the generation and the     *)
(* number it was sealed with.                                               *)
(*                                                                          *)
(* The consumer seals a KeyUpdate under the old key and then replaces the   *)
(* Sealer; the receiving consumer replaces the Opener when it has opened    *)
(* the KeyUpdate.  A replaced Sealer or Opener starts at sequence number 0. *)
(***************************************************************************)
EXTENDS Integers, Sequences

CONSTANTS
    AEAD_CONFIDENTIALITY_LIMIT, \* records under one key
    MaxRecords,                 \* bound: records on the wire
    MaxFaults                   \* bound: seals the AEAD refuses, damaged inputs

ASSUME RecordAssumption ==
    /\ AEAD_CONFIDENTIALITY_LIMIT \in Nat \ {0}
    /\ MaxRecords \in Nat
    /\ MaxFaults \in Nat

VARIABLES
    sealer,  \* the Sealer: [gen, seq]
    opener,  \* the Opener: [gen, seq, poisoned]
    wire,    \* every record handed to the transport, in order
    opened,  \* what the Opener delivered, in order
    nonces,  \* history: <<gen, seq>> of every use of the AEAD by the Sealer
    reused,  \* history: the Sealer used a nonce twice under one key
    faults,  \* failures so far
    disturbed \* history: the transport or the peer went wrong, not just a call

vars == <<sealer, opener, wire, opened, nonces, reused, faults, disturbed>>

\* ContentType of a record: application data, a handshake record holding a
\* KeyUpdate, and ChangeCipherSpec, which no Opener delivers.
Kinds == {"ApplicationData", "KeyUpdate", "ChangeCipherSpec"}

\* Why a seal is refused: the body or the destination is wrong, the vectored
\* parts do not add up, or the AEAD fails.  "None": it is not.
SealFaults == {"None", "BodyTooLarge", "BufferTooSmall", "LengthMismatch", "SealFailed"}

\* What the Opener is given: a prefix of a record, a header it refuses, a body
\* changed on the way, or the record as it was sealed.
Inputs == {"Partial", "BadLegacyVersion", "BodyTooLarge", "NotCipherTextOuter",
           "Damaged", "Intact"}

Init ==
    /\ sealer = [gen |-> 0, seq |-> 0]
    /\ opener = [gen |-> 0, seq |-> 0, poisoned |-> FALSE]
    /\ wire = <<>>
    /\ opened = <<>>
    /\ nonces = {}
    /\ reused = FALSE
    /\ faults = 0
    /\ disturbed = FALSE

----------------------------------------------------------------------------
NeedsKeyUpdate(s) == s.seq >= AEAD_CONFIDENTIALITY_LIMIT

\* check_seq (u64::MAX is beyond the limit and never reached).
CheckSeq(s) == s.seq < AEAD_CONFIDENTIALITY_LIMIT

\* MUTANT: a length mismatch is found after the sequence number was taken.
UsesNonceEarly(s, fault) ==
    CheckSeq(s) /\ fault \in {"None", "SealFailed", "LengthMismatch"}

\* Whether a seal gets as far as seal_plaintext.  The length and the
\* destination are checked first, the parts are counted before the AEAD runs.
UsesNonce(s, fault) == CheckSeq(s) /\ fault \in {"None", "SealFailed"}

\* MUTANT: a failed seal gives its sequence number back.
SealPlaintextReturning(fault) ==
    /\ sealer' = IF fault = "None" THEN [sealer EXCEPT !.seq = @ + 1] ELSE sealer
    /\ nonces' = nonces \cup {<<sealer.gen, sealer.seq>>}
    /\ reused' = (reused \/ <<sealer.gen, sealer.seq>> \in nonces)

\* seal_plaintext: the number is taken before the AEAD is called.
SealPlaintext(fault) ==
    /\ sealer' = [sealer EXCEPT !.seq = @ + 1]
    /\ nonces' = nonces \cup {<<sealer.gen, sealer.seq>>}
    /\ reused' = (reused \/ <<sealer.gen, sealer.seq>> \in nonces)

\* seal_into, seal_into_slice, seal_to and seal_parts_to: a record appears
\* only if nothing failed.  A refused call leaves everything as it was.
Seal(kind, fault) ==
    /\ Len(wire) < MaxRecords
    /\ fault # "None" => faults < MaxFaults
    /\ faults' = IF fault = "None" THEN faults ELSE faults + 1
    /\ IF UsesNonce(sealer, fault)
       THEN SealPlaintext(fault)
       ELSE UNCHANGED <<sealer, nonces, reused>>
    /\ wire' = IF UsesNonce(sealer, fault) /\ fault = "None"
               THEN Append(wire, [kind |-> kind, gen |-> sealer.gen, seq |-> sealer.seq])
               ELSE wire
    /\ disturbed' = (disturbed \/ fault = "SealFailed" \/ kind = "ChangeCipherSpec")
    /\ UNCHANGED <<opener, opened>>

\* The consumer installs the write secret that follows a sealed KeyUpdate.
InstallWrite ==
    /\ wire # <<>>
    /\ wire[Len(wire)].kind = "KeyUpdate"
    /\ wire[Len(wire)].gen = sealer.gen
    /\ sealer' = [gen |-> sealer.gen + 1, seq |-> 0]
    /\ UNCHANGED <<opener, wire, opened, nonces, reused, faults, disturbed>>

----------------------------------------------------------------------------
\* MUTANT: a record that has not arrived completely counts as a failure.
ParsePartialFails(o, input) ==
    IF o.poisoned THEN "Error"
    ELSE IF input = "Intact" \/ input = "Damaged" THEN "Ok" ELSE "Error"

\* Ciphertext::parse: the poison flag first, then completeness and the header,
\* then the limit of the key.
Parse(o, input) ==
    IF o.poisoned THEN "Error"
    ELSE IF input = "Partial" THEN "Incomplete"
    ELSE IF input \in {"BadLegacyVersion", "BodyTooLarge", "NotCipherTextOuter"} THEN "Error"
    ELSE IF o.seq >= AEAD_CONFIDENTIALITY_LIMIT THEN "Error"
    ELSE "Ok"

\* MUTANT: the number of a record is not bound to its position.
AuthenticAnyOrder(o, record, input) == record.gen = o.gen /\ input = "Intact"

\* aead.open: generation and number as sealed, the body untouched.
Authentic(o, record, input) ==
    record.gen = o.gen /\ record.seq = o.seq /\ input = "Intact"

\* Opener::open with open_body: every error poisons, an incomplete record does
\* not, and a ChangeCipherSpec is refused after its number was consumed.
Open(record, input) ==
    /\ CASE Parse(opener, input) = "Incomplete" -> UNCHANGED <<opener, opened>>
         [] Parse(opener, input) = "Error" ->
                /\ opener' = [opener EXCEPT !.poisoned = TRUE]
                /\ UNCHANGED opened
         [] ~Authentic(opener, record, input) /\ Parse(opener, input) = "Ok" ->
                /\ opener' = [opener EXCEPT !.poisoned = TRUE]
                /\ UNCHANGED opened
         [] OTHER ->
                /\ opener' = [opener EXCEPT !.seq = @ + 1,
                                            !.poisoned = record.kind = "ChangeCipherSpec"]
                /\ opened' = IF record.kind = "ChangeCipherSpec" THEN opened
                             ELSE Append(opened, record)
    /\ UNCHANGED <<sealer, wire, nonces, reused>>

\* The transport delivers the next record the Opener waits for.
OpenNext ==
    /\ Len(opened) < Len(wire)
    /\ ~opener.poisoned
    /\ Open(wire[Len(opened) + 1], "Intact")
    /\ UNCHANGED <<faults, disturbed>>

\* It has so far delivered only a part of it.
OpenPartial ==
    /\ Len(opened) < Len(wire)
    /\ ~opener.poisoned
    /\ Open(wire[Len(opened) + 1], "Partial")
    /\ UNCHANGED <<faults, disturbed>>

\* Something else arrives: a damaged record, or one out of its order.
OpenOther(i, input) ==
    /\ faults < MaxFaults
    /\ faults' = faults + 1
    /\ disturbed' = TRUE
    /\ Open(wire[i], input)

\* The receiving consumer installs the read secret of a KeyUpdate it opened:
\* Opener::with_suite makes a new Opener.
InstallRead ==
    /\ opened # <<>>
    /\ opened[Len(opened)].kind = "KeyUpdate"
    /\ opened[Len(opened)].gen = opener.gen
    /\ opener' = [gen |-> opener.gen + 1, seq |-> 0, poisoned |-> FALSE]
    /\ UNCHANGED <<sealer, wire, opened, nonces, reused, faults, disturbed>>

\* A consumer that follows the documentation installs a new key right after
\* the KeyUpdate, before it seals or opens anything more.
WriteDue == wire # <<>> /\ wire[Len(wire)].kind = "KeyUpdate" /\ wire[Len(wire)].gen = sealer.gen

ReadDue == opened # <<>> /\ opened[Len(opened)].kind = "KeyUpdate"
                         /\ opened[Len(opened)].gen = opener.gen

Next ==
    \/ \E kind \in Kinds, fault \in SealFaults : ~WriteDue /\ Seal(kind, fault)
    \/ InstallWrite
    \/ ~ReadDue /\ OpenNext
    \/ ~ReadDue /\ OpenPartial
    \/ \E i \in 1 .. Len(wire), input \in Inputs : ~ReadDue /\ OpenOther(i, input)
    \/ InstallRead

Spec == Init /\ [][Next]_vars

\* The consumer goes on handing over what arrived and installing the keys it
\* was given.  Nothing obliges it to seal.
ReaderFairness == WF_vars(~ReadDue /\ OpenNext) /\ WF_vars(InstallRead)

FairSpec == Spec /\ ReaderFairness

----------------------------------------------------------------------------
\* No key and sequence number are used twice by the AEAD, whatever seals are
\* refused or fail and whenever the key is replaced (seal_plaintext).
NonceNeverReused == ~reused

\* The abstract channel: records are its payload, the Opener's poison flag is
\* its end.
Secure == INSTANCE Channel WITH
    Payload <- [kind : Kinds, gen : 0 .. MaxRecords, seq : 0 .. AEAD_CONFIDENTIALITY_LIMIT - 1],
    sent <- wire, delivered <- opened, closed <- opener.poisoned

\* Whatever the transport loses, repeats, reorders or damages, whatever the
\* peer sealed and whenever keys change, the Sealer and the Opener together are
\* a channel: every record delivered is the next one sealed, and once an Opener
\* is poisoned nothing more is delivered, because no KeyUpdate can be opened
\* whose new Opener would replace it (Opener::open, open_body and the poison
\* flag).
ImplementsChannel == Secure!Spec

\* As long as the transport and the AEAD work and the peer seals no
\* ChangeCipherSpec, the Opener never fails: refused seals leave no gap,
\* partial arrivals do no harm, the two sides change keys at the same record,
\* and the limit of the Sealer keeps the Opener below its own (Opener::open).
FailsOnlyIfDisturbed == opener.poisoned => disturbed

\* Then everything that was sealed is delivered.
AllDelivered == \A n \in 1 .. MaxRecords : Len(wire) >= n ~> (Len(opened) >= n \/ disturbed)

\* When a KeyUpdate is due (needs_key_update) it can still be sealed under the
\* old key, as the documentation asks of the consumer.
DueUpdateCanBeSealed == NeedsKeyUpdate(sealer) => CheckSeq(sealer)

============================================================================
