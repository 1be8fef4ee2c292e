------------------------- MODULE RecordLayerProofs -------------------------
(***************************************************************************)
(* Proofs about RecordLayer, for every AEAD limit, number of records and    *)
(* number of faults.  The argument is about positions: a generation and a   *)
(* sequence number, ordered lexicographically.  The records on the wire     *)
(* have increasing positions, all before the one the Sealer writes next     *)
(* (WireOrdered); the Opener stands after what it opened and not after      *)
(* anything it did not (OpenerBetween).  While a KeyUpdate waits for its    *)
(* new key, the position a side goes on from is that of the new key.        *)
(***************************************************************************)
EXTENDS RecordLayer, TLAPS

Records == [kind : Kinds, gen : Nat, seq : Nat]

Types ==
    /\ sealer \in [gen : Nat, seq : Nat]
    /\ opener \in [gen : Nat, seq : Nat, poisoned : BOOLEAN]
    /\ wire \in Seq(Records)
    /\ opened \in Seq(Records)
    /\ nonces \subseteq Nat \X Nat
    /\ reused \in BOOLEAN
    /\ faults \in Nat
    /\ disturbed \in BOOLEAN

\* Position p is before position q.
Before(p, q) == p.gen < q.gen \/ (p.gen = q.gen /\ p.seq < q.seq)

\* Where a side goes on: under the new key when one is due.
WriteNext == IF WriteDue THEN [gen |-> sealer.gen + 1, seq |-> 0]
             ELSE [gen |-> sealer.gen, seq |-> sealer.seq]

ReadNext == IF ReadDue THEN [gen |-> opener.gen + 1, seq |-> 0]
            ELSE [gen |-> opener.gen, seq |-> opener.seq]

\* Every nonce used is before the Sealer's position.
NoncesBehind ==
    /\ ~reused
    /\ \A n \in nonces : n[1] < sealer.gen \/ (n[1] = sealer.gen /\ n[2] < sealer.seq)

\* The wire: positions increase, an update ends its generation, and a record
\* is of at most as many generations as there are records before it.
WireOrdered ==
    /\ \A k \in 1 .. Len(wire) : Before(wire[k], sealer)
    /\ \A k \in 1 .. Len(wire) : wire[k].seq < AEAD_CONFIDENTIALITY_LIMIT
    /\ \A j, k \in 1 .. Len(wire) : j < k => Before(wire[j], wire[k])
    /\ \A j, k \in 1 .. Len(wire) :
          j < k /\ wire[j].kind = "KeyUpdate" => wire[j].gen < wire[k].gen
    /\ \A k \in 1 .. Len(wire) : wire[k].kind = "KeyUpdate" => wire[k].gen < WriteNext.gen
    /\ \A k \in 1 .. Len(wire) : wire[k].gen < k
    /\ sealer.gen <= Len(wire)

\* What was opened is a prefix of the wire.
OpenedPrefix ==
    /\ Len(opened) <= Len(wire)
    /\ \A k \in 1 .. Len(opened) : opened[k] = wire[k]

\* A live Opener stands after what was opened and not after anything else, nor
\* after where the Sealer goes on.
OpenerBetween ==
    ~opener.poisoned =>
        /\ \A k \in 1 .. Len(opened) : Before(wire[k], opener)
        /\ \A k \in 1 .. Len(wire) : k > Len(opened) => ~Before(wire[k], ReadNext)
        /\ ~Before(WriteNext, ReadNext)

\* An Opener that waits to be replaced has not failed: the KeyUpdate was the
\* last thing it was given.
DueIsLive == ReadDue => ~opener.poisoned

\* The position that follows a record.
After(r) == IF r.kind = "KeyUpdate" THEN [gen |-> r.gen + 1, seq |-> 0]
            ELSE [gen |-> r.gen, seq |-> r.seq + 1]

\* The position after the first k records of the wire.
PositionAt(k) == IF k = 0 THEN [gen |-> 0, seq |-> 0] ELSE After(wire[k])

\* As long as nothing went wrong the wire has no gaps, and both sides are
\* where its records and the opened ones end.
NoGaps ==
    ~disturbed =>
        /\ ~opener.poisoned
        /\ \A k \in 1 .. Len(wire) :
              /\ wire[k].kind # "ChangeCipherSpec"
              /\ wire[k].gen = PositionAt(k - 1).gen
              /\ wire[k].seq = PositionAt(k - 1).seq
        /\ WriteNext = PositionAt(Len(wire))
        /\ ReadNext = PositionAt(Len(opened))

----------------------------------------------------------------------------
(* The outcomes of a seal and of an open, and what each does. *)

\* A record is sealed and handed to the transport.
Seals(kind) ==
    /\ Len(wire) < MaxRecords
    /\ CheckSeq(sealer)
    /\ SealPlaintext("None")
    /\ wire' = Append(wire, [kind |-> kind, gen |-> sealer.gen, seq |-> sealer.seq])
    /\ disturbed' = (disturbed \/ kind = "ChangeCipherSpec")
    /\ UNCHANGED <<opener, opened>>

\* The AEAD fails: the sequence number is spent, no record appears.
Burns ==
    /\ CheckSeq(sealer)
    /\ SealPlaintext("SealFailed")
    /\ disturbed' = TRUE
    /\ UNCHANGED <<wire, opener, opened>>

\* The seal is refused before the AEAD runs.
Refuses ==
    /\ disturbed' \in BOOLEAN
    /\ disturbed => disturbed'
    /\ UNCHANGED <<sealer, nonces, reused, wire, opener, opened>>

\* The Opener fails, and stays failed.
Rejects ==
    /\ opener' = [opener EXCEPT !.poisoned = TRUE]
    /\ UNCHANGED <<opened, sealer, wire, nonces, reused>>

\* The record is authentic at the Opener's position.  A ChangeCipherSpec is
\* not delivered and fails the Opener.
Delivers(record) ==
    /\ ~opener.poisoned
    /\ record.gen = opener.gen /\ record.seq = opener.seq
    /\ opener' = [opener EXCEPT !.seq = @ + 1, !.poisoned = record.kind = "ChangeCipherSpec"]
    /\ opened' = IF record.kind = "ChangeCipherSpec" THEN opened ELSE Append(opened, record)
    /\ UNCHANGED <<sealer, wire, nonces, reused>>

\* Every seal is one of the three (seal_into and its siblings).
LEMMA SealCases ==
    ASSUME Types, NEW kind \in Kinds, NEW fault \in SealFaults, Seal(kind, fault)
    PROVE  Seals(kind) \/ Burns \/ Refuses
  <1>1. CASE fault = "None" /\ CheckSeq(sealer)
    BY <1>1, Zenon DEF Seal, UsesNonce, Seals, SealPlaintext
  <1>2. CASE fault = "SealFailed" /\ CheckSeq(sealer)
    BY <1>2, Zenon DEF Seal, UsesNonce, Burns, SealPlaintext
  <1>3. CASE ~UsesNonce(sealer, fault)
    BY <1>3, Zenon DEF Seal, Refuses, Types
  <1> QED
    BY <1>1, <1>2, <1>3, Zenon DEF UsesNonce

\* Every open leaves the Opener alone, fails it or delivers (Opener::open).
LEMMA OpenCases ==
    ASSUME NEW record, NEW input, Open(record, input)
    PROVE  \/ Rejects
           \/ Delivers(record)
           \/ UNCHANGED <<opener, opened, sealer, wire, nonces, reused>>
  <1>1. CASE Parse(opener, input) = "Incomplete"
    BY <1>1, Zenon DEF Open
  <1>2. CASE Parse(opener, input) = "Error"
    BY <1>2, Zenon DEF Open, Rejects
  <1>3. CASE Parse(opener, input) = "Ok" /\ ~Authentic(opener, record, input)
    BY <1>3, Zenon DEF Open, Rejects
  <1>4. CASE Parse(opener, input) = "Ok" /\ Authentic(opener, record, input)
    <2>1. ~opener.poisoned
      BY <1>4, Zenon DEF Parse
    <2> QED
      BY <1>4, <2>1, Zenon DEF Open, Delivers, Authentic
  <1> QED
    BY <1>1, <1>2, <1>3, <1>4, Zenon DEF Parse

\* A record of the wire, and the record after it.
LEMMA WireTypes ==
    ASSUME Types
    PROVE  /\ Len(wire) \in Nat /\ Len(opened) \in Nat
           /\ \A k \in 1 .. Len(wire) : /\ wire[k] \in Records /\ wire[k].kind \in Kinds
                                        /\ wire[k].gen \in Nat /\ wire[k].seq \in Nat
           /\ sealer.gen \in Nat /\ sealer.seq \in Nat
           /\ opener.gen \in Nat /\ opener.seq \in Nat /\ opener.poisoned \in BOOLEAN
  <1>1. wire \in Seq(Records) /\ opened \in Seq(Records)
    BY Zenon DEF Types
  <1>2. \A k \in 1 .. Len(wire) : wire[k] \in Records
    BY <1>1
  <1>3. \A r \in Records : r.kind \in Kinds /\ r.gen \in Nat /\ r.seq \in Nat
    BY Zenon DEF Records
  <1> QED
    BY <1>1, <1>2, <1>3 DEF Types

\* seal_plaintext leaves the Sealer under its key, one number further.
LEMMA SealerAdvances ==
    ASSUME Types, NEW fault, SealPlaintext(fault)
    PROVE  /\ sealer'.gen = sealer.gen /\ sealer'.seq = sealer.seq + 1
           /\ sealer' \in [gen : Nat, seq : Nat]
  <1>1. PICK s \in [gen : Nat, seq : Nat] : s = sealer
    BY Zenon DEF Types
  <1>2. sealer' = [s EXCEPT !.seq = s.seq + 1]
    BY <1>1, Zenon DEF SealPlaintext
  <1>3. s = [gen |-> s.gen, seq |-> s.seq] /\ s.gen \in Nat /\ s.seq \in Nat
    BY Zenon
  <1>4. sealer' = [gen |-> s.gen, seq |-> s.seq + 1]
    BY <1>2, <1>3, Zenon
  <1>5. s.seq + 1 \in Nat
    BY <1>3
  <1> QED
    BY <1>1, <1>3, <1>4, <1>5, Zenon

\* A sealed record stands at the Sealer's position, and the Sealer goes on at
\* the position that follows it.
LEMMA SealsEffect ==
    ASSUME Types, NEW kind \in Kinds, ~WriteDue, Seals(kind)
    PROVE  /\ Len(wire') = Len(wire) + 1
           /\ \A k \in 1 .. Len(wire) : wire'[k] = wire[k]
           /\ wire'[Len(wire) + 1] = [kind |-> kind, gen |-> sealer.gen, seq |-> sealer.seq]
           /\ wire' \in Seq(Records)
           /\ sealer'.gen = sealer.gen /\ sealer'.seq = sealer.seq + 1
           /\ sealer' \in [gen : Nat, seq : Nat]
           /\ WriteNext = [gen |-> sealer.gen, seq |-> sealer.seq]
           /\ WriteNext' = After(wire'[Len(wire) + 1])
           /\ ReadNext' = ReadNext
  <1> DEFINE r == [kind |-> kind, gen |-> sealer.gen, seq |-> sealer.seq]
  <1>1. r \in Records /\ wire \in Seq(Records) /\ Len(wire) \in Nat
    BY WireTypes, Zenon DEF Types, Records
  <1>2. wire' = Append(wire, r)
    BY Zenon DEF Seals
  <1>3. r.kind = kind /\ r.gen = sealer.gen /\ r.seq = sealer.seq
    BY Zenon
  <1>4. /\ Len(wire') = Len(wire) + 1
        /\ \A k \in 1 .. Len(wire) : wire'[k] = wire[k]
        /\ wire'[Len(wire) + 1] = r
        /\ wire' \in Seq(Records)
        /\ wire' # <<>>
    <2> HIDE DEF r
    <2> QED
      BY <1>1, <1>2
  <1>5. /\ sealer'.gen = sealer.gen /\ sealer'.seq = sealer.seq + 1
        /\ sealer' \in [gen : Nat, seq : Nat]
    BY SealerAdvances, Zenon DEF Seals
  <1>6. WriteNext = [gen |-> sealer.gen, seq |-> sealer.seq]
    BY Zenon DEF WriteNext
  <1>7. WriteDue' <=> kind = "KeyUpdate"
    <2>1. wire' # <<>> /\ wire'[Len(wire')] = r
      BY <1>4, Zenon
    <2> HIDE DEF r
    <2> QED
      BY <1>3, <1>5, <2>1, Zenon DEF WriteDue
  <1>8. WriteNext' = After(wire'[Len(wire) + 1])
    BY <1>3, <1>4, <1>5, <1>7, Zenon DEF WriteNext, After
  <1>9. ReadNext' = ReadNext
    BY Zenon DEF Seals, ReadNext, ReadDue
  <1> QED
    BY <1>4, <1>5, <1>6, <1>8, <1>9, Zenon

\* A new write key: the Sealer is where it was going on anyway.
LEMMA InstallWriteEffect ==
    ASSUME Types, InstallWrite
    PROVE  /\ sealer' = [gen |-> sealer.gen + 1, seq |-> 0]
           /\ WriteNext = [gen |-> sealer.gen + 1, seq |-> 0]
           /\ WriteNext' = WriteNext
           /\ wire # <<>> /\ wire[Len(wire)].gen = sealer.gen
           /\ ReadNext' = ReadNext
  <1>1. /\ WriteDue /\ wire' = wire /\ opened' = opened /\ opener' = opener
        /\ sealer' = [gen |-> sealer.gen + 1, seq |-> 0]
        /\ wire # <<>> /\ wire[Len(wire)].gen = sealer.gen
    BY Zenon DEF InstallWrite, WriteDue
  <1>2. sealer.gen \in Nat /\ sealer'.gen = sealer.gen + 1 /\ sealer'.seq = 0
    BY <1>1, WireTypes, Zenon
  <1>3. ~WriteDue'
    BY <1>1, <1>2 DEF WriteDue
  <1> QED
    BY <1>1, <1>2, <1>3, Zenon DEF WriteNext, ReadNext, ReadDue

\* A new read key: the same for the Opener.
LEMMA InstallReadEffect ==
    ASSUME Types, DueIsLive, InstallRead
    PROVE  /\ opener' = [gen |-> opener.gen + 1, seq |-> 0, poisoned |-> FALSE]
           /\ ~opener.poisoned
           /\ ReadNext = [gen |-> opener.gen + 1, seq |-> 0]
           /\ ReadNext' = ReadNext
           /\ WriteNext' = WriteNext
  <1>1. /\ ReadDue /\ wire' = wire /\ opened' = opened /\ sealer' = sealer /\ ~opener.poisoned
        /\ opener' = [gen |-> opener.gen + 1, seq |-> 0, poisoned |-> FALSE]
        /\ opened[Len(opened)].gen = opener.gen
    BY Zenon DEF InstallRead, ReadDue, DueIsLive
  <1>2. opener.gen \in Nat /\ opener'.gen = opener.gen + 1 /\ opener'.seq = 0
    BY <1>1, WireTypes, Zenon
  <1>3. ~ReadDue'
    BY <1>1, <1>2 DEF ReadDue
  <1> QED
    BY <1>1, <1>2, <1>3, Zenon DEF WriteNext, WriteDue, ReadNext

\* What the receiving side leaves alone.
LEMMA ReceiverLeaves ==
    ASSUME UNCHANGED <<sealer, wire>>
    PROVE  WriteNext' = WriteNext
  BY Zenon DEF WriteNext, WriteDue

\* disturbed never becomes false again.
MayDisturb == disturbed' \in BOOLEAN /\ (disturbed => disturbed')

\* The k-th record of the wire is delivered; undisturbed, it is the next one.
DeliversAt(k) ==
    /\ Delivers(wire[k])
    /\ ~ReadDue
    /\ MayDisturb
    /\ ~disturbed' => k = Len(opened) + 1

\* The next record is refused although nothing disturbed the two sides.
RejectsNext ==
    /\ Rejects
    /\ UNCHANGED disturbed
    /\ ~ReadDue /\ ~opener.poisoned
    /\ Len(opened) < Len(wire)
    /\ \/ opener.seq >= AEAD_CONFIDENTIALITY_LIMIT
       \/ wire[Len(opened) + 1].gen # opener.gen
       \/ wire[Len(opened) + 1].seq # opener.seq

Idles ==
    /\ UNCHANGED <<sealer, opener, wire, opened, nonces, reused>>
    /\ MayDisturb

\* What a step of the record layer amounts to.
Outcome ==
    \/ \E kind \in Kinds : ~WriteDue /\ Seals(kind)
    \/ ~WriteDue /\ Burns
    \/ InstallWrite
    \/ Rejects /\ ~ReadDue /\ disturbed' = TRUE
    \/ RejectsNext
    \/ \E k \in 1 .. Len(wire) : DeliversAt(k)
    \/ InstallRead
    \/ Idles

\* Every step has one of these outcomes.
LEMMA StepOutcome == Types /\ [Next]_vars => Outcome /\ faults' \in Nat
  <1> SUFFICES ASSUME Types, [Next]_vars PROVE Outcome /\ faults' \in Nat
    BY Zenon
  <1>1. ASSUME NEW kind \in Kinds, NEW fault \in SealFaults, ~WriteDue, Seal(kind, fault)
        PROVE  Outcome /\ faults' \in Nat
    <2>1. faults' \in Nat
      BY <1>1 DEF Seal, Types
    <2>2. Refuses => Idles
      BY Zenon DEF Refuses, Idles, MayDisturb
    <2> QED
      BY <1>1, <2>1, <2>2, SealCases, Zenon DEF Outcome
  <1>2. CASE InstallWrite
    BY <1>2, Zenon DEF InstallWrite, Outcome, Types
  <1>3. CASE ~ReadDue /\ OpenNext
    <2> DEFINE r == wire[Len(opened) + 1]
    <2>1. /\ Len(opened) < Len(wire) /\ ~opener.poisoned
          /\ Open(r, "Intact") /\ faults' = faults /\ disturbed' = disturbed
      BY <1>3, Zenon DEF OpenNext
    <2>2. Len(opened) + 1 \in 1 .. Len(wire)
      BY <2>1, WireTypes
    <2>3. CASE Delivers(r)
      <3>1. DeliversAt(Len(opened) + 1)
        BY <1>3, <2>1, <2>3, Zenon DEF DeliversAt, MayDisturb, Types
      <3> QED
        BY <2>1, <2>2, <3>1, Zenon DEF Outcome, Types
    <2>4. CASE Rejects /\ ~Delivers(r)
      <3>1. \/ opener.seq >= AEAD_CONFIDENTIALITY_LIMIT
            \/ r.gen # opener.gen \/ r.seq # opener.seq
        <4> SUFFICES ASSUME ~(opener.seq >= AEAD_CONFIDENTIALITY_LIMIT),
                            r.gen = opener.gen, r.seq = opener.seq
                     PROVE  FALSE
          BY Zenon
        <4>1. Parse(opener, "Intact") = "Ok" /\ Authentic(opener, r, "Intact")
          BY <2>1, Zenon DEF Parse, Authentic
        <4> QED
          BY <2>1, <2>4, <4>1, Zenon DEF Open, Delivers
      <3> QED
        BY <1>3, <2>1, <2>4, <3>1, Zenon DEF RejectsNext, Outcome, Types
    <2>5. CASE UNCHANGED <<opener, opened, sealer, wire, nonces, reused>>
      BY <2>1, <2>5, Zenon DEF Idles, MayDisturb, Outcome, Types
    <2> QED
      BY <2>1, <2>3, <2>4, <2>5, OpenCases, Zenon
  <1>4. CASE ~ReadDue /\ OpenPartial
    <2>1. /\ ~opener.poisoned /\ Open(wire[Len(opened) + 1], "Partial")
          /\ faults' = faults /\ disturbed' = disturbed
      BY <1>4, Zenon DEF OpenPartial
    <2>2. Parse(opener, "Partial") = "Incomplete"
      BY <2>1, Zenon DEF Parse
    <2>3. Idles
      BY <2>1, <2>2, Zenon DEF Open, Idles, MayDisturb, Types
    <2> QED
      BY <2>1, <2>3, Zenon DEF Outcome, Types
  <1>5. ASSUME NEW i \in 1 .. Len(wire), NEW input \in Inputs, ~ReadDue, OpenOther(i, input)
        PROVE  Outcome /\ faults' \in Nat
    <2>1. Open(wire[i], input) /\ disturbed' = TRUE /\ faults' \in Nat
      BY <1>5 DEF OpenOther, Types
    <2>2. Delivers(wire[i]) => DeliversAt(i)
      BY <1>5, <2>1, Zenon DEF DeliversAt, MayDisturb
    <2>3. UNCHANGED <<opener, opened, sealer, wire, nonces, reused>> => Idles
      BY <2>1, Zenon DEF Idles, MayDisturb
    <2> QED
      BY <1>5, <2>1, <2>2, <2>3, OpenCases, Zenon DEF Outcome
  <1>6. CASE InstallRead
    BY <1>6, Zenon DEF InstallRead, Outcome, Types
  <1>7. CASE UNCHANGED vars
    BY <1>7, Zenon DEF vars, Idles, MayDisturb, Outcome, Types
  <1> QED
    BY <1>1, <1>2, <1>3, <1>4, <1>5, <1>6, <1>7, Zenon DEF Next

\* A delivered record is appended to what was opened, and the Opener goes on at
\* the position that follows it.
LEMMA DeliversEffect ==
    ASSUME Types, NEW k \in 1 .. Len(wire), Delivers(wire[k])
    PROVE  /\ opener' \in [gen : Nat, seq : Nat, poisoned : BOOLEAN]
           /\ opener'.gen = opener.gen /\ opener'.seq = opener.seq + 1
           /\ opener'.poisoned = (wire[k].kind = "ChangeCipherSpec")
           /\ opened' \in Seq(Records)
           /\ wire[k].kind = "ChangeCipherSpec" => opened' = opened
           /\ wire[k].kind # "ChangeCipherSpec" =>
                 /\ Len(opened') = Len(opened) + 1
                 /\ \A j \in 1 .. Len(opened) : opened'[j] = opened[j]
                 /\ opened'[Len(opened) + 1] = wire[k]
                 /\ ReadNext' = After(wire[k])
           /\ WriteNext' = WriteNext
  <1> DEFINE r == wire[k]
  <1>1. r \in Records /\ opened \in Seq(Records) /\ opener.gen \in Nat /\ opener.seq \in Nat
    BY WireTypes, Zenon DEF Types
  <1>2. /\ r.gen = opener.gen /\ r.seq = opener.seq
        /\ opener' = [opener EXCEPT !.seq = @ + 1, !.poisoned = r.kind = "ChangeCipherSpec"]
        /\ opened' = IF r.kind = "ChangeCipherSpec" THEN opened ELSE Append(opened, r)
        /\ wire' = wire /\ sealer' = sealer
    BY Zenon DEF Delivers
  <1> HIDE DEF r
  <1>3. /\ opener' \in [gen : Nat, seq : Nat, poisoned : BOOLEAN]
        /\ opener'.gen = opener.gen /\ opener'.seq = opener.seq + 1
        /\ opener'.poisoned = (r.kind = "ChangeCipherSpec")
    <2> DEFINE p == (r.kind = "ChangeCipherSpec")
    <2>1. p \in BOOLEAN /\ opener' = [opener EXCEPT !.seq = @ + 1, !.poisoned = p]
      BY <1>2, Zenon
    <2> HIDE DEF p
    <2>2. opener' = [gen |-> opener.gen, seq |-> opener.seq + 1, poisoned |-> p]
      BY <2>1, Zenon DEF Types
    <2>3. opener' \in [gen : Nat, seq : Nat, poisoned : BOOLEAN]
      BY <1>1, <2>1, <2>2
    <2>4. /\ opener'.gen = opener.gen /\ opener'.seq = opener.seq + 1
          /\ opener'.poisoned = p
      BY <2>2, Zenon
    <2> QED
      BY <2>3, <2>4, Zenon DEF p
  <1>4. ASSUME r.kind # "ChangeCipherSpec"
        PROVE  /\ Len(opened') = Len(opened) + 1
               /\ \A j \in 1 .. Len(opened) : opened'[j] = opened[j]
               /\ opened'[Len(opened) + 1] = r
               /\ opened' \in Seq(Records)
               /\ opened' # <<>>
    BY <1>1, <1>2, <1>4, SMTT(30)
  <1>5. ASSUME r.kind # "ChangeCipherSpec" PROVE ReadNext' = After(r)
    <2>1. ReadDue' <=> r.kind = "KeyUpdate"
      BY <1>2, <1>3, <1>4, <1>5, Zenon DEF ReadDue
    <2> QED
      BY <1>2, <1>3, <2>1, Zenon DEF ReadNext, After
  <1>6. WriteNext' = WriteNext
    BY <1>2, ReceiverLeaves, Zenon
  <1> QED
    BY <1>1, <1>2, <1>3, <1>4, <1>5, <1>6, Zenon DEF r

----------------------------------------------------------------------------
\* Every variable of the record layer keeps its type.
LEMMA TypesStep == Types /\ [Next]_vars => Types'
  <1> SUFFICES ASSUME Types, [Next]_vars PROVE Types'
    BY Zenon
  <1>0. Outcome /\ faults' \in Nat
    BY StepOutcome, Zenon
  <1>1. ASSUME NEW kind \in Kinds, ~WriteDue, Seals(kind) PROVE Types'
    <2>1. nonces' \subseteq Nat \X Nat /\ reused' \in BOOLEAN
      BY <1>1, WireTypes, SMTT(30) DEF Seals, SealPlaintext, Types
    <2>2. sealer' \in [gen : Nat, seq : Nat] /\ wire' \in Seq(Records)
      BY <1>1, SealsEffect, Zenon
    <2> QED
      BY <1>0, <1>1, <2>1, <2>2, Zenon DEF Seals, Types
  <1>2. CASE Burns
    <2>1. nonces' \subseteq Nat \X Nat /\ reused' \in BOOLEAN
      BY <1>2, WireTypes, SMTT(30) DEF Burns, SealPlaintext, Types
    <2>2. sealer' \in [gen : Nat, seq : Nat]
      BY <1>2, SealerAdvances, Zenon DEF Burns
    <2> QED
      BY <1>0, <1>2, <2>1, <2>2, Zenon DEF Burns, Types
  <1>3. CASE InstallWrite
    BY <1>0, <1>3, WireTypes, SMTT(30) DEF InstallWrite, Types
  <1>4. CASE Rejects /\ disturbed' \in BOOLEAN
    BY <1>0, <1>4, Zenon DEF Rejects, Types
  <1>5. ASSUME NEW k \in 1 .. Len(wire), DeliversAt(k) PROVE Types'
    <2>1. Delivers(wire[k]) /\ disturbed' \in BOOLEAN
      BY <1>5, Zenon DEF DeliversAt, MayDisturb
    <2>2. opener' \in [gen : Nat, seq : Nat, poisoned : BOOLEAN] /\ opened' \in Seq(Records)
      BY <2>1, DeliversEffect, Zenon
    <2> QED
      BY <1>0, <2>1, <2>2, Zenon DEF Delivers, Types
  <1>6. CASE InstallRead
    BY <1>0, <1>6, WireTypes, SMTT(30) DEF InstallRead, Types
  <1>7. CASE Idles
    BY <1>0, <1>7, Zenon DEF Idles, MayDisturb, Types
  <1>8. RejectsNext => Rejects /\ disturbed' \in BOOLEAN
    BY Zenon DEF RejectsNext, Types
  <1> QED
    BY <1>0, <1>1, <1>2, <1>3, <1>4, <1>5, <1>6, <1>7, <1>8, Zenon DEF Outcome

\* The types hold throughout.
LEMMA TypesHold == Spec => []Types
  <1>1. Init => Types
    <2> SUFFICES ASSUME Init PROVE Types
      BY Zenon
    <2>1. /\ sealer \in [gen : Nat, seq : Nat]
          /\ opener \in [gen : Nat, seq : Nat, poisoned : BOOLEAN]
      BY Zenon DEF Init
    <2>2. wire \in Seq(Records) /\ opened \in Seq(Records)
      BY DEF Init
    <2>3. nonces \subseteq Nat \X Nat /\ reused \in BOOLEAN /\ disturbed \in BOOLEAN
      BY Zenon DEF Init
    <2>4. faults \in Nat
      BY Zenon DEF Init
    <2> QED
      BY <2>1, <2>2, <2>3, <2>4, Zenon DEF Types
  <1> QED
    BY <1>1, TypesStep, PTL DEF Spec

----------------------------------------------------------------------------
\* No key and sequence number are used twice by the AEAD, whatever seals are
\* refused or fail and whenever the key is replaced (seal_plaintext).
THEOREM NoncesNeverReused == Spec => []NonceNeverReused
  <1>1. Init => NoncesBehind
    BY Zenon DEF Init, NoncesBehind
  <1>2. Types /\ NoncesBehind /\ [Next]_vars => NoncesBehind'
    <2> SUFFICES ASSUME Types, NoncesBehind, [Next]_vars PROVE NoncesBehind'
      BY Zenon
    <2>0. Outcome /\ sealer.gen \in Nat /\ sealer.seq \in Nat /\ nonces \subseteq Nat \X Nat
      BY StepOutcome, WireTypes, Zenon DEF Types
    <2>1. ASSUME NEW fault, SealPlaintext(fault) PROVE NoncesBehind'
      <3>1. sealer'.gen = sealer.gen /\ sealer'.seq = sealer.seq + 1
        BY <2>1, Zenon DEF SealPlaintext, Types
      <3>2. <<sealer.gen, sealer.seq>> \notin nonces
        BY <2>0 DEF NoncesBehind
      <3>3. ~reused' /\ nonces' = nonces \cup {<<sealer.gen, sealer.seq>>}
        BY <2>1, <3>2, Zenon DEF SealPlaintext, NoncesBehind
      <3> QED
        BY <2>0, <3>1, <3>3 DEF NoncesBehind
    <2>2. CASE InstallWrite
      <3>1. /\ sealer' = [gen |-> sealer.gen + 1, seq |-> 0]
            /\ nonces' = nonces /\ reused' = reused
        BY <2>2, Zenon DEF InstallWrite
      <3>2. sealer'.gen = sealer.gen + 1
        BY <3>1, Zenon
      <3>3. \A n \in nonces : n[1] \in Nat
        BY <2>0, Zenon
      <3> QED
        BY <2>0, <3>1, <3>2, <3>3 DEF NoncesBehind
    <2>3. CASE UNCHANGED <<sealer, nonces, reused>>
      BY <2>3, Zenon DEF NoncesBehind
    <2>4. \/ \E fault : SealPlaintext(fault)
          \/ InstallWrite
          \/ UNCHANGED <<sealer, nonces, reused>>
      BY <2>0, Zenon DEF Outcome, Seals, Burns, Rejects, RejectsNext, DeliversAt, Delivers,
                  InstallRead, Idles
    <2> QED
      BY <2>1, <2>2, <2>3, <2>4, Zenon
  <1>3. NoncesBehind => NonceNeverReused
    BY Zenon DEF NoncesBehind, NonceNeverReused
  <1> QED
    BY <1>1, <1>2, <1>3, TypesHold, PTL DEF Spec

----------------------------------------------------------------------------
\* The order of the wire is kept by every step.
LEMMA WireOrderedStep == Types /\ WireOrdered /\ [Next]_vars => WireOrdered'
  <1> SUFFICES ASSUME Types, WireOrdered, [Next]_vars PROVE WireOrdered'
    BY Zenon
  <1>0. /\ Outcome /\ Len(wire) \in Nat /\ sealer.gen \in Nat /\ sealer.seq \in Nat
        /\ \A k \in 1 .. Len(wire) : wire[k].gen \in Nat /\ wire[k].seq \in Nat
    BY StepOutcome, WireTypes, Zenon
  <1>1. ASSUME NEW kind \in Kinds, ~WriteDue, Seals(kind) PROVE WireOrdered'
    <2> DEFINE n == Len(wire) + 1
    <2>1. /\ Len(wire') = n
          /\ \A k \in 1 .. Len(wire) : wire'[k] = wire[k]
          /\ wire'[n].gen = sealer.gen /\ wire'[n].seq = sealer.seq /\ wire'[n].kind = kind
          /\ sealer'.gen = sealer.gen /\ sealer'.seq = sealer.seq + 1
          /\ WriteNext.gen = sealer.gen
          /\ WriteNext' = After(wire'[n])
      <3>1. /\ wire'[n] = [kind |-> kind, gen |-> sealer.gen, seq |-> sealer.seq]
            /\ WriteNext = [gen |-> sealer.gen, seq |-> sealer.seq]
        BY <1>1, SealsEffect, Zenon
      <3>2. /\ wire'[n].gen = sealer.gen /\ wire'[n].seq = sealer.seq /\ wire'[n].kind = kind
            /\ WriteNext.gen = sealer.gen
        BY <3>1
      <3> QED
        BY <1>1, <3>2, SealsEffect, Zenon
    <2>2. sealer.seq < AEAD_CONFIDENTIALITY_LIMIT
      BY <1>1, Zenon DEF Seals, CheckSeq
    <2>3. /\ kind = "KeyUpdate" => WriteNext'.gen = sealer.gen + 1
          /\ kind # "KeyUpdate" => WriteNext'.gen = sealer.gen
      BY <2>1, Zenon DEF After
    <2>4. \A k \in 1 .. Len(wire') : k \in 1 .. Len(wire) \/ k = n
      BY <1>0, <2>1
    <2> HIDE DEF n
    <2>5. \A k \in 1 .. Len(wire') : Before(wire'[k], sealer')
      <3> TAKE k \in 1 .. Len(wire')
      <3>1. CASE k = n
        BY <1>0, <2>1, <3>1 DEF Before
      <3>2. CASE k \in 1 .. Len(wire)
        <4>1. Before(wire[k], sealer) /\ wire'[k] = wire[k]
          BY <2>1, <3>2, Zenon DEF WireOrdered
        <4> QED
          BY <1>0, <2>1, <3>2, <4>1, SMTT(30) DEF Before
      <3> QED
        BY <2>4, <3>1, <3>2, Zenon
    <2>6. \A k \in 1 .. Len(wire') : wire'[k].seq < AEAD_CONFIDENTIALITY_LIMIT
      BY <1>0, <2>1, <2>2, <2>4, Zenon DEF WireOrdered
    <2>7. \A j, k \in 1 .. Len(wire') : j < k => Before(wire'[j], wire'[k])
      <3> TAKE j, k \in 1 .. Len(wire')
      <3> HAVE j < k
      <3>1. j \in 1 .. Len(wire)
        BY <1>0, <2>1, <2>4 DEF n
      <3>2. CASE k = n
        BY <1>0, <2>1, <3>1, <3>2, ZenonT(40) DEF WireOrdered, Before
      <3>3. CASE k \in 1 .. Len(wire)
        BY <1>0, <2>1, <3>1, <3>3, Zenon DEF WireOrdered
      <3> QED
        BY <2>4, <3>2, <3>3, Zenon
    <2>8. \A j, k \in 1 .. Len(wire') :
             j < k /\ wire'[j].kind = "KeyUpdate" => wire'[j].gen < wire'[k].gen
      <3> TAKE j, k \in 1 .. Len(wire')
      <3> HAVE j < k /\ wire'[j].kind = "KeyUpdate"
      <3>1. j \in 1 .. Len(wire)
        BY <1>0, <2>1, <2>4 DEF n
      <3>2. CASE k = n
        BY <1>0, <2>1, <3>1, <3>2, Zenon DEF WireOrdered
      <3>3. CASE k \in 1 .. Len(wire)
        BY <1>0, <2>1, <3>1, <3>3, Zenon DEF WireOrdered
      <3> QED
        BY <2>4, <3>2, <3>3, Zenon
    <2>9. \A k \in 1 .. Len(wire') : wire'[k].kind = "KeyUpdate" => wire'[k].gen < WriteNext'.gen
      <3> TAKE k \in 1 .. Len(wire')
      <3> HAVE wire'[k].kind = "KeyUpdate"
      <3>1. WriteNext'.gen \in {sealer.gen, sealer.gen + 1}
        BY <2>3, Zenon
      <3>2. CASE k = n
        BY <1>0, <2>1, <2>3, <3>2, SMTT(30)
      <3>3. CASE k \in 1 .. Len(wire)
        BY <1>0, <2>1, <3>1, <3>3, SMTT(30) DEF WireOrdered
      <3> QED
        BY <2>4, <3>2, <3>3, Zenon
    <2>10. \A k \in 1 .. Len(wire') : wire'[k].gen < k
      BY <1>0, <2>1, <2>4 DEF WireOrdered, n
    <2>11. sealer'.gen <= Len(wire')
      BY <1>0, <2>1 DEF WireOrdered, n
    <2> QED
      BY <2>5, <2>6, <2>7, <2>8, <2>9, <2>10, <2>11, Zenon DEF WireOrdered
  <1>2. CASE ~WriteDue /\ Burns
    <2>1. /\ sealer'.gen = sealer.gen /\ sealer'.seq = sealer.seq + 1
          /\ wire' = wire
      BY <1>2, Zenon DEF Burns, SealPlaintext, Types
    <2>2. WriteNext'.gen = WriteNext.gen
      BY <1>2, <2>1, Zenon DEF WriteNext, WriteDue
    <2>3. \A k \in 1 .. Len(wire') : Before(wire'[k], sealer')
      BY <1>0, <2>1, SMTT(30) DEF WireOrdered, Before
    <2> QED
      BY <2>1, <2>2, <2>3, Zenon DEF WireOrdered
  <1>3. CASE InstallWrite
    <2>1. /\ sealer'.gen = sealer.gen + 1 /\ sealer'.seq = 0
          /\ wire' = wire /\ wire # <<>>
          /\ wire[Len(wire)].gen = sealer.gen
          /\ WriteNext' = WriteNext
      BY <1>3, InstallWriteEffect, Zenon DEF InstallWrite
    <2>2. Len(wire) \in 1 .. Len(wire)
      BY <2>1, <1>0 DEF Types
    <2>3. \A k \in 1 .. Len(wire') : Before(wire'[k], sealer')
      BY <1>0, <2>1, SMTT(30) DEF WireOrdered, Before
    <2>4. sealer'.gen <= Len(wire')
      BY <1>0, <2>1, <2>2 DEF WireOrdered
    <2> QED
      BY <2>1, <2>3, <2>4, Zenon DEF WireOrdered
  <1>4. CASE UNCHANGED <<sealer, wire>>
    BY <1>4, ReceiverLeaves, Zenon DEF WireOrdered
  <1>5. \/ \E kind \in Kinds : ~WriteDue /\ Seals(kind)
        \/ ~WriteDue /\ Burns
        \/ InstallWrite
        \/ UNCHANGED <<sealer, wire>>
    BY <1>0, Zenon DEF Outcome, Rejects, RejectsNext, DeliversAt, Delivers, InstallRead, Idles
  <1> QED
    BY <1>1, <1>2, <1>3, <1>4, <1>5, Zenon

\* Positions are ordered: what is before q is before anything not before q.
LEMMA BeforeTransitive ==
    ASSUME NEW p, NEW q, NEW r,
           p.gen \in Nat, p.seq \in Nat, q.gen \in Nat, q.seq \in Nat, r.gen \in Nat, r.seq \in Nat,
           Before(p, q), ~Before(r, q)
    PROVE  Before(p, r)
  <1>1. \A pg, ps, qg, qs, rg, rs \in Nat :
           /\ pg < qg \/ (pg = qg /\ ps < qs)
           /\ ~(rg < qg \/ (rg = qg /\ rs < qs))
           => pg < rg \/ (pg = rg /\ ps < rs)
    OBVIOUS
  <1>2. /\ p.gen < q.gen \/ (p.gen = q.gen /\ p.seq < q.seq)
        /\ ~(r.gen < q.gen \/ (r.gen = q.gen /\ r.seq < q.seq))
        => p.gen < r.gen \/ (p.gen = r.gen /\ p.seq < r.seq)
    BY <1>1
  <1> QED
    BY <1>2, Zenon DEF Before

\* The positions the two sides go on from are positions, and the Sealer's is
\* not before where the Sealer stands.
LEMMA NextTypes ==
    ASSUME Types
    PROVE  /\ WriteNext.gen \in Nat /\ WriteNext.seq \in Nat
           /\ ReadNext.gen \in Nat /\ ReadNext.seq \in Nat
           /\ ~Before(WriteNext, sealer)
           /\ ReadDue => ReadNext.gen = opener.gen + 1
           /\ ~ReadDue => ReadNext.gen = opener.gen /\ ReadNext.seq = opener.seq
  <1>1. /\ sealer.gen \in Nat /\ sealer.seq \in Nat
        /\ opener.gen \in Nat /\ opener.seq \in Nat
    BY WireTypes, Zenon
  <1>2. /\ WriteDue => WriteNext.gen = sealer.gen + 1 /\ WriteNext.seq = 0
        /\ ~WriteDue => WriteNext.gen = sealer.gen /\ WriteNext.seq = sealer.seq
    BY Zenon DEF WriteNext
  <1>3. /\ ReadDue => ReadNext.gen = opener.gen + 1 /\ ReadNext.seq = 0
        /\ ~ReadDue => ReadNext.gen = opener.gen /\ ReadNext.seq = opener.seq
    BY Zenon DEF ReadNext
  <1> QED
    BY <1>1, <1>2, <1>3 DEF Before

\* Only the next record of the wire is authentic at the position of a live
\* Opener, wherever in the wire the transport takes its record from.
LEMMA DeliversNext ==
    ASSUME Types, WireOrdered, OpenedPrefix, OpenerBetween,
           NEW k \in 1 .. Len(wire), Delivers(wire[k])
    PROVE  k = Len(opened) + 1 /\ ~ReadDue
  <1>1. /\ ~opener.poisoned
        /\ wire[k].gen = opener.gen /\ wire[k].seq = opener.seq
    BY Zenon DEF Delivers
  <1>2. /\ Len(wire) \in Nat /\ Len(opened) \in Nat
        /\ opener.gen \in Nat /\ opener.seq \in Nat
    BY WireTypes, Zenon
  <1>3. ~Before(wire[k], opener)
    BY <1>1, <1>2 DEF Before
  <1>4. k > Len(opened)
    BY <1>1, <1>2, <1>3 DEF OpenerBetween
  <1>5. ~Before(wire[k], ReadNext)
    BY <1>1, <1>4, Zenon DEF OpenerBetween
  <1>6. ~ReadDue /\ ReadNext.gen = opener.gen /\ ReadNext.seq = opener.seq
    BY <1>1, <1>2, <1>5, NextTypes, SMTT(30) DEF Before
  <1>7. ASSUME k # Len(opened) + 1 PROVE FALSE
    <2> DEFINE n == Len(opened) + 1
    <2>1. n \in 1 .. Len(wire) /\ n < k /\ n > Len(opened)
      BY <1>2, <1>4, <1>7
    <2>2. Before(wire[n], wire[k])
      BY <2>1, Zenon DEF WireOrdered
    <2>3. ~Before(wire[n], ReadNext)
      BY <1>1, <2>1, Zenon DEF OpenerBetween
    <2> QED
      BY <1>1, <1>6, <2>2, <2>3, Zenon DEF Before
  <1> QED
    BY <1>6, <1>7, Zenon

\* No Opener fails between a KeyUpdate and its replacement: nothing is opened
\* while the new key is due.
LEMMA DueIsLiveStep == Types /\ DueIsLive /\ [Next]_vars => DueIsLive'
  <1> SUFFICES ASSUME Types, DueIsLive, [Next]_vars PROVE DueIsLive'
    BY Zenon
  <1>0. Outcome
    BY StepOutcome, Zenon
  <1>1. CASE UNCHANGED <<opener, opened>>
    BY <1>1, Zenon DEF DueIsLive, ReadDue
  <1>2. CASE Rejects /\ ~ReadDue
    <2>1. opened' = opened /\ opener'.gen = opener.gen
      BY <1>2, Zenon DEF Rejects, Types
    <2> QED
      BY <1>2, <2>1, Zenon DEF DueIsLive, ReadDue
  <1>3. ASSUME NEW k \in 1 .. Len(wire), Delivers(wire[k]), ~ReadDue PROVE DueIsLive'
    <2>1. /\ opener'.gen = opener.gen
          /\ opener'.poisoned = (wire[k].kind = "ChangeCipherSpec")
          /\ wire[k].kind = "ChangeCipherSpec" => opened' = opened
      BY <1>3, DeliversEffect, Zenon
    <2> QED
      BY <1>3, <2>1, Zenon DEF DueIsLive, ReadDue
  <1>4. CASE InstallRead
    <2>1. opener'.poisoned = FALSE
      BY <1>4, Zenon DEF InstallRead
    <2> QED
      BY <2>1, Zenon DEF DueIsLive
  <1> QED
    BY <1>0, <1>1, <1>2, <1>3, <1>4, Zenon
       DEF Outcome, Seals, Burns, InstallWrite, RejectsNext, DeliversAt, Idles

\* The Opener stays between what was opened and what was not.
LEMMA OpenerStep ==
    Types /\ WireOrdered /\ OpenedPrefix /\ OpenerBetween /\ DueIsLive /\ [Next]_vars
        => OpenedPrefix' /\ OpenerBetween'
  <1> SUFFICES ASSUME Types, WireOrdered, OpenedPrefix, OpenerBetween, DueIsLive, [Next]_vars
               PROVE  OpenedPrefix' /\ OpenerBetween'
    BY Zenon
  <1>0. /\ Outcome /\ Len(wire) \in Nat /\ Len(opened) \in Nat
        /\ sealer.gen \in Nat /\ sealer.seq \in Nat
        /\ opener.gen \in Nat /\ opener.seq \in Nat
        /\ \A k \in 1 .. Len(wire) : wire[k].gen \in Nat /\ wire[k].seq \in Nat
    BY StepOutcome, WireTypes, Zenon
  <1>N. /\ WriteNext.gen \in Nat /\ WriteNext.seq \in Nat
        /\ ReadNext.gen \in Nat /\ ReadNext.seq \in Nat
    BY NextTypes, Zenon
  <1>1. ASSUME NEW kind \in Kinds, ~WriteDue, Seals(kind) PROVE OpenedPrefix' /\ OpenerBetween'
    <2> DEFINE n == Len(wire) + 1
    <2>1. /\ Len(wire') = n /\ ReadNext' = ReadNext
          /\ \A k \in 1 .. Len(wire) : wire'[k] = wire[k]
          /\ wire'[n] = [kind |-> kind, gen |-> sealer.gen, seq |-> sealer.seq]
          /\ WriteNext = [gen |-> sealer.gen, seq |-> sealer.seq]
          /\ WriteNext' = After(wire'[n])
          /\ opener' = opener /\ opened' = opened
      BY <1>1, SealsEffect, Zenon DEF Seals
    <2>2. /\ wire'[n].gen = WriteNext.gen /\ wire'[n].seq = WriteNext.seq
          /\ WriteNext'.gen = WriteNext.gen + 1 \/ (/\ WriteNext'.gen = WriteNext.gen
                                                   /\ WriteNext'.seq = WriteNext.seq + 1)
      <3>1. /\ wire'[n].gen = sealer.gen /\ wire'[n].seq = sealer.seq
            /\ WriteNext.gen = sealer.gen /\ WriteNext.seq = sealer.seq
        BY <2>1
      <3>2. \/ WriteNext' = [gen |-> wire'[n].gen + 1, seq |-> 0]
            \/ WriteNext' = [gen |-> wire'[n].gen, seq |-> wire'[n].seq + 1]
        BY <2>1, Zenon DEF After
      <3> QED
        BY <3>1, <3>2
    <2>3. \A k \in 1 .. Len(wire') : k \in 1 .. Len(wire) \/ k = n
      BY <1>0, <2>1
    <2> HIDE DEF n
    <2>4. \A k \in 1 .. Len(opened) : k \in 1 .. Len(wire)
      BY <1>0 DEF OpenedPrefix
    <2>5. OpenedPrefix'
      BY <1>0, <2>1, <2>4 DEF OpenedPrefix, n
    <2>6. ASSUME ~opener'.poisoned
          PROVE  /\ \A k \in 1 .. Len(opened') : Before(wire'[k], opener')
                 /\ \A k \in 1 .. Len(wire') : k > Len(opened') => ~Before(wire'[k], ReadNext')
                 /\ ~Before(WriteNext', ReadNext')
      <3>1. /\ \A k \in 1 .. Len(opened) : Before(wire[k], opener)
            /\ \A k \in 1 .. Len(wire) : k > Len(opened) => ~Before(wire[k], ReadNext)
            /\ ~Before(WriteNext, ReadNext)
        BY <2>1, <2>6, Zenon DEF OpenerBetween
      <3>2. \A k \in 1 .. Len(opened') : Before(wire'[k], opener')
        BY <2>1, <2>4, <3>1, Zenon
      <3>3. ~Before(wire'[n], ReadNext')
        BY <2>1, <2>2, <3>1, Zenon DEF Before
      <3>4. \A k \in 1 .. Len(wire') : k > Len(opened') => ~Before(wire'[k], ReadNext')
        BY <2>1, <2>3, <3>1, <3>3, Zenon
      <3>5. ~Before(WriteNext', ReadNext')
        BY <1>N, <2>1, <2>2, <3>1 DEF Before
      <3> QED
        BY <3>2, <3>4, <3>5, Zenon
    <2> QED
      BY <2>5, <2>6, Zenon DEF OpenerBetween
  <1>2. CASE ~WriteDue /\ Burns
    <2>1. /\ sealer'.gen = sealer.gen /\ sealer'.seq = sealer.seq + 1
          /\ wire' = wire /\ opened' = opened /\ opener' = opener
      BY <1>2, Zenon DEF Burns, SealPlaintext, Types
    <2>2. ReadNext' = ReadNext
      BY <2>1, Zenon DEF ReadNext, ReadDue
    <2>3. WriteNext'.gen = WriteNext.gen /\ WriteNext'.seq = WriteNext.seq + 1
      BY <1>2, <2>1, Zenon DEF WriteNext, WriteDue
    <2>4. ~opener.poisoned => ~Before(WriteNext', ReadNext')
      BY <1>N, <2>2, <2>3 DEF OpenerBetween, Before
    <2> QED
      BY <2>1, <2>2, <2>4, Zenon DEF OpenedPrefix, OpenerBetween
  <1>3. CASE InstallWrite
    <2>1. /\ WriteNext' = WriteNext /\ ReadNext' = ReadNext
          /\ wire' = wire /\ opened' = opened /\ opener' = opener
      BY <1>3, InstallWriteEffect, Zenon DEF InstallWrite
    <2> QED
      BY <2>1, Zenon DEF OpenedPrefix, OpenerBetween
  <1>4. CASE Rejects
    <2>1. wire' = wire /\ opened' = opened /\ opener'.poisoned
      BY <1>4, Zenon DEF Rejects, Types
    <2> QED
      BY <2>1, Zenon DEF OpenedPrefix, OpenerBetween
  <1>5. ASSUME NEW k \in 1 .. Len(wire), Delivers(wire[k]) PROVE OpenedPrefix' /\ OpenerBetween'
    <2>1. /\ k = Len(opened) + 1 /\ ~ReadDue /\ ~opener.poisoned /\ wire' = wire
          /\ wire[k].gen = opener.gen /\ wire[k].seq = opener.seq
      BY <1>5, DeliversNext, Zenon DEF Delivers
    <2>2. CASE wire[k].kind = "ChangeCipherSpec"
      <3>1. opened' = opened /\ opener'.poisoned
        BY <1>5, <2>2, DeliversEffect, Zenon
      <3> QED
        BY <2>1, <3>1, Zenon DEF OpenedPrefix, OpenerBetween
    <2>3. CASE wire[k].kind # "ChangeCipherSpec"
      <3>1. /\ Len(opened') = k
            /\ \A j \in 1 .. Len(opened) : opened'[j] = opened[j]
            /\ opened'[k] = wire[k]
            /\ ReadNext' = After(wire[k]) /\ WriteNext' = WriteNext
            /\ opener'.gen = opener.gen /\ opener'.seq = opener.seq + 1
        BY <1>5, <2>1, <2>3, DeliversEffect, Zenon
      <3>2. \A j \in 1 .. k : j \in 1 .. Len(opened) \/ j = k
        BY <1>0, <2>1
      <3>3. OpenedPrefix'
        BY <2>1, <3>1, <3>2 DEF OpenedPrefix
      <3>4. \A j \in 1 .. k : Before(wire[j], opener')
        <4>1. ASSUME NEW j \in 1 .. Len(opened) PROVE Before(wire[j], opener')
          <5>1. Before(wire[j], opener) /\ j \in 1 .. Len(wire)
            BY <1>0, <2>1, SMTT(30) DEF OpenerBetween, OpenedPrefix
          <5> QED
            BY <1>0, <3>1, <5>1, SMTT(30) DEF Before
        <4>2. Before(wire[k], opener')
          BY <1>0, <2>1, <3>1 DEF Before
        <4> QED
          BY <3>2, <4>1, <4>2, Zenon
      <3>5. /\ wire[k].kind = "KeyUpdate" => ReadNext'.gen = wire[k].gen + 1 /\ ReadNext'.seq = 0
            /\ wire[k].kind # "KeyUpdate" =>
                  ReadNext'.gen = wire[k].gen /\ ReadNext'.seq = wire[k].seq + 1
        BY <3>1, Zenon DEF After
      <3>6. ASSUME NEW j \in 1 .. Len(wire), j > k PROVE ~Before(wire[j], ReadNext')
        <4>1. /\ Before(wire[k], wire[j])
              /\ wire[k].kind = "KeyUpdate" => wire[k].gen < wire[j].gen
          BY <3>6, Zenon DEF WireOrdered
        <4> QED
          BY <1>0, <3>5, <4>1, SMTT(30) DEF Before
      <3>7. ~Before(WriteNext', ReadNext')
        <4>1. /\ Before(wire[k], sealer) /\ ~Before(WriteNext, sealer)
              /\ wire[k].kind = "KeyUpdate" => wire[k].gen < WriteNext.gen
          BY NextTypes, Zenon DEF WireOrdered
        <4>2. wire[k].gen \in Nat /\ wire[k].seq \in Nat
          BY <1>0, Zenon
        <4>3. Before(wire[k], WriteNext)
          BY <1>0, <1>N, <4>1, <4>2, BeforeTransitive, SMTT(30)
        <4>4. WriteNext'.gen = WriteNext.gen /\ WriteNext'.seq = WriteNext.seq
          BY <3>1, Zenon
        <4>5. CASE wire[k].kind = "KeyUpdate"
          BY <1>N, <3>5, <4>1, <4>2, <4>4, <4>5, SMTT(30) DEF Before
        <4>6. CASE wire[k].kind # "KeyUpdate"
          BY <1>N, <3>5, <4>2, <4>3, <4>4, <4>6, SMTT(30) DEF Before
        <4> QED
          BY <4>5, <4>6, Zenon
      <3> QED
        BY <2>1, <3>1, <3>3, <3>4, <3>6, <3>7, Zenon DEF OpenerBetween
    <2> QED
      BY <2>2, <2>3, Zenon
  <1>6. CASE InstallRead
    <2>1. /\ opener' = [gen |-> opener.gen + 1, seq |-> 0, poisoned |-> FALSE]
          /\ ~opener.poisoned /\ WriteNext' = WriteNext /\ ReadNext' = ReadNext
          /\ wire' = wire /\ opened' = opened
      BY <1>6, InstallReadEffect, Zenon DEF InstallRead
    <2>2. opener'.gen = opener.gen + 1
      BY <2>1, Zenon
    <2>3. \A k \in 1 .. Len(opened) : Before(wire[k], opener) /\ k \in 1 .. Len(wire)
      BY <1>0, <2>1 DEF OpenerBetween, OpenedPrefix
    <2>4. \A k \in 1 .. Len(opened) : Before(wire[k], opener')
      <3> TAKE k \in 1 .. Len(opened)
      <3>1. Before(wire[k], opener) /\ wire[k].gen \in Nat /\ wire[k].seq \in Nat
        BY <1>0, <2>3, Zenon
      <3> QED
        BY <1>0, <2>2, <3>1, SMTT(30) DEF Before
    <2> QED
      BY <2>1, <2>4, Zenon DEF OpenedPrefix, OpenerBetween
  <1>7. CASE Idles
    <2>1. wire' = wire /\ opened' = opened /\ opener' = opener /\ sealer' = sealer
      BY <1>7, Zenon DEF Idles
    <2>2. WriteNext' = WriteNext /\ ReadNext' = ReadNext
      BY <2>1, Zenon DEF WriteNext, WriteDue, ReadNext, ReadDue
    <2> QED
      BY <2>1, <2>2, Zenon DEF OpenedPrefix, OpenerBetween
  <1> QED
    BY <1>0, <1>1, <1>2, <1>3, <1>4, <1>5, <1>6, <1>7, Zenon DEF Outcome, RejectsNext, DeliversAt

----------------------------------------------------------------------------
\* The order of the wire and the place of the Opener in it hold throughout.
LEMMA OrderHolds == Spec => [](Types /\ WireOrdered /\ OpenedPrefix /\ OpenerBetween /\ DueIsLive)
  <1>1. Init => WireOrdered /\ OpenedPrefix /\ OpenerBetween /\ DueIsLive
    <2> SUFFICES ASSUME Init PROVE WireOrdered /\ OpenedPrefix /\ OpenerBetween /\ DueIsLive
      BY Zenon
    <2>1. /\ wire = <<>> /\ opened = <<>> /\ Len(wire) = 0 /\ Len(opened) = 0
          /\ sealer = [gen |-> 0, seq |-> 0]
          /\ opener = [gen |-> 0, seq |-> 0, poisoned |-> FALSE]
      BY Zenon DEF Init
    <2>2. /\ sealer.gen = 0 /\ sealer.seq = 0 /\ opener.gen = 0 /\ opener.seq = 0
      BY <2>1, Zenon
    <2>3. WriteNext = [gen |-> 0, seq |-> 0] /\ ReadNext = [gen |-> 0, seq |-> 0]
      BY <2>1, <2>2, Zenon DEF WriteNext, ReadNext, WriteDue, ReadDue
    <2>4. ~Before(WriteNext, ReadNext)
      BY <2>3 DEF Before
    <2>5. DueIsLive
      BY <2>1, Zenon DEF DueIsLive
    <2> QED
      BY <2>1, <2>2, <2>4, <2>5 DEF WireOrdered, OpenedPrefix, OpenerBetween
  <1> QED
    BY <1>1, TypesHold, WireOrderedStep, OpenerStep, DueIsLiveStep, PTL DEF Spec

\* Whatever the transport loses, repeats, reorders or damages, whatever the
\* peer sealed and whenever keys change, the Sealer and the Opener implement
\* the abstract channel: what is delivered is the next record sealed, and once
\* an Opener is poisoned nothing more is delivered (Opener::open, open_body and
\* the poison flag).
THEOREM RefinesChannel == Spec => ImplementsChannel
  <1>1. Init => Secure!Init
    BY DEF Init, Secure!Init
  <1>2. Types /\ WireOrdered /\ OpenedPrefix /\ OpenerBetween /\ DueIsLive /\ [Next]_vars
            => [Secure!Next]_<<wire, opened, opener.poisoned>>
    <2> SUFFICES ASSUME Types, WireOrdered, OpenedPrefix, OpenerBetween, DueIsLive, [Next]_vars
                 PROVE  \/ Secure!Next
                        \/ UNCHANGED <<wire, opened, opener.poisoned>>
      BY Zenon
    <2>0. Outcome /\ Len(wire) \in Nat /\ sealer.gen \in Nat /\ sealer.seq \in Nat
      BY StepOutcome, WireTypes, Zenon
    <2>1. ASSUME NEW kind \in Kinds, Seals(kind) PROVE Secure!Write
      <3> DEFINE r == [kind |-> kind, gen |-> sealer.gen, seq |-> sealer.seq]
      <3>1. wire' = Append(wire, r) /\ opened' = opened /\ opener' = opener
        BY <2>1, Zenon DEF Seals
      <3>2. sealer.gen \in 0 .. MaxRecords
        BY <2>0, <2>1, RecordAssumption DEF Seals, WireOrdered
      <3>3. sealer.seq \in 0 .. AEAD_CONFIDENTIALITY_LIMIT - 1
        BY <2>0, <2>1, RecordAssumption DEF Seals, CheckSeq
      <3>4. r \in [kind : Kinds, gen : 0 .. MaxRecords, seq : 0 .. AEAD_CONFIDENTIALITY_LIMIT - 1]
        BY <3>2, <3>3, Zenon
      <3> QED
        BY <3>1, <3>4, Zenon DEF Secure!Write
    <2>2. CASE Rejects
      <3>1. wire' = wire /\ opened' = opened /\ opener'.poisoned = TRUE
        BY <2>2, Zenon DEF Rejects, Types
      <3> QED
        BY <3>1, Zenon DEF Secure!Next, Secure!Close
    <2>3. ASSUME NEW k \in 1 .. Len(wire), Delivers(wire[k]) PROVE Secure!Next
      <3>1. /\ k = Len(opened) + 1 /\ ~opener.poisoned /\ wire' = wire
            /\ opener'.poisoned = (wire[k].kind = "ChangeCipherSpec")
            /\ opened' = IF wire[k].kind = "ChangeCipherSpec" THEN opened
                         ELSE Append(opened, wire[k])
        BY <2>3, DeliversNext, DeliversEffect, Zenon DEF Delivers
      <3>2. opener.poisoned = FALSE
        BY <3>1, WireTypes, Zenon
      <3>3. CASE wire[k].kind = "ChangeCipherSpec"
        BY <3>1, <3>3, Zenon DEF Secure!Next, Secure!Close
      <3>4. CASE wire[k].kind # "ChangeCipherSpec"
        <4>1. opener'.poisoned = FALSE /\ opened' = Append(opened, wire[Len(opened) + 1])
          BY <3>1, <3>4, Zenon
        <4>2. Len(opened) < Len(wire)
          BY <2>0, <3>1, WireTypes
        <4> QED
          BY <3>1, <3>2, <4>1, <4>2, Zenon DEF Secure!Next, Secure!Deliver
      <3> QED
        BY <3>3, <3>4, Zenon
    <2>4. CASE InstallRead
      <3>1. /\ wire' = wire /\ opened' = opened /\ ~opener.poisoned
            /\ opener' = [gen |-> opener.gen + 1, seq |-> 0, poisoned |-> FALSE]
        BY <2>4, InstallReadEffect, Zenon DEF InstallRead
      <3>2. opener.poisoned = FALSE
        BY <3>1, WireTypes, Zenon
      <3>3. opener'.poisoned = FALSE
        BY <3>1, Zenon
      <3> QED
        BY <3>1, <3>2, <3>3, Zenon
    <2>5. CASE UNCHANGED <<wire, opened, opener>>
      BY <2>5, Zenon
    <2>6. \/ \E kind \in Kinds : Seals(kind)
          \/ Rejects
          \/ \E k \in 1 .. Len(wire) : Delivers(wire[k])
          \/ InstallRead
          \/ UNCHANGED <<wire, opened, opener>>
      BY <2>0, Zenon DEF Outcome, Burns, InstallWrite, RejectsNext, DeliversAt, Idles
    <2> QED
      BY <2>1, <2>2, <2>3, <2>4, <2>5, <2>6, Zenon DEF Secure!Next
  <1> QED
    BY <1>1, <1>2, OrderHolds, PTL DEF Spec, ImplementsChannel, Secure!Spec

----------------------------------------------------------------------------
\* Undisturbed, the wire gets no gap and the two sides stay where it ends and
\* where reading stopped.
LEMMA NoGapsStep ==
    Types /\ WireOrdered /\ OpenedPrefix /\ NoGaps /\ [Next]_vars => NoGaps'
  <1> SUFFICES ASSUME Types, WireOrdered, OpenedPrefix, NoGaps, [Next]_vars, ~disturbed'
               PROVE  /\ ~opener'.poisoned
                      /\ \A k \in 1 .. Len(wire') :
                            /\ wire'[k].kind # "ChangeCipherSpec"
                            /\ wire'[k].gen = PositionAt(k - 1)'.gen
                            /\ wire'[k].seq = PositionAt(k - 1)'.seq
                      /\ WriteNext' = PositionAt(Len(wire))'
                      /\ ReadNext' = PositionAt(Len(opened))'
    BY Zenon DEF NoGaps
  <1>0. Outcome /\ Len(wire) \in Nat /\ Len(opened) \in Nat /\ Len(opened) <= Len(wire)
    BY StepOutcome, WireTypes, Zenon DEF OpenedPrefix
  <1>1. ~disturbed
    BY <1>0, Zenon DEF Outcome, Seals, Burns, InstallWrite, RejectsNext, DeliversAt, InstallRead, Idles,
                MayDisturb, Types
  <1>2. /\ ~opener.poisoned
        /\ \A k \in 1 .. Len(wire) : /\ wire[k].kind # "ChangeCipherSpec"
                                     /\ wire[k].gen = PositionAt(k - 1).gen
                                     /\ wire[k].seq = PositionAt(k - 1).seq
        /\ WriteNext = PositionAt(Len(wire))
        /\ ReadNext = PositionAt(Len(opened))
    BY <1>1, Zenon DEF NoGaps
  <1>3. wire' = wire => \A k : PositionAt(k)' = PositionAt(k)
    BY Zenon DEF PositionAt
  <1>4. ASSUME NEW kind \in Kinds, ~WriteDue, Seals(kind)
        PROVE  /\ ~opener'.poisoned
               /\ \A k \in 1 .. Len(wire') :
                     /\ wire'[k].kind # "ChangeCipherSpec"
                     /\ wire'[k].gen = PositionAt(k - 1)'.gen
                     /\ wire'[k].seq = PositionAt(k - 1)'.seq
               /\ WriteNext' = PositionAt(Len(wire))'
               /\ ReadNext' = PositionAt(Len(opened))'
    <2> DEFINE n == Len(wire) + 1
               r == [kind |-> kind, gen |-> sealer.gen, seq |-> sealer.seq]
    <2>1. /\ Len(wire') = n /\ ReadNext' = ReadNext
          /\ \A k \in 1 .. Len(wire) : wire'[k] = wire[k]
          /\ wire'[n] = r
          /\ WriteNext = [gen |-> sealer.gen, seq |-> sealer.seq]
          /\ WriteNext' = After(wire'[n])
          /\ opener' = opener /\ opened' = opened
          /\ kind # "ChangeCipherSpec"
      BY <1>4, SealsEffect, Zenon DEF Seals
    <2>2. r.gen = WriteNext.gen /\ r.seq = WriteNext.seq /\ r.kind = kind
      BY <2>1, Zenon
    <2> HIDE DEF r
    <2>3. \A k \in 0 .. Len(wire) : PositionAt(k)' = PositionAt(k)
      BY <1>0, <2>1 DEF PositionAt
    <2>4. PositionAt(Len(wire))' = After(wire'[n])
      BY <1>0, <2>1 DEF PositionAt
    <2>5. ASSUME NEW k \in 1 .. Len(wire')
          PROVE  /\ wire'[k].kind # "ChangeCipherSpec"
                 /\ wire'[k].gen = PositionAt(k - 1)'.gen
                 /\ wire'[k].seq = PositionAt(k - 1)'.seq
      <3>1. k - 1 \in 0 .. Len(wire) /\ PositionAt(k - 1)' = PositionAt(k - 1)
        BY <1>0, <2>1, <2>3
      <3>2. CASE k = n
        <4>1. k - 1 = Len(wire)
          BY <1>0, <3>2
        <4> QED
          BY <1>2, <2>1, <2>2, <3>1, <3>2, <4>1, Zenon
      <3>3. CASE k \in 1 .. Len(wire)
        BY <1>2, <2>1, <3>1, <3>3, Zenon
      <3> QED
        BY <1>0, <2>1, <3>2, <3>3
    <2>6. ReadNext' = PositionAt(Len(opened))'
      <3>1. Len(opened) \in 0 .. Len(wire)
        BY <1>0
      <3> QED
        BY <1>2, <2>1, <2>3, <3>1, Zenon
    <2> QED
      BY <1>2, <2>1, <2>4, <2>5, <2>6, Zenon
  <1>5. CASE InstallWrite \/ InstallRead \/ Idles
    <2>1. wire' = wire /\ opened' = opened /\ WriteNext' = WriteNext /\ ReadNext' = ReadNext
      <3>1. CASE Idles
        BY <3>1, Zenon DEF Idles, WriteNext, WriteDue, ReadNext, ReadDue
      <3>2. CASE InstallWrite
        BY <3>2, InstallWriteEffect, Zenon DEF InstallWrite
      <3>3. CASE InstallRead
        BY <1>2, <3>3, InstallReadEffect, Zenon DEF InstallRead, DueIsLive
      <3> QED
        BY <1>5, <3>1, <3>2, <3>3, Zenon
    <2>2. ~opener'.poisoned
      BY <1>2, <1>5 DEF InstallWrite, InstallRead, Idles
    <2> QED
      BY <1>2, <1>3, <2>1, <2>2, Zenon
  <1>6. ~RejectsNext
    <2> SUFFICES ASSUME RejectsNext PROVE FALSE
      BY Zenon
    <2>1. /\ ~ReadDue /\ Len(opened) < Len(wire)
          /\ \/ opener.seq >= AEAD_CONFIDENTIALITY_LIMIT
             \/ wire[Len(opened) + 1].gen # opener.gen
             \/ wire[Len(opened) + 1].seq # opener.seq
      BY Zenon DEF RejectsNext
    <2>2. Len(opened) + 1 \in 1 .. Len(wire) /\ (Len(opened) + 1) - 1 = Len(opened)
      BY <1>0, <2>1
    <2>3. /\ wire[Len(opened) + 1].gen = PositionAt(Len(opened)).gen
          /\ wire[Len(opened) + 1].seq = PositionAt(Len(opened)).seq
          /\ wire[Len(opened) + 1].seq < AEAD_CONFIDENTIALITY_LIMIT
      BY <1>2, <2>2, Zenon DEF WireOrdered
    <2>4. ReadNext.gen = opener.gen /\ ReadNext.seq = opener.seq /\ opener.seq \in Nat
      BY <2>1, NextTypes, WireTypes, Zenon
    <2> QED
      BY <1>2, <2>1, <2>3, <2>4, RecordAssumption
  <1>7. ASSUME NEW k \in 1 .. Len(wire), DeliversAt(k)
        PROVE  /\ ~opener'.poisoned
               /\ wire' = wire /\ WriteNext' = WriteNext
               /\ ReadNext' = PositionAt(Len(opened))'
    <2>1. Delivers(wire[k]) /\ k = Len(opened) + 1 /\ wire' = wire
      BY <1>7, Zenon DEF DeliversAt, Delivers
    <2>2. wire[k].kind # "ChangeCipherSpec"
      BY <1>2, Zenon
    <2>3. /\ Len(opened') = k /\ ReadNext' = After(wire[k]) /\ WriteNext' = WriteNext
          /\ ~opener'.poisoned
      BY <2>1, <2>2, DeliversEffect, Zenon
    <2>4. k # 0
      OBVIOUS
    <2> QED
      BY <2>1, <2>3, <2>4, Zenon DEF PositionAt
  <1> QED
    BY <1>0, <1>2, <1>3, <1>4, <1>5, <1>6, <1>7, Zenon DEF Outcome, Burns

\* As long as the transport and the AEAD work and the peer seals no
\* ChangeCipherSpec, the Opener never fails: refused seals leave no gap and the
\* two sides change keys at the same record (Opener::open).
THEOREM FailsOnlyDisturbed == Spec => []FailsOnlyIfDisturbed
  <1>1. Init => NoGaps
    <2> SUFFICES ASSUME Init PROVE NoGaps
      BY Zenon
    <2>1. /\ wire = <<>> /\ opened = <<>> /\ Len(wire) = 0 /\ Len(opened) = 0
          /\ sealer = [gen |-> 0, seq |-> 0]
          /\ opener = [gen |-> 0, seq |-> 0, poisoned |-> FALSE]
      BY Zenon DEF Init
    <2>2. WriteNext = [gen |-> 0, seq |-> 0] /\ ReadNext = [gen |-> 0, seq |-> 0]
      BY <2>1, Zenon DEF WriteNext, ReadNext, WriteDue, ReadDue
    <2> QED
      BY <2>1, <2>2 DEF NoGaps, PositionAt
  <1>2. NoGaps => FailsOnlyIfDisturbed
    BY Zenon DEF NoGaps, FailsOnlyIfDisturbed
  <1> QED
    BY <1>1, <1>2, OrderHolds, NoGapsStep, PTL DEF Spec

============================================================================
