------------------------- MODULE ReassemblerProofs -------------------------
(***************************************************************************)
(* Proofs about Reassembler, for every stream of messages, every way of     *)
(* cutting it into records, every reservation of the buffer and every       *)
(* limit on the updates of a record.                                        *)
(*                                                                          *)
(* While the connection lives the first byte that read has not used up is   *)
(* the first byte of the next message (InStep), so the header it looks at   *)
(* is always the right one (FrontIsNext).  A turn of the loop then returns, *)
(* buffers bytes of that message, hands it to the callback, or fails for a  *)
(* reason that message gives (LoopCases).                                   *)
(***************************************************************************)
EXTENDS Reassembler, FiniteSetTheorems, TLAPS

Types ==
    /\ stream \in Streams
    /\ capacity \in Nat
    /\ fed \in Nat /\ left \in Nat /\ buf \in Nat /\ updates \in Nat
    /\ reading \in BOOLEAN
    /\ processed \in Seq(Nat)
    /\ records \in Seq([from : Nat, to : Nat, epoch : Epochs])
    /\ failure # "None" => ~reading

\* How many messages the callback has seen, and where they end.
Seen == Len(processed)

Mark == IF Seen = 0 THEN 0 ELSE EndOf(Seen)

\* The length of the next message.
NextLen == stream[Seen + 1].len

\* The input is used up to the end of the messages seen; the buffer holds the
\* beginning of the next one, and only that once a call has returned.
InStep ==
    failure = "None" =>
        /\ Seen <= Len(stream)
        /\ fed <= StreamLen
        /\ Position = Mark
        /\ Seen < Len(stream) => buf <= NextLen
        /\ ~reading => left = 0 /\ (Seen < Len(stream) => buf < NextLen)

\* Records that reach beyond the messages seen have the epoch of the buffer and,
\* during a call, of its record.
OneEpochPending ==
    failure = "None" =>
        /\ reading /\ buf > 0 => bufEpoch = epoch
        /\ \A r \in 1 .. Len(records) :
              /\ records[r].to <= fed
              /\ records[r].to > Position => records[r].epoch = IF reading THEN epoch ELSE bufEpoch

\* The messages of the current record that are updates.
UpdatesOfRecord ==
    {k \in 1 .. Seen : stream[k].update /\ EndOf(k) > records[Len(records)].from}

\* The budget counts the updates of the current record.
BudgetCounts ==
    failure = "None" /\ reading =>
        /\ Len(records) > 0
        /\ Seen < Len(stream) => records[Len(records)].from < EndOf(Seen + 1)
        /\ updates = Cardinality(UpdatesOfRecord)
        /\ updates <= MAX_KEY_UPDATES_PER_RECORD

----------------------------------------------------------------------------
(* The stream. *)

\* The assumption on streams, part by part, with the ends of messages.
LEMMA StreamShape ==
    ASSUME Types
    PROVE  /\ HeaderLen \in Nat /\ HeaderLen > 0 /\ MAX_SIZE \in Nat
           /\ MAX_KEY_UPDATES_PER_RECORD \in Nat
           /\ Len(stream) \in Nat /\ Len(stream) > 0 /\ stream[1].start = 0
           /\ \A i \in 1 .. Len(stream) :
                 /\ stream[i].start \in Nat /\ stream[i].len \in Nat /\ stream[i].update \in BOOLEAN
                 /\ stream[i].len >= HeaderLen
                 /\ EndOf(i) \in Nat /\ EndOf(i) = stream[i].start + stream[i].len
           /\ \A i \in 1 .. Len(stream) - 1 : stream[i + 1].start = EndOf(i)
           /\ \A i, j \in 1 .. Len(stream) : i < j => EndOf(i) <= stream[j].start
           /\ StreamLen = EndOf(Len(stream))
  <1> DEFINE M == [start : Nat, len : Nat, update : BOOLEAN]
  <1>1. WellFormed(stream)
    BY ReassemblerAssumption, Zenon DEF Types
  <1>2. stream \in Seq(M) /\ Len(stream) > 0 /\ Len(stream) \in Nat
    BY <1>1 DEF WellFormed
  <1>3. \A i \in 1 .. Len(stream) : stream[i] \in M
    <2> HIDE DEF M
    <2> QED
      BY <1>2
  <1>4. \A i \in 1 .. Len(stream) :
           stream[i].start \in Nat /\ stream[i].len \in Nat /\ stream[i].update \in BOOLEAN
    BY <1>3, Zenon
  <1>5. \A i \in 1 .. Len(stream) : EndOf(i) \in Nat
    BY <1>4, SMTT(30) DEF EndOf
  <1>6. /\ stream[1].start = 0
        /\ \A i \in 1 .. Len(stream) : stream[i].len >= HeaderLen
        /\ \A i \in 1 .. Len(stream) - 1 : stream[i + 1].start = EndOf(i)
        /\ \A i, j \in 1 .. Len(stream) : i < j => EndOf(i) <= stream[j].start
    BY <1>1, Zenon DEF WellFormed, EndOf
  <1>7. HeaderLen \in Nat /\ HeaderLen > 0 /\ MAX_SIZE \in Nat /\ MAX_KEY_UPDATES_PER_RECORD \in Nat
    BY ReassemblerAssumption
  <1> HIDE DEF M
  <1> QED
    BY <1>2, <1>4, <1>5, <1>6, <1>7, Zenon DEF EndOf, StreamLen

\* Ends are in order.
LEMMA EndsInOrder ==
    ASSUME Types, NEW i \in 1 .. Len(stream), NEW j \in 1 .. Len(stream), i < j
    PROVE  EndOf(i) < EndOf(j)
  <1>1. EndOf(i) <= stream[j].start
    BY StreamShape, Zenon
  <1>2. EndOf(j) = stream[j].start + stream[j].len /\ stream[j].len > 0
        /\ stream[j].start \in Nat /\ stream[j].len \in Nat /\ EndOf(i) \in Nat
    BY StreamShape, SMTT(30)
  <1> QED
    BY <1>1, <1>2, SMTT(30)

\* The messages seen end where the next one starts.
LEMMA MarkIsStart ==
    ASSUME Types, Seen <= Len(stream)
    PROVE  /\ Seen \in Nat /\ Mark \in Nat
           /\ Seen < Len(stream) => /\ Seen + 1 \in 1 .. Len(stream)
                                    /\ stream[Seen + 1].start = Mark
                                    /\ EndOf(Seen + 1) = Mark + NextLen
                                    /\ NextLen \in Nat /\ NextLen >= HeaderLen
           /\ Seen = Len(stream) => Mark = StreamLen
           /\ \A i \in 1 .. Seen : EndOf(i) <= Mark
           /\ \A i \in 1 .. Len(stream) : i > Seen => EndOf(i) >= EndOf(Seen + 1)
  <1>1. Seen \in Nat /\ Len(stream) \in Nat /\ Len(stream) > 0
    BY StreamShape DEF Types, Seen
  <1>2. Mark \in Nat
    BY <1>1, StreamShape DEF Mark
  <1>3. ASSUME Seen < Len(stream)
        PROVE  /\ Seen + 1 \in 1 .. Len(stream)
               /\ stream[Seen + 1].start = Mark
    <2>1. Seen + 1 \in 1 .. Len(stream)
      BY <1>1, <1>3
    <2>2. CASE Seen = 0
      BY <2>2, StreamShape DEF Mark
    <2>3. CASE Seen # 0
      <3>1. Seen \in 1 .. Len(stream) - 1
        BY <1>1, <1>3, <2>3
      <3> QED
        BY <2>3, <3>1, StreamShape DEF Mark
    <2> QED
      BY <2>1, <2>2, <2>3, Zenon
  <1>4. ASSUME Seen < Len(stream)
        PROVE  /\ EndOf(Seen + 1) = Mark + NextLen
               /\ NextLen \in Nat /\ NextLen >= HeaderLen
    BY <1>3, <1>4, StreamShape, Zenon DEF NextLen
  <1>5. Seen = Len(stream) => Mark = StreamLen
    BY <1>1, StreamShape DEF Mark
  <1>6. ASSUME NEW i \in 1 .. Seen PROVE EndOf(i) <= Mark
    <2>1. Mark = EndOf(Seen) /\ Seen \in 1 .. Len(stream) /\ i \in 1 .. Len(stream)
      BY <1>1 DEF Mark
    <2> QED
      BY <1>1, <2>1, EndsInOrder, StreamShape, SMTT(30)
  <1>7. ASSUME NEW i \in 1 .. Len(stream), i > Seen PROVE EndOf(i) >= EndOf(Seen + 1)
    <2>1. i = Seen + 1 \/ i > Seen + 1
      BY <1>1, <1>7
    <2>2. Seen + 1 \in 1 .. Len(stream)
      BY <1>1, <1>7
    <2> QED
      BY <2>1, <2>2, EndsInOrder, StreamShape, SMTT(30)
  <1> QED
    BY <1>1, <1>2, <1>3, <1>4, <1>5, <1>6, <1>7, Zenon

\* A message that is not empty starts before the place where it ends.
LEMMA StartsBefore ==
    ASSUME NEW x \in Nat, NEW n \in Nat, NEW z \in Nat, NEW e, e = x + n, n > 0, e <= z
    PROVE  x < z
  OBVIOUS

\* While the connection lives, the header that read looks at is that of the
\* next message.
LEMMA FrontIsNext ==
    ASSUME Types, Seen < Len(stream), Position = Mark
    PROVE  Front = Seen + 1 /\ MsgLen = NextLen
  <1>1. Seen + 1 \in 1 .. Len(stream) /\ stream[Seen + 1].start = Position
    BY MarkIsStart, StreamShape DEF Seen, Types
  <1>2. ASSUME NEW i \in 1 .. Len(stream), stream[i].start = Position PROVE i = Seen + 1
    <2>1. \A a, b \in 1 .. Len(stream) : a < b => stream[a].start < stream[b].start
      <3> TAKE a, b \in 1 .. Len(stream)
      <3> HAVE a < b
      <3>1. EndOf(a) <= stream[b].start
        BY StreamShape, Zenon
      <3>2. EndOf(a) = stream[a].start + stream[a].len /\ stream[a].len > 0
            /\ stream[a].start \in Nat /\ stream[a].len \in Nat /\ stream[b].start \in Nat
        BY StreamShape, SMTT(30)
      <3> QED
        BY <3>1, <3>2, StartsBefore, Zenon
    <2>2. stream[i].start = stream[Seen + 1].start /\ stream[i].start \in Nat
      BY <1>1, <1>2, StreamShape, Zenon
    <2>3. i \in Nat /\ Seen + 1 \in Nat
      BY <1>1, StreamShape
    <2> QED
      BY <1>1, <2>1, <2>2, <2>3, SMTT(30)
  <1>3. Front = Seen + 1
    BY <1>1, <1>2, Zenon DEF Front
  <1> QED
    BY <1>3, Zenon DEF MsgLen, NextLen

----------------------------------------------------------------------------
(* One turn of the loop, as what it does to the next message. *)

Returns ==
    /\ buf = 0 /\ left = 0
    /\ reading' = FALSE
    /\ UNCHANGED <<left, buf, bufEpoch, updates, failure, processed>>

\* t bytes of the next message go into the buffer; the call goes on, or the
\* record is used up within the message.
Holds(t) ==
    /\ Seen < Len(stream)
    /\ t \in 0 .. left
    /\ buf' = buf + t /\ left' = left - t
    /\ buf' <= NextLen
    /\ reading' \in BOOLEAN
    /\ reading' \/ (left' = 0 /\ buf' < NextLen)
    /\ bufEpoch' = IF buf = 0 THEN epoch ELSE bufEpoch
    /\ UNCHANGED <<updates, failure, processed>>

\* The next message is complete and the callback takes it.
Takes ==
    /\ Seen < Len(stream)
    /\ MayProcess(Seen + 1)
    /\ Process(Seen + 1)
    /\ NextLen - buf <= left
    /\ left' = left - (NextLen - buf) /\ buf' = 0
    /\ UNCHANGED <<failure, reading>>

\* The turn fails, for a reason that the next message gives.
FailsDuly ==
    /\ Seen < Len(stream)
    /\ \/ Fail("WorkspaceExhausted") /\ NextLen > capacity
       \/ Fail("HandshakeTooLarge") /\ NextLen > MAX_SIZE
       \/ Fail("Refused")
       \/ Fail("UnexpectedMessage") /\ ~MayProcess(Seen + 1)
    /\ UNCHANGED processed

LoopOutcome ==
    /\ reading /\ failure = "None"
    /\ \/ Returns
       \/ \E t \in Nat : Holds(t)
       \/ Takes
       \/ FailsDuly
    /\ UNCHANGED <<stream, capacity, fed, epoch, records>>

\* What InStep says of a call in progress.
LEMMA InStepParts ==
    ASSUME Types, InStep, failure = "None"
    PROVE  /\ Seen \in Nat /\ Seen <= Len(stream) /\ fed <= StreamLen /\ StreamLen \in Nat
           /\ Position = Mark /\ Mark \in Nat
           /\ fed = Mark + buf + left
           /\ buf > 0 \/ left > 0 => Seen < Len(stream)
           /\ Seen < Len(stream) => /\ buf <= NextLen
                                    /\ MsgLen = NextLen /\ Front = Seen + 1
                                    /\ NextLen \in Nat /\ NextLen >= HeaderLen
  <1>1. /\ Seen <= Len(stream) /\ fed <= StreamLen /\ Position = Mark
        /\ Seen < Len(stream) => buf <= NextLen
    BY Zenon DEF InStep
  <1>2. Seen \in Nat /\ Mark \in Nat /\ StreamLen \in Nat
    BY <1>1, MarkIsStart, StreamShape, SMTT(30)
  <1>3. fed = Mark + buf + left
    BY <1>1, <1>2 DEF Position, Types
  <1>4. Seen = Len(stream) => Mark = StreamLen
    BY <1>1, MarkIsStart, Zenon
  <1>5. buf > 0 \/ left > 0 => Seen < Len(stream)
    BY <1>1, <1>2, <1>3, <1>4, StreamShape, SMTT(30) DEF Types
  <1> QED
    BY <1>1, <1>2, <1>3, <1>5, MarkIsStart, FrontIsNext, Zenon

\* Every turn of the loop is one of the four.
LEMMA LoopCases ==
    ASSUME Types, InStep, Loop
    PROVE  LoopOutcome
  <1>1. /\ reading /\ failure = "None"
        /\ UNCHANGED <<stream, capacity, fed, epoch, records>>
    BY Zenon DEF Loop, Types
  <1>2. /\ left \in Nat /\ buf \in Nat /\ capacity \in Nat /\ HeaderLen \in Nat /\ HeaderLen > 0
        /\ MAX_SIZE \in Nat
    BY StreamShape, Zenon DEF Types
  <1>3. /\ buf > 0 \/ left > 0 => Seen < Len(stream)
        /\ Seen < Len(stream) => /\ buf <= NextLen
                                 /\ MsgLen = NextLen /\ Front = Seen + 1
                                 /\ NextLen \in Nat /\ NextLen >= HeaderLen
    BY <1>1, InStepParts, Zenon
  <1>4. SUFFICES Returns \/ (\E t \in Nat : Holds(t)) \/ Takes \/ FailsDuly
    BY <1>1, Zenon DEF LoopOutcome
  <1>5. CASE Return
    BY <1>5, Zenon DEF Return, Returns
  <1>6. ASSUME Seen < Len(stream), RejectMessage(Front), UNCHANGED processed PROVE FailsDuly
    BY <1>3, <1>6, Zenon DEF RejectMessage, FailsDuly
  <1>7. CASE TakeWhole
    <2>1. Seen < Len(stream)
      BY <1>2, <1>3, <1>7 DEF TakeWhole, WholeAtHand
    <2>2. CASE RejectMessage(Front) /\ UNCHANGED processed
      BY <1>6, <2>1, <2>2, Zenon
    <2>3. CASE /\ MayProcess(Front) /\ Process(Front) /\ left' = left - MsgLen
               /\ UNCHANGED <<buf, bufEpoch, failure, reading>>
      BY <1>2, <1>3, <1>7, <2>1, <2>3, SMTT(30) DEF Takes, TakeWhole, WholeAtHand
    <2> QED
      BY <1>7, <2>2, <2>3, Zenon DEF TakeWhole
  <1>8. CASE Stash
    <2>1. Seen < Len(stream) /\ buf = 0 /\ left < NextLen /\ left > 0
      BY <1>2, <1>3, <1>8 DEF Stash, WholeAtHand
    <2>2. CASE Fits(left)
      <3>a. /\ Buffered(left) /\ bufEpoch' = epoch /\ reading' = FALSE
            /\ UNCHANGED <<updates, failure, processed>>
        BY <1>8, <2>2, Zenon DEF Stash
      <3>b. reading' \in BOOLEAN
        BY <3>a, Zenon
      <3>1. Holds(left)
        BY <1>2, <1>3, <2>1, <3>a, <3>b, SMTT(30) DEF Holds, Buffered
      <3> QED
        BY <1>2, <3>1, Zenon
    <2>3. CASE ~Fits(left)
      BY <1>2, <1>3, <1>8, <2>1, <2>3, SMTT(30) DEF Stash, FailsDuly, Fits
    <2> QED
      BY <2>2, <2>3, Zenon
  <1>9. CASE RejectHeader
    BY <1>2, <1>3, <1>9 DEF RejectHeader, FailsDuly
  <1>10. CASE FillHeader
    <2> DEFINE take == MinOf(HeaderLen - buf, left)
    <2>1. /\ Seen < Len(stream) /\ buf > 0 /\ buf < HeaderLen
          /\ take \in 0 .. left /\ buf + take <= HeaderLen
          /\ buf + take < HeaderLen => take = left
      BY <1>2, <1>3, <1>10 DEF FillHeader, MinOf
    <2>2. \/ /\ Fits(take) /\ Buffered(take) /\ reading' = HeaderComplete(take)
             /\ UNCHANGED <<bufEpoch, updates, failure>>
          \/ ~Fits(take) /\ Fail("WorkspaceExhausted")
      BY <1>10, Zenon DEF FillHeader
    <2>3. UNCHANGED processed
      BY <1>10, Zenon DEF FillHeader
    <2> HIDE DEF take
    <2>4. CASE Buffered(take) /\ reading' = HeaderComplete(take)
               /\ UNCHANGED <<bufEpoch, updates, failure>>
      <3>a. reading' \/ (left' = 0 /\ buf' < NextLen)
        <4>1. CASE HeaderComplete(take)
          BY <2>4, <4>1, Zenon
        <4>2. CASE ~HeaderComplete(take)
          BY <1>2, <1>3, <2>1, <2>4, <4>2, SMTT(30) DEF Buffered, HeaderComplete
        <4> QED
          BY <4>1, <4>2, Zenon
      <3>b. reading' \in BOOLEAN
        <4>1. HeaderComplete(take) \in BOOLEAN
          BY DEF HeaderComplete
        <4> QED
          BY <2>4, <4>1, Zenon
      <3>1. Holds(take)
        BY <1>2, <1>3, <2>1, <2>3, <2>4, <3>a, <3>b, SMTT(30) DEF Holds, Buffered
      <3> QED
        BY <1>2, <2>1, <3>1, SMTT(30)
    <2>5. CASE ~Fits(take) /\ Fail("WorkspaceExhausted")
      BY <1>2, <1>3, <2>1, <2>3, <2>5 DEF FailsDuly, Fits
    <2> QED
      BY <2>2, <2>4, <2>5, Zenon
  <1>11. CASE FillBody
    <2>1. Seen < Len(stream) /\ buf > 0 /\ buf + left < NextLen
      BY <1>2, <1>3, <1>11 DEF FillBody, Needed
    <2>2. CASE Fits(left)
      <3>a. /\ Buffered(left) /\ reading' = FALSE
            /\ UNCHANGED <<bufEpoch, updates, failure, processed>>
        BY <1>11, <2>2, Zenon DEF FillBody
      <3>b. reading' \in BOOLEAN
        BY <3>a, Zenon
      <3>1. Holds(left)
        BY <1>2, <1>3, <2>1, <3>a, <3>b, SMTT(30) DEF Holds, Buffered
      <3> QED
        BY <1>2, <3>1, Zenon
    <2>3. CASE ~Fits(left)
      BY <1>2, <1>3, <1>11, <2>1, <2>3, SMTT(30) DEF FillBody, FailsDuly, Fits
    <2> QED
      BY <2>2, <2>3, Zenon
  <1>12. CASE CompleteBuffered
    <2>1. Seen < Len(stream) /\ Needed = NextLen - buf /\ Needed >= 0 /\ Needed <= left
      BY <1>2, <1>3, <1>12, SMTT(30) DEF CompleteBuffered, Needed
    <2>2. \/ ~Fits(Needed) /\ Fail("WorkspaceExhausted") /\ UNCHANGED processed
          \/ /\ MayProcess(Front) /\ Process(Front) /\ left' = left - Needed /\ buf' = 0
             /\ UNCHANGED <<failure, reading>>
          \/ RejectMessage(Front) /\ UNCHANGED processed
      BY <2>1, <1>2, <1>3, <1>12, SMTT(30) DEF CompleteBuffered
    <2>3. CASE ~Fits(Needed) /\ Fail("WorkspaceExhausted") /\ UNCHANGED processed
      BY <1>2, <1>3, <2>1, <2>3, SMTT(30) DEF FailsDuly, Fits
    <2>4. CASE /\ MayProcess(Front) /\ Process(Front) /\ left' = left - Needed /\ buf' = 0
               /\ UNCHANGED <<failure, reading>>
      BY <1>2, <1>3, <2>1, <2>4, Zenon DEF Takes
    <2>5. CASE RejectMessage(Front) /\ UNCHANGED processed
      BY <1>6, <2>1, <2>5, Zenon
    <2> QED
      BY <2>2, <2>3, <2>4, <2>5, Zenon
  <1> QED
    BY <1>5, <1>7, <1>8, <1>9, <1>10, <1>11, <1>12, Zenon DEF Loop

----------------------------------------------------------------------------
(* The steps. *)

\* A record begins: it is refused, or read.
Begins(n, e) ==
    /\ failure = "None" /\ ~reading /\ left = 0
    /\ n \in Nat /\ e \in Epochs
    /\ fed + n <= StreamLen /\ fed' = fed + n /\ epoch' = e
    /\ records' = Append(records, [from |-> fed, to |-> fed + n, epoch |-> e])
    /\ \/ /\ buf > 0 /\ bufEpoch # e
          /\ Fail("HandshakeSpansEpoch")
       \/ /\ buf = 0 \/ bufEpoch = e
          /\ left' = n /\ reading' /\ updates' = 0
          /\ UNCHANGED <<buf, bufEpoch, failure>>
    /\ UNCHANGED <<stream, capacity, processed>>

\* Every step feeds a record or is one of the outcomes of the loop of process.
LEMMA StepCases ==
    ASSUME Types, InStep, [Next]_vars
    PROVE  \/ \E n \in Nat, e \in Epochs : Begins(n, e)
           \/ LoopOutcome
           \/ UNCHANGED vars
  <1>1. ASSUME NEW n \in 0 .. StreamLen, NEW e \in Epochs, BeginRecord(n, e)
        PROVE  Begins(n, e) /\ n \in Nat
    <2>1. StreamLen \in Nat /\ Len(stream) \in Nat
      BY StreamShape
    <2>2. n \in Nat /\ left = 0 /\ buf \in Nat
      BY <1>1, <2>1 DEF BeginRecord, InStep, Types
    <2> QED
      BY <1>1, <2>2 DEF BeginRecord, Begins, SpansEpoch, Renewed
  <1> QED
    BY <1>1, LoopCases, Zenon DEF Next

\* A record is added at the end of what was fed.
LEMMA RecordAdded ==
    ASSUME Types, NEW n \in Nat, NEW e \in Epochs, Begins(n, e)
    PROVE  /\ records' \in Seq([from : Nat, to : Nat, epoch : Epochs])
           /\ Len(records') = Len(records) + 1 /\ Len(records) \in Nat
           /\ \A r \in 1 .. Len(records) : records'[r] = records[r]
           /\ records'[Len(records) + 1].from = fed
           /\ records'[Len(records) + 1].to = fed + n
           /\ records'[Len(records) + 1].epoch = e
  <1> DEFINE R == [from : Nat, to : Nat, epoch : Epochs]
             x == [from |-> fed, to |-> fed + n, epoch |-> e]
  <1>1. x \in R /\ x.from = fed /\ x.to = fed + n /\ x.epoch = e
    BY DEF Types
  <1>2. records \in Seq(R) /\ records' = Append(records, x)
    BY Zenon DEF Types, Begins
  <1> HIDE DEF R, x
  <1>3. /\ records' \in Seq(R)
        /\ Len(records') = Len(records) + 1 /\ Len(records) \in Nat
        /\ \A r \in 1 .. Len(records) : records'[r] = records[r]
        /\ records'[Len(records) + 1] = x
    BY <1>1, <1>2
  <1> QED
    BY <1>1, <1>3, Zenon DEF R

\* The callback has seen one more message.
LEMMA MessageAdded ==
    ASSUME Types, Takes
    PROVE  /\ processed' \in Seq(Nat)
           /\ Seen \in Nat /\ Seen' = Seen + 1
           /\ \A k \in 1 .. Seen : processed'[k] = processed[k]
           /\ processed'[Seen + 1] = Seen + 1
           /\ updates' \in Nat
  <1>1. processed' = Append(processed, Seen + 1) /\ processed \in Seq(Nat) /\ Seen \in Nat
    BY DEF Takes, Process, Types, Seen
  <1>2. updates' \in Nat
    BY DEF Takes, Process, Types
  <1> QED
    BY <1>1, <1>2 DEF Seen

\* The reassembler starts in step with the stream.
LEMMA InStepInit == Init => Types /\ InStep
  <1> SUFFICES ASSUME Init PROVE Types /\ InStep
    BY Zenon
  <1>1. Types
    <2>1. capacity \in Nat
      BY ReassemblerAssumption, Zenon DEF Init
    <2>2. records \in Seq([from : Nat, to : Nat, epoch : Epochs]) /\ processed \in Seq(Nat)
      BY DEF Init
    <2> QED
      BY <2>1, <2>2, Zenon DEF Init, Types
  <1>2. Seen = 0 /\ Mark = 0 /\ Seen <= Len(stream)
    BY <1>1, StreamShape DEF Init, Seen, Mark
  <1>3. Seen < Len(stream) => 0 < NextLen
    BY <1>1, <1>2, MarkIsStart, StreamShape, SMTT(30)
  <1>4. StreamLen >= 0
    BY <1>1, StreamShape
  <1> QED
    BY <1>1, <1>2, <1>3, <1>4, MarkIsStart, SMTT(30) DEF Init, InStep, Position

\* The step of the two together.
LEMMA InStepStep ==
    ASSUME Types, InStep, [Next]_vars
    PROVE  Types' /\ InStep'
  <1>1. ASSUME NEW n \in Nat, NEW e \in Epochs, Begins(n, e) PROVE Types' /\ InStep'
    <2>1. Types'
      <3>1. records' \in Seq([from : Nat, to : Nat, epoch : Epochs])
        BY <1>1, RecordAdded, Zenon
      <3>2. fed' \in Nat /\ left' \in Nat /\ buf' \in Nat /\ updates' \in Nat
        BY <1>1, SMTT(30) DEF Begins, Fail, Types
      <3>3. reading' \in BOOLEAN /\ (failure' # "None" => ~reading')
        BY <1>1, Zenon DEF Begins, Fail
      <3> QED
        BY <1>1, <3>1, <3>2, <3>3, Zenon DEF Begins, Types
    <2>2. CASE failure' # "None"
      BY <2>1, <2>2, Zenon DEF InStep
    <2>3. CASE failure' = "None"
      <3>1. left' = n /\ reading' /\ buf' = buf /\ fed' = fed + n /\ fed' <= StreamLen
            /\ stream' = stream /\ processed' = processed /\ left = 0 /\ failure = "None"
        BY <1>1, <2>3, Zenon DEF Begins, Fail
      <3>2. /\ Seen' = Seen /\ Mark' = Mark /\ NextLen' = NextLen /\ StreamLen' = StreamLen
        BY <3>1, Zenon DEF Seen, Mark, NextLen, StreamLen, EndOf
      <3>3. Position' = Position
        BY <3>1 DEF Position, Types
      <3> QED
        BY <2>1, <3>1, <3>2, <3>3, Zenon DEF InStep
    <2> QED
      BY <2>2, <2>3, Zenon
  <1>2. CASE LoopOutcome
    <2>1. /\ reading /\ failure = "None"
          /\ stream' = stream /\ capacity' = capacity /\ fed' = fed /\ records' = records
          /\ left \in Nat /\ buf \in Nat /\ fed \in Nat
          /\ StreamLen' = StreamLen
      BY <1>2, Zenon DEF LoopOutcome, Types, StreamLen
    <2>2. /\ Seen \in Nat /\ Seen <= Len(stream) /\ fed <= StreamLen
          /\ Position = Mark /\ Mark \in Nat /\ fed = Mark + buf + left
          /\ Seen < Len(stream) => NextLen \in Nat /\ NextLen >= HeaderLen /\ buf <= NextLen
          /\ HeaderLen \in Nat /\ HeaderLen > 0 /\ Len(stream) \in Nat
      BY <2>1, InStepParts, StreamShape, Zenon
    <2>3. CASE Returns
      <3>1. /\ left' = 0 /\ buf' = 0 /\ processed' = processed /\ failure' = failure
            /\ reading' = FALSE /\ updates' = updates /\ left = 0 /\ buf = 0
        BY <2>3, Zenon DEF Returns
      <3>2. Seen' = Seen /\ Mark' = Mark /\ NextLen' = NextLen /\ Position' = Position
        BY <2>1, <3>1, Zenon DEF Seen, Mark, NextLen, EndOf, Position
      <3>3. Types'
        BY <2>1, <3>1, Zenon DEF Types
      <3> QED
        BY <2>1, <2>2, <3>1, <3>2, <3>3 DEF InStep
    <2>4. ASSUME NEW t \in Nat, Holds(t) PROVE Types' /\ InStep'
      <3>1. /\ t <= left /\ left' = left - t /\ buf' = buf + t
            /\ processed' = processed /\ failure' = failure /\ updates' = updates
            /\ reading' \/ (left' = 0 /\ buf' < NextLen)
            /\ buf' <= NextLen
        BY <2>1, <2>4 DEF Holds
      <3>2. Seen' = Seen /\ Mark' = Mark /\ NextLen' = NextLen
        BY <2>1, <3>1, Zenon DEF Seen, Mark, NextLen, EndOf
      <3>3. Position' = Position
        BY <2>1, <3>1 DEF Position
      <3>4. reading' \in BOOLEAN
        BY <2>4, Zenon DEF Holds
      <3>5. Types'
        BY <2>1, <3>1, <3>4 DEF Types
      <3> QED
        BY <2>1, <2>2, <3>1, <3>2, <3>3, <3>5, Zenon DEF InStep
    <2>5. CASE Takes
      <3>1. /\ Seen < Len(stream) /\ NextLen - buf <= left
            /\ left' = left - (NextLen - buf) /\ buf' = 0
            /\ failure' = failure /\ reading' = reading
        BY <2>5, Zenon DEF Takes
      <3>2. /\ Seen' = Seen + 1 /\ processed' \in Seq(Nat) /\ updates' \in Nat
        BY <2>5, MessageAdded, Zenon
      <3>3. left' \in Nat /\ buf' \in Nat
        BY <2>1, <2>2, <3>1, SMTT(30)
      <3>4. Types'
        BY <2>1, <3>1, <3>2, <3>3, Zenon DEF Types
      <3>5. Mark' = Mark + NextLen
        <4>1. Mark' = EndOf(Seen + 1)
          BY <2>1, <2>2, <3>2 DEF Mark, EndOf
        <4>2. EndOf(Seen + 1) = Mark + NextLen
          BY <2>2, <3>1, MarkIsStart, Zenon
        <4> QED
          BY <4>1, <4>2, Zenon
      <3>6. Position' = Position + NextLen
        BY <2>1, <2>2, <3>1, SMTT(30) DEF Position
      <3>7. Seen' < Len(stream') => buf' <= NextLen'
        <4>1. Seen' <= Len(stream')
          BY <2>1, <2>2, <3>1, <3>2
        <4>2. Seen' < Len(stream') => NextLen' \in Nat
          <5>1. Seen' < Len(stream') => (Seen + 1) + 1 \in 1 .. Len(stream)
            BY <2>1, <2>2, <3>2
          <5> QED
            BY <2>1, <3>2, <5>1, StreamShape, Zenon DEF NextLen
        <4> QED
          BY <3>1, <4>2
      <3> QED
        BY <2>1, <2>2, <3>1, <3>2, <3>4, <3>5, <3>6, <3>7, SMTT(30) DEF InStep
    <2>6. CASE FailsDuly
      <3>1. /\ failure' # "None" /\ left' = 0 /\ buf' = 0 /\ updates' = 0 /\ reading' = FALSE
            /\ processed' = processed
        BY <2>6, Zenon DEF FailsDuly, Fail
      <3> QED
        BY <2>1, <3>1, Zenon DEF Types, InStep
    <2> QED
      BY <1>2, <2>3, <2>4, <2>5, <2>6, Zenon DEF LoopOutcome
  <1>3. CASE UNCHANGED vars
    BY <1>3, Zenon DEF vars, Types, InStep, Seen, Mark, NextLen, EndOf, StreamLen, Position
  <1> QED
    BY <1>1, <1>2, <1>3, StepCases, Zenon

\* The reassembler is in step with the stream in every state.
LEMMA InStepHolds == Spec => [](Types /\ InStep)
  BY InStepInit, InStepStep, PTL DEF Spec

----------------------------------------------------------------------------
(* The messages. *)

\* However the stream is cut into records, the callback sees the messages in
\* order, each once, and after a call that returned it has seen every complete
\* message and the buffer holds the rest (HsReassembler::read).
THEOREM MessagesAlwaysMatch == Spec => []MessagesMatchStream
  <1>1. Init => InOrder
    BY DEF Init, InOrder
  <1>2. Types /\ InStep /\ InOrder /\ [Next]_vars => InOrder'
    <2> SUFFICES ASSUME Types, InStep, InOrder, [Next]_vars PROVE InOrder'
      BY Zenon
    <2>1. CASE UNCHANGED processed
      BY <2>1, Zenon DEF InOrder
    <2>2. CASE Takes
      <3>1. /\ Seen \in Nat /\ Seen' = Seen + 1
            /\ \A k \in 1 .. Seen : processed'[k] = processed[k]
            /\ processed'[Seen + 1] = Seen + 1
        BY <2>2, MessageAdded, Zenon
      <3>2. \A k \in 1 .. Seen + 1 : k = Seen + 1 \/ k \in 1 .. Seen
        BY <3>1
      <3>3. \A k \in 1 .. Seen : processed[k] = k
        BY Zenon DEF InOrder, Seen
      <3>4. \A k \in 1 .. Seen' : processed'[k] = k
        BY <3>1, <3>2, <3>3, Zenon
      <3> QED
        BY <3>4, Zenon DEF InOrder, Seen
    <2> QED
      BY <2>1, <2>2, StepCases, Zenon
         DEF Begins, LoopOutcome, Returns, Holds, FailsDuly, vars
  <1>3. Types /\ InStep => NothingHeldBack
    <2> SUFFICES ASSUME Types, InStep, failure = "None", ~reading,
                        NEW i \in 1 .. Len(stream)
                 PROVE  EndOf(i) <= fed <=> i <= Seen
      BY Zenon DEF NothingHeldBack, Seen
    <2>1. left = 0 /\ (Seen < Len(stream) => buf < NextLen)
      BY Zenon DEF InStep
    <2>2. /\ Seen \in Nat /\ Seen <= Len(stream) /\ Mark \in Nat /\ fed = Mark + buf + left
          /\ buf \in Nat /\ EndOf(i) \in Nat /\ Len(stream) \in Nat
      BY InStepParts, StreamShape, Zenon DEF Types
    <2>3. CASE i <= Seen
      <3>1. EndOf(i) <= Mark
        BY <2>2, <2>3, MarkIsStart
      <3> QED
        BY <2>1, <2>2, <2>3, <3>1
    <2>4. CASE i > Seen
      <3>1. Seen < Len(stream)
        BY <2>2, <2>4
      <3>2. EndOf(i) >= EndOf(Seen + 1) /\ EndOf(Seen + 1) = Mark + NextLen /\ NextLen \in Nat
        BY <2>2, <2>4, <3>1, MarkIsStart, Zenon
      <3> QED
        BY <2>1, <2>2, <2>4, <3>1, <3>2
    <2> QED
      BY <2>2, <2>3, <2>4
  <1> QED
    BY <1>1, <1>2, <1>3, InStepHolds, PTL DEF Spec, MessagesMatchStream

----------------------------------------------------------------------------
(* Epochs. *)

\* The position only moves forward, and a turn of the loop keeps the epoch.
LEMMA OneEpochStep ==
    ASSUME Types, InStep, OneEpochPending, [Next]_vars
    PROVE  OneEpochPending'
  <1> DEFINE Old(r) == /\ records[r].to <= fed
                       /\ records[r].to > Position =>
                             records[r].epoch = IF reading THEN epoch ELSE bufEpoch
  <1>0. \A r \in 1 .. Len(records) : /\ records[r].from \in Nat /\ records[r].to \in Nat
                                     /\ records[r].epoch \in Epochs
    <2> DEFINE R == [from : Nat, to : Nat, epoch : Epochs]
    <2>1. \A r \in 1 .. Len(records) : records[r] \in R
      <3>1. records \in Seq(R)
        BY Zenon DEF Types
      <3> HIDE DEF R
      <3> QED
        BY <3>1
    <2> QED
      BY <2>1, Zenon
  <1>1. ASSUME failure = "None"
        PROVE  /\ reading /\ buf > 0 => bufEpoch = epoch
               /\ \A r \in 1 .. Len(records) : Old(r)
    BY <1>1, Zenon DEF OneEpochPending
  <1>2. ASSUME failure = "None"
        PROVE  Position = Mark /\ Mark \in Nat /\ fed = Mark + buf + left
               /\ left \in Nat /\ buf \in Nat /\ fed \in Nat
    BY <1>2, InStepParts, Zenon DEF Types
  <1>3. ASSUME NEW n \in Nat, NEW e \in Epochs, Begins(n, e), failure' = "None"
        PROVE  OneEpochPending'
    <2>1. /\ failure = "None" /\ ~reading /\ left = 0 /\ fed' = fed + n /\ epoch' = e
          /\ left' = n /\ reading' /\ buf' = buf /\ bufEpoch' = bufEpoch
          /\ buf = 0 \/ bufEpoch = e
      BY <1>3, Zenon DEF Begins, Fail
    <2>2. Position' = Position /\ Position = fed - buf
      BY <1>2, <2>1 DEF Position
    <2>3. ASSUME NEW r \in 1 .. Len(records)
          PROVE  /\ records'[r].to <= fed'
                 /\ records'[r].to > Position' => records'[r].epoch = e
      <3>1. records'[r] = records[r] /\ Old(r)
        BY <1>1, <1>3, <2>1, RecordAdded, Zenon
      <3> QED
        BY <1>0, <1>2, <2>1, <2>2, <3>1, SMTT(30)
    <2>4. /\ Len(records') = Len(records) + 1 /\ Len(records) \in Nat
          /\ records'[Len(records) + 1].to = fed + n
          /\ records'[Len(records) + 1].epoch = e
      BY <1>3, RecordAdded, Zenon
    <2>5. \A r \in 1 .. Len(records') : r \in 1 .. Len(records) \/ r = Len(records) + 1
      BY <2>4
    <2>6. \A r \in 1 .. Len(records') :
             /\ records'[r].to <= fed'
             /\ records'[r].to > Position' => records'[r].epoch = e
      BY <1>2, <2>1, <2>3, <2>4, <2>5, SMTT(30)
    <2> QED
      BY <2>1, <2>6 DEF OneEpochPending
  <1>4. ASSUME LoopOutcome, failure' = "None"
        PROVE  OneEpochPending'
    <2>1. /\ failure = "None" /\ reading
          /\ fed' = fed /\ epoch' = epoch /\ records' = records
      BY <1>4, Zenon DEF LoopOutcome
    <2>2. \A r \in 1 .. Len(records) : /\ records[r].to <= fed
                                       /\ records[r].to > Position => records[r].epoch = epoch
      BY <1>1, <2>1, Zenon
    <2>3. SUFFICES /\ Position' >= Position /\ Position' \in Nat
                   /\ reading' /\ buf' > 0 => bufEpoch' = epoch
                   /\ ~reading' => \A r \in 1 .. Len(records) :
                                      records[r].to > Position' => bufEpoch' = epoch
      BY <1>0, <1>2, <2>1, <2>2, SMTT(30) DEF OneEpochPending
    <2>4. CASE Returns
      <3>1. Position' = fed /\ Position = fed /\ reading' = FALSE
        BY <1>2, <2>1, <2>4 DEF Position, Returns
      <3> QED
        BY <1>0, <1>2, <2>1, <2>2, <3>1, SMTT(30)
    <2>5. ASSUME NEW t \in Nat, Holds(t)
          PROVE  /\ Position' >= Position /\ Position' \in Nat
                 /\ reading' /\ buf' > 0 => bufEpoch' = epoch
                 /\ ~reading' => \A r \in 1 .. Len(records) :
                                    records[r].to > Position' => bufEpoch' = epoch
      <3>1. Position' = Position
        BY <1>2, <2>1, <2>5, SMTT(30) DEF Position, Holds
      <3>2. bufEpoch' = epoch
        BY <1>1, <1>2, <2>1, <2>5, SMTT(30) DEF Holds
      <3> QED
        BY <1>2, <2>1, <3>1, <3>2
    <2>6. CASE Takes
      <3>1. /\ Seen < Len(stream) /\ NextLen - buf <= left
            /\ left' = left - (NextLen - buf) /\ buf' = 0 /\ reading' = reading
        BY <2>6, Zenon DEF Takes
      <3>2. NextLen \in Nat
        BY <2>1, <3>1, InStepParts, Zenon
      <3>3. Position' = Position + NextLen
        BY <1>2, <2>1, <3>1, <3>2, SMTT(30) DEF Position
      <3> QED
        BY <1>2, <2>1, <3>1, <3>2, <3>3, SMTT(30)
    <2>7. ~FailsDuly
      BY <1>4, Zenon DEF FailsDuly, Fail
    <2> QED
      BY <1>4, <2>4, <2>5, <2>6, <2>7, Zenon DEF LoopOutcome
  <1>5. CASE UNCHANGED vars
    BY <1>5, Zenon DEF vars, OneEpochPending, Position
  <1>6. CASE failure' # "None"
    BY <1>6, Zenon DEF OneEpochPending
  <1> QED
    BY <1>3, <1>4, <1>5, <1>6, StepCases, Zenon

\* WithinOneEpoch, with the messages named by their place in the stream.
SeenWithinOneEpoch ==
    \A k \in 1 .. Seen : \A r, s \in 1 .. Len(records) :
        /\ records[r].from < EndOf(k) /\ stream[k].start < records[r].to
        /\ records[s].from < EndOf(k) /\ stream[k].start < records[s].to
        => records[r].epoch = records[s].epoch

\* Every step leaves the messages seen within one epoch each.
LEMMA SeenWithinOneEpochStep ==
    ASSUME Types, InStep, OneEpochPending, SeenWithinOneEpoch, [Next]_vars
    PROVE  SeenWithinOneEpoch'
  <1>1. ASSUME NEW n \in Nat, NEW e \in Epochs, Begins(n, e) PROVE SeenWithinOneEpoch'
    <2>1. /\ failure = "None" /\ stream' = stream /\ Seen' = Seen
      BY <1>1, Zenon DEF Begins, Seen
    <2>2. /\ Len(records') = Len(records) + 1 /\ Len(records) \in Nat
          /\ \A r \in 1 .. Len(records) : records'[r] = records[r]
          /\ records'[Len(records) + 1].from = fed
      BY <1>1, RecordAdded, Zenon
    <2>3. \A k \in 1 .. Seen : EndOf(k)' = EndOf(k) /\ ~(fed < EndOf(k))
      <3>1. \A k \in 1 .. Seen : EndOf(k) <= Mark /\ EndOf(k) \in Nat
        BY <2>1, InStepParts, MarkIsStart, StreamShape, SMTT(30)
      <3>2. Mark \in Nat /\ Mark <= fed /\ fed \in Nat
        BY <2>1, InStepParts DEF Types
      <3>3. \A k \in 1 .. Seen : EndOf(k)' = EndOf(k)
        BY <2>1, Zenon DEF EndOf
      <3> QED
        BY <3>1, <3>2, <3>3, SMTT(30)
    <2>4. \A r \in 1 .. Len(records') : r \in 1 .. Len(records) \/ r = Len(records) + 1
      BY <2>2, SMTT(30)
    <2>5. SUFFICES ASSUME NEW k \in 1 .. Seen,
                          NEW r \in 1 .. Len(records'), NEW s \in 1 .. Len(records'),
                          records'[r].from < EndOf(k), stream[k].start < records'[r].to,
                          records'[s].from < EndOf(k), stream[k].start < records'[s].to
                   PROVE  records'[r].epoch = records'[s].epoch
      BY <2>1, <2>3 DEF SeenWithinOneEpoch
    <2>6. r \in 1 .. Len(records) /\ s \in 1 .. Len(records)
      BY <2>2, <2>3, <2>4, <2>5, Zenon
    <2> QED
      BY <2>2, <2>5, <2>6, ZenonT(40) DEF SeenWithinOneEpoch
  <1>2. CASE LoopOutcome /\ Takes
    <2>1. /\ failure = "None" /\ reading /\ stream' = stream /\ records' = records
      BY <1>2, Zenon DEF LoopOutcome
    <2>2. Seen \in Nat /\ Seen' = Seen + 1 /\ Seen < Len(stream)
      BY <1>2, MessageAdded, Zenon DEF Takes
    <2>3. \A r \in 1 .. Len(records) : Mark < records[r].to => records[r].epoch = epoch
      <3>1. Position = Mark
        BY <2>1, Zenon DEF InStep
      <3>2. \A r \in 1 .. Len(records) : records[r].to > Position => records[r].epoch = epoch
        BY <2>1, Zenon DEF OneEpochPending
      <3> QED
        BY <3>1, <3>2, Zenon
    <2>4. stream[Seen + 1].start = Mark
      BY <2>2, MarkIsStart
    <2>5. \A k \in 1 .. Seen + 1 : k \in 1 .. Seen \/ k = Seen + 1
      BY <2>2
    <2>6. \A k : EndOf(k)' = EndOf(k)
      BY <2>1, Zenon DEF EndOf
    <2>7. SUFFICES ASSUME NEW k \in 1 .. Seen + 1,
                          NEW r \in 1 .. Len(records), NEW s \in 1 .. Len(records),
                          records[r].from < EndOf(k), stream[k].start < records[r].to,
                          records[s].from < EndOf(k), stream[k].start < records[s].to
                   PROVE  records[r].epoch = records[s].epoch
      BY <2>1, <2>2, <2>6, SMTT(30) DEF SeenWithinOneEpoch
    <2>8. CASE k = Seen + 1
      BY <2>3, <2>4, <2>7, <2>8, Zenon
    <2>9. CASE k \in 1 .. Seen
      BY <2>7, <2>9, Zenon DEF SeenWithinOneEpoch
    <2> QED
      BY <2>5, <2>8, <2>9, Zenon
  <1>3. CASE UNCHANGED <<stream, records, processed>>
    BY <1>3, SMTT(30) DEF SeenWithinOneEpoch, Seen, EndOf
  <1> QED
    BY <1>1, <1>2, <1>3, StepCases, Zenon
       DEF LoopOutcome, Returns, Holds, FailsDuly, vars

\* The bytes of a message that is processed arrived in records of one epoch,
\* however the message was cut into them (begin_record and the epoch of the
\* buffer).
THEOREM AlwaysWithinOneEpoch == Spec => []WithinOneEpoch
  <1>1. Init => OneEpochPending /\ SeenWithinOneEpoch
    BY DEF Init, OneEpochPending, SeenWithinOneEpoch, Seen
  <1>2. InOrder /\ SeenWithinOneEpoch => WithinOneEpoch
    BY ZenonT(40) DEF InOrder, SeenWithinOneEpoch, WithinOneEpoch, Seen, EndOf
  <1>3. MessagesMatchStream => InOrder
    BY Zenon DEF MessagesMatchStream
  <1> QED
    BY <1>1, <1>2, <1>3, OneEpochStep, SeenWithinOneEpochStep, InStepHolds,
       MessagesAlwaysMatch, PTL DEF Spec

----------------------------------------------------------------------------
(* Failures. *)

\* A set of messages seen is finite.
LEMMA UpdatesFinite ==
    ASSUME Types
    PROVE  IsFiniteSet(UpdatesOfRecord)
  <1>1. Seen \in Nat
    BY DEF Types, Seen
  <1>2. IsFiniteSet(1 .. Seen)
    BY <1>1, FS_Interval
  <1>3. UpdatesOfRecord \in SUBSET (1 .. Seen)
    BY Zenon DEF UpdatesOfRecord
  <1> QED
    BY <1>2, <1>3, FS_Subset, ZenonT(40)

\* Every step leaves the budget a count of the updates of the record.
LEMMA BudgetCountsStep ==
    ASSUME Types, InStep, BudgetCounts, [Next]_vars
    PROVE  BudgetCounts'
  <1>1. ASSUME NEW n \in Nat, NEW e \in Epochs, Begins(n, e), failure' = "None"
        PROVE  BudgetCounts'
    <2>1. /\ failure = "None" /\ ~reading /\ stream' = stream /\ Seen' = Seen /\ updates' = 0
          /\ processed' = processed
      BY <1>1, Zenon DEF Begins, Fail, Seen
    <2>2. /\ Len(records') = Len(records) + 1 /\ Len(records) \in Nat
          /\ records'[Len(records')].from = fed
      BY <1>1, RecordAdded, Zenon
    <2>3. /\ Seen \in Nat /\ Mark \in Nat /\ fed = Mark + buf + left /\ left = 0
          /\ (Seen < Len(stream) => buf < NextLen)
          /\ Seen <= Len(stream) /\ buf \in Nat
      BY <2>1, InStepParts, Zenon DEF InStep, Types
    <2>4. \A k \in 1 .. Seen : ~(EndOf(k) > fed)
      <3>1. \A k \in 1 .. Seen : EndOf(k) <= Mark /\ EndOf(k) \in Nat
        BY <2>3, MarkIsStart, StreamShape
      <3> QED
        BY <2>3, <3>1, SMTT(30)
    <2>5. \A k : EndOf(k)' = EndOf(k)
      BY <2>1, Zenon DEF EndOf
    <2>6. UpdatesOfRecord' = {}
      BY <2>1, <2>2, <2>4, <2>5, Zenon DEF UpdatesOfRecord
    <2>7. Cardinality(UpdatesOfRecord') = 0
      BY <2>6, FS_EmptySet, Zenon
    <2>8. Seen < Len(stream) => fed < EndOf(Seen + 1)
      <3>1. Seen < Len(stream) => EndOf(Seen + 1) = Mark + NextLen /\ NextLen \in Nat
        BY <2>3, MarkIsStart, Zenon
      <3> QED
        BY <2>3, <3>1
    <2> QED
      BY <2>1, <2>2, <2>5, <2>7, <2>8, StreamShape, SMTT(30) DEF BudgetCounts
  <1>2. CASE LoopOutcome /\ Takes
    <2>1. /\ failure = "None" /\ reading /\ stream' = stream /\ records' = records
      BY <1>2, Zenon DEF LoopOutcome
    <2>2. /\ Seen \in Nat /\ Seen' = Seen + 1 /\ Seen < Len(stream)
          /\ Len(stream) \in Nat
      BY <1>2, MessageAdded, StreamShape, Zenon DEF Takes
    <2>3. /\ Len(records) > 0 /\ records[Len(records)].from < EndOf(Seen + 1)
          /\ updates = Cardinality(UpdatesOfRecord)
          /\ updates <= MAX_KEY_UPDATES_PER_RECORD
          /\ updates \in Nat /\ MAX_KEY_UPDATES_PER_RECORD \in Nat
      BY <2>1, <2>2, StreamShape, Zenon DEF BudgetCounts, Types
    <2>4. \A k : EndOf(k)' = EndOf(k)
      BY <2>1, Zenon DEF EndOf
    <2>5. /\ stream[Seen + 1].update => updates < MAX_KEY_UPDATES_PER_RECORD
          /\ updates' = updates + (IF stream[Seen + 1].update THEN 1 ELSE 0)
      BY <1>2, Zenon DEF Takes, MayProcess, Process
    <2>6. Seen' < Len(stream') => records'[Len(records')].from < EndOf(Seen + 1)'
      <3>1. ASSUME Seen + 1 < Len(stream) PROVE EndOf(Seen + 1) < EndOf(Seen + 2)
        <4>1. /\ Seen + 1 \in 1 .. Len(stream) /\ Seen + 2 \in 1 .. Len(stream)
              /\ Seen + 1 < Seen + 2
          BY <2>2, <3>1
        <4> QED
          BY <4>1, EndsInOrder, Zenon
      <3>2. Seen + 1 < Len(stream) => EndOf(Seen + 1) \in Nat /\ EndOf(Seen + 2) \in Nat
        <4>1. Seen + 1 < Len(stream) =>
                Seen + 1 \in 1 .. Len(stream) /\ Seen + 2 \in 1 .. Len(stream)
          BY <2>2
        <4> QED
          BY <4>1, StreamShape, Zenon
      <3>3. records[Len(records)].from \in Nat
        <4> DEFINE R == [from : Nat, to : Nat, epoch : Epochs]
        <4>1. records \in Seq(R)
          BY Zenon DEF Types
        <4> HIDE DEF R
        <4>2. records[Len(records)] \in R
          BY <2>3, <4>1
        <4> QED
          BY <4>2, Zenon DEF R
      <3>4. Seen + 1 < Len(stream) => records[Len(records)].from < EndOf(Seen + 2)
        BY <2>3, <3>1, <3>2, <3>3
      <3>5. (Seen + 1) + 1 = Seen + 2
        BY <2>2
      <3>6. EndOf(Seen + 1)' = EndOf(Seen + 2)
        BY <2>1, <2>2, <3>5, Zenon DEF EndOf
      <3> QED
        BY <2>1, <2>2, <3>4, <3>6, Zenon
    <2>7. CASE stream[Seen + 1].update
      <3>1. UpdatesOfRecord' = UpdatesOfRecord \cup {Seen + 1}
        <4>1. \A k : k \in 1 .. Seen + 1 <=> k \in 1 .. Seen \/ k = Seen + 1
          BY <2>2
        <4> QED
          BY <2>1, <2>2, <2>3, <2>4, <2>7, <4>1, Zenon DEF UpdatesOfRecord
      <3>2. Seen + 1 \notin UpdatesOfRecord
        BY <2>2 DEF UpdatesOfRecord
      <3>3. Cardinality(UpdatesOfRecord') = Cardinality(UpdatesOfRecord) + 1
        BY <3>1, <3>2, UpdatesFinite, FS_AddElement, Zenon
      <3> QED
        BY <2>1, <2>3, <2>5, <2>6, <2>7, <3>3 DEF BudgetCounts
    <2>8. CASE ~stream[Seen + 1].update
      <3>1. UpdatesOfRecord' = UpdatesOfRecord
        <4>1. \A k : k \in 1 .. Seen + 1 <=> k \in 1 .. Seen \/ k = Seen + 1
          BY <2>2
        <4> QED
          BY <2>1, <2>2, <2>3, <2>4, <2>8, <4>1, Zenon DEF UpdatesOfRecord
      <3>2. updates' = updates
        BY <2>3, <2>5, <2>8
      <3> QED
        BY <2>1, <2>3, <2>6, <3>1, <3>2, Zenon DEF BudgetCounts
    <2> QED
      BY <2>7, <2>8, Zenon
  <1>3. CASE UNCHANGED <<stream, records, processed, updates, reading, failure>>
    BY <1>3, Zenon DEF BudgetCounts, UpdatesOfRecord, Seen, EndOf
  <1>4. ASSUME LoopOutcome, NEW t \in Nat, Holds(t) PROVE BudgetCounts'
    <2>1. /\ reading /\ UNCHANGED <<stream, records, processed, updates, failure>>
      BY <1>4, Zenon DEF LoopOutcome, Holds
    <2> QED
      BY <2>1, Zenon DEF BudgetCounts, UpdatesOfRecord, Seen, EndOf
  <1>5. CASE ~reading' \/ failure' # "None"
    BY <1>5, Zenon DEF BudgetCounts
  <1> QED
    BY <1>1, <1>2, <1>3, <1>4, <1>5, StepCases, Zenon
       DEF LoopOutcome, Returns, FailsDuly, Fail, vars

\* An error is due to the peer or to the session, never to the way the records
\* fell (begin_record, append, encoded_message_len, KeyUpdateBudget).
THEOREM FailuresAlwaysDue == Spec => []FailureIsDue
  <1>1. Init => BudgetCounts /\ FailureIsDue
    BY Zenon DEF Init, BudgetCounts, FailureIsDue
  <1>2. Types /\ InStep /\ BudgetCounts /\ FailureIsDue /\ [Next]_vars => FailureIsDue'
    <2> SUFFICES ASSUME Types, InStep, BudgetCounts, FailureIsDue, [Next]_vars
                 PROVE  FailureIsDue'
      BY Zenon
    <2>1. ASSUME NEW n \in Nat, NEW e \in Epochs, Begins(n, e), failure' # "None"
          PROVE  FailureIsDue'
      <3>1. /\ failure' = "HandshakeSpansEpoch" /\ failure = "None" /\ ~reading /\ buf > 0
            /\ stream' = stream /\ processed' = processed
        BY <2>1, Zenon DEF Begins, Fail
      <3>2. records'[Len(records')].from = fed
        BY <2>1, RecordAdded, Zenon
      <3>3. /\ Seen < Len(stream) /\ Seen <= Len(stream) /\ Mark \in Nat /\ NextLen \in Nat
            /\ fed = Mark + buf + left
            /\ left = 0 /\ buf < NextLen /\ buf \in Nat
        BY <3>1, InStepParts, Zenon DEF InStep, Types
      <3>4. stream[Seen + 1].start = Mark /\ EndOf(Seen + 1) = Mark + NextLen
        BY <3>3, MarkIsStart, Zenon
      <3>5. Pending' = Seen + 1 /\ EndOf(Seen + 1)' = EndOf(Seen + 1)
        BY <3>1, Zenon DEF Pending, Seen, EndOf
      <3>6. Mark < fed /\ fed < Mark + NextLen
        BY <3>1, <3>3
      <3>7. /\ stream'[Pending'].start < records'[Len(records')].from
            /\ records'[Len(records')].from < EndOf(Pending)'
        BY <3>1, <3>2, <3>4, <3>5, <3>6, Zenon DEF EndOf
      <3> QED
        BY <3>1, <3>7, Zenon DEF FailureIsDue
    <2>2. CASE LoopOutcome /\ FailsDuly
      <3>1. /\ failure = "None" /\ reading
            /\ stream' = stream /\ records' = records /\ capacity' = capacity
            /\ processed' = processed /\ Seen < Len(stream)
        BY <2>2, Zenon DEF LoopOutcome, FailsDuly
      <3>2. Pending' = Seen + 1 /\ stream'[Pending'].len = NextLen
        BY <3>1, Zenon DEF Pending, Seen, NextLen
      <3>3. CASE failure' = "WorkspaceExhausted"
        BY <2>2, <3>1, <3>2, <3>3, Zenon DEF FailsDuly, Fail, FailureIsDue
      <3>4. CASE failure' = "HandshakeTooLarge"
        BY <2>2, <3>1, <3>2, <3>4, Zenon DEF FailsDuly, Fail, FailureIsDue
      <3>5. CASE failure' = "Refused"
        BY <3>5, Zenon DEF FailureIsDue
      <3>6. CASE failure' = "UnexpectedMessage"
        <4>1. ~(updates < MAX_KEY_UPDATES_PER_RECORD)
          BY <2>2, <3>6, Zenon DEF FailsDuly, Fail, MayProcess
        <4>2. /\ updates = Cardinality(UpdatesOfRecord)
              /\ updates <= MAX_KEY_UPDATES_PER_RECORD
              /\ updates \in Nat /\ MAX_KEY_UPDATES_PER_RECORD \in Nat
          BY <3>1, StreamShape, Zenon DEF BudgetCounts, Types
        <4>3. Cardinality(UpdatesOfRecord) = MAX_KEY_UPDATES_PER_RECORD
          BY <4>1, <4>2
        <4>4. UpdatesOfRecord' = UpdatesOfRecord
          BY <3>1, Zenon DEF UpdatesOfRecord, Seen, EndOf
        <4>5. Cardinality(UpdatesOfRecord') = MAX_KEY_UPDATES_PER_RECORD
          BY <4>3, <4>4, Zenon
        <4> QED
          BY <3>6, <4>5, Zenon DEF FailureIsDue, UpdatesOfRecord, Seen
      <3> QED
        BY <2>2, <3>3, <3>4, <3>5, <3>6, Zenon DEF FailsDuly, Fail
    <2>3. CASE failure' = "None"
      BY <2>3, Zenon DEF FailureIsDue
    <2>4. CASE UNCHANGED vars
      BY <2>4, Zenon DEF vars, FailureIsDue, Pending, EndOf
    <2> QED
      BY <2>1, <2>2, <2>3, <2>4, StepCases, Zenon DEF LoopOutcome, Returns, Holds, Takes
  <1> QED
    BY <1>1, <1>2, BudgetCountsStep, InStepHolds, PTL DEF Spec

============================================================================
