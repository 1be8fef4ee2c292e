---------------------------- MODULE Reassembler ----------------------------
(***************************************************************************)
(* HsReassembler (wire/handshake/reassemblers.rs): handshake messages cut   *)
(* out of the records they arrive in, however records and messages overlap. *)
(*                                                                          *)
(* The peer's bytes are a stream of messages, each known by its offset,     *)
(* its length and whether it is a KeyUpdate.  A record is the next n bytes  *)
(* of the stream at some epoch.  The buffer is its length: it holds the     *)
(* bytes just before the unread part of the record.  One step is one turn   *)
(* of the loop in read; the session behind the callback may refuse any      *)
(* message, and every error poisons the connection and discards the buffer. *)
(***************************************************************************)
EXTENDS Integers, Sequences, FiniteSets

CONSTANTS
    HeaderLen,                  \* bytes of a handshake header, 4 in the code
    MAX_SIZE,                   \* longest message the header may announce
    Capacities,                 \* limits a BoundedBuffer may be reserved with
    MAX_KEY_UPDATES_PER_RECORD, \* LIMIT of the KeyUpdateBudget
    Epochs,                     \* epochs of records
    NoEpoch,                    \* HsReassembler::epoch when it is None
    Streams,                    \* what a peer may send
    MaxRecords                  \* bound: records read

\* Messages follow each other without a gap, and each has a header.
WellFormed(s) ==
    /\ s \in Seq([start : Nat, len : Nat, update : BOOLEAN])
    /\ Len(s) > 0
    /\ s[1].start = 0
    /\ \A i \in 1 .. Len(s) : s[i].len >= HeaderLen
    /\ \A i \in 1 .. Len(s) - 1 : s[i + 1].start = s[i].start + s[i].len
    /\ \A i, j \in 1 .. Len(s) : i < j => s[i].start + s[i].len <= s[j].start

ASSUME ReassemblerAssumption ==
    /\ HeaderLen \in Nat \ {0}
    /\ MAX_SIZE \in Nat
    /\ Capacities \subseteq Nat
    /\ MAX_KEY_UPDATES_PER_RECORD \in Nat
    /\ NoEpoch \notin Epochs
    /\ MaxRecords \in Nat
    /\ \A s \in Streams : WellFormed(s)

VARIABLES
    stream,     \* the peer's messages
    fed,        \* bytes of the stream handed over in records so far
    left,       \* bytes of the current record not looked at yet
    capacity,   \* limit of HsReassembler::buf
    buf,        \* length of HsReassembler::buf
    bufEpoch,   \* HsReassembler::epoch
    updates,    \* HsReassembler::key_updates
    epoch,      \* epoch of the current record
    reading,    \* whether a call of read is in progress
    failure,    \* why the connection is poisoned, "None" while it lives
    processed,  \* history: indices of the messages handed to the callback
    records     \* history: the records read, [from, to, epoch]

vars == <<stream, fed, left, capacity, buf, bufEpoch, updates, epoch, reading, failure, processed,
          records>>

Failures == {"HandshakeSpansEpoch", "HandshakeTooLarge", "WorkspaceExhausted", "Trailing",
             "UnexpectedMessage", "Refused"}

MinOf(a, b) == IF a < b THEN a ELSE b

StreamLen == stream[Len(stream)].start + stream[Len(stream)].len

\* Offset of the first byte that is in the buffer, or else of the unread input.
Position == fed - left - buf

\* The message whose header is at the front.
Front == CHOOSE i \in 1 .. Len(stream) : stream[i].start = Position

\* encoded_message_len, when the header at the front is complete.
MsgLen == stream[Front].len

Init ==
    /\ stream \in Streams
    /\ capacity \in Capacities
    /\ fed = 0 /\ left = 0 /\ buf = 0
    /\ bufEpoch = NoEpoch
    /\ updates = 0
    /\ epoch \in Epochs
    /\ reading = FALSE
    /\ failure = "None"
    /\ processed = <<>>
    /\ records = <<>>

\* The error returned to read_authorized or read_into, which poison the
\* connection: discard clears the buffer, the epoch and the update count.
Fail(why) ==
    /\ failure' = why
    /\ buf' = 0 /\ left' = 0
    /\ bufEpoch' = NoEpoch
    /\ updates' = 0
    /\ reading' = FALSE

\* MUTANT: a partial message left by an earlier record is not noticed.
SpansEpochNever(e) == FALSE

\* The check of begin_record: a partial message of another epoch.
SpansEpoch(e) == buf > 0 /\ bufEpoch # e

\* MUTANT: the allowance is not renewed by a record.
RenewedNever == updates

\* key_updates.reset()
Renewed == 0

\* read is called with the next n bytes as one record.
BeginRecord(n, e) ==
    /\ failure = "None" /\ ~reading
    /\ Len(records) < MaxRecords
    /\ fed + n <= StreamLen
    /\ fed' = fed + n
    /\ epoch' = e
    /\ records' = Append(records, [from |-> fed, to |-> fed + n, epoch |-> e])
    /\ \/ /\ SpansEpoch(e)
          /\ Fail("HandshakeSpansEpoch")
       \/ /\ ~SpansEpoch(e)
          /\ left' = n
          /\ reading' = TRUE
          /\ updates' = Renewed
          /\ UNCHANGED <<buf, bufEpoch, failure>>
    /\ UNCHANGED <<stream, capacity, processed>>

\* append: n bytes of the record fit in the buffer, or the workspace is exhausted.
Fits(n) == buf + n <= capacity

Buffered(n) ==
    /\ buf' = buf + n
    /\ left' = left - n

-----------------------------------------------------------------------------
(* One turn of the loop. *)

\* validate_message, before the callback sees the message.
MayProcess(i) == stream[i].update => updates < MAX_KEY_UPDATES_PER_RECORD

Process(i) ==
    /\ updates' = updates + (IF stream[i].update THEN 1 ELSE 0)
    /\ processed' = Append(processed, i)

\* The budget refuses the message, or the session behind the callback does.
RejectMessage(i) == Fail(IF MayProcess(i) THEN "Refused" ELSE "UnexpectedMessage")

\* Nothing buffered and nothing left.
Return ==
    /\ buf = 0 /\ left = 0
    /\ reading' = FALSE
    /\ UNCHANGED <<left, buf, bufEpoch, updates, failure, processed>>

\* MUTANT: a whole message is taken only when more bytes follow it.
WholeAtHandStrictly == left >= HeaderLen /\ left > MsgLen

\* Nothing buffered, and the record holds the whole next message.
WholeAtHand == left >= HeaderLen /\ left >= MsgLen

TakeWhole ==
    /\ buf = 0
    /\ WholeAtHand /\ MsgLen <= MAX_SIZE
    /\ \/ /\ MayProcess(Front)
          /\ Process(Front)
          /\ left' = left - MsgLen
          /\ UNCHANGED <<buf, bufEpoch, failure, reading>>
       \/ /\ RejectMessage(Front)
          /\ UNCHANGED processed

\* Nothing buffered, and the record ends within the next message.
Stash ==
    /\ buf = 0 /\ left > 0
    /\ ~WholeAtHand
    /\ left >= HeaderLen => MsgLen <= MAX_SIZE
    /\ \/ /\ Fits(left)
          /\ Buffered(left)
          /\ bufEpoch' = epoch
          /\ reading' = FALSE
          /\ UNCHANGED <<updates, failure>>
       \/ /\ ~Fits(left)
          /\ Fail("WorkspaceExhausted")
    /\ UNCHANGED processed

\* The header at the front announces more than MAX_SIZE.
RejectHeader ==
    /\ \/ buf = 0 /\ left >= HeaderLen
       \/ buf >= HeaderLen
    /\ MsgLen > MAX_SIZE
    /\ Fail("HandshakeTooLarge")
    /\ UNCHANGED processed

\* MUTANT: read goes on with half a header.
HeaderCompleteAlways(take) == TRUE

\* Whether read goes on after it appended take bytes to a partial header.
HeaderComplete(take) == buf + take >= HeaderLen

\* A partial header is buffered: complete it, or keep waiting.
FillHeader ==
    /\ buf > 0 /\ buf < HeaderLen
    /\ LET take == MinOf(HeaderLen - buf, left)
       IN \/ /\ Fits(take)
             /\ Buffered(take)
             /\ reading' = HeaderComplete(take)
             /\ UNCHANGED <<bufEpoch, updates, failure>>
          \/ /\ ~Fits(take)
             /\ Fail("WorkspaceExhausted")
    /\ UNCHANGED processed

\* Bytes of the buffered message still to come.
Needed == MsgLen - buf

\* A header is buffered and the record does not complete its message.
FillBody ==
    /\ buf >= HeaderLen /\ MsgLen <= MAX_SIZE
    /\ Needed > left
    /\ \/ /\ Fits(left)
          /\ Buffered(left)
          /\ reading' = FALSE
          /\ UNCHANGED <<bufEpoch, updates, failure>>
       \/ /\ ~Fits(left)
          /\ Fail("WorkspaceExhausted")
    /\ UNCHANGED processed

\* The record completes the buffered message, which is processed from the
\* buffer; the buffer is cleared whatever the callback says.
CompleteBuffered ==
    /\ buf >= HeaderLen /\ MsgLen <= MAX_SIZE
    /\ Needed <= left
    /\ \/ /\ Needed < 0 \/ ~Fits(Needed)
          /\ Fail(IF Needed < 0 THEN "Trailing" ELSE "WorkspaceExhausted")
          /\ UNCHANGED processed
       \/ /\ Needed >= 0 /\ Fits(Needed)
          /\ MayProcess(Front)
          /\ Process(Front)
          /\ left' = left - Needed
          /\ buf' = 0
          /\ bufEpoch' = NoEpoch
          /\ UNCHANGED <<failure, reading>>
       \/ /\ Needed >= 0 /\ Fits(Needed)
          /\ RejectMessage(Front)
          /\ UNCHANGED processed

Loop ==
    /\ reading
    /\ \/ Return
       \/ TakeWhole
       \/ Stash
       \/ RejectHeader
       \/ FillHeader
       \/ FillBody
       \/ CompleteBuffered
    /\ UNCHANGED <<stream, capacity, fed, epoch, records>>

Next ==
    \/ \E n \in 0 .. StreamLen, e \in Epochs : BeginRecord(n, e)
    \/ Loop

Spec == Init /\ [][Next]_vars

\* A call that was made runs: the loop is ordinary code of one thread.
FairSpec == Spec /\ WF_vars(Loop)

-----------------------------------------------------------------------------
EndOf(i) == stream[i].start + stream[i].len

\* However the stream is cut into records, the callback has seen the messages
\* in order, each once, and after a call that returned it has seen every message
\* that is complete and the buffer holds the rest (HsReassembler::read).
InOrder == \A k \in 1 .. Len(processed) : processed[k] = k

NothingHeldBack ==
    failure = "None" /\ ~reading =>
        \A i \in 1 .. Len(stream) : EndOf(i) <= fed <=> i <= Len(processed)

MessagesMatchStream == InOrder /\ NothingHeldBack

\* All bytes of a processed message arrived in records of one epoch
\* (reassemblers.rs: "a message may not cross record epochs").
WithinOneEpoch ==
    \A k \in 1 .. Len(processed) :
        LET m == stream[processed[k]]
            touching == {r \in 1 .. Len(records) :
                            records[r].from < m.start + m.len /\ m.start < records[r].to}
        IN \A r, s \in touching : records[r].epoch = records[s].epoch

\* The message a poisoned connection did not get to the end of.
Pending == Len(processed) + 1

\* An error is due to the peer or to the session, never to the way the records
\* fell: the buffer is exhausted only by a message longer than its reservation,
\* a header refused only for its length, the end of a message never overrun,
\* an epoch change refused only inside a message, and an update only after the
\* limit of them in its record.
FailureIsDue ==
    /\ failure # "Trailing"
    /\ failure = "WorkspaceExhausted" => stream[Pending].len > capacity
    /\ failure = "HandshakeTooLarge" => stream[Pending].len > MAX_SIZE
    /\ failure = "HandshakeSpansEpoch" =>
           LET cut == records[Len(records)].from
           IN stream[Pending].start < cut /\ cut < EndOf(Pending)
    /\ failure = "UnexpectedMessage" =>
           LET begun == records[Len(records)].from
           IN Cardinality({k \in 1 .. Len(processed) : stream[k].update /\ EndOf(k) > begun})
                  = MAX_KEY_UPDATES_PER_RECORD

\* A call of read ends: no input makes the loop turn without progress.
CallReturns == reading ~> ~reading
=============================================================================
