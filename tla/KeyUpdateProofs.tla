-------------------------- MODULE KeyUpdateProofs --------------------------
(***************************************************************************)
(* Proofs about KeyUpdate, for every budget and every number of calls.      *)
(* RecordsOpen is not inductive: that the next record opens now says        *)
(* nothing about the one after it.  The invariant that is says that the     *)
(* generations along a log are determined by the KeyUpdates in it           *)
(* (LogChained), that a live writer holds the generation at the log's end   *)
(* (WriterInStep) and a live reader the one at its read position            *)
(* (ReaderInStep).  The budget and the owed responses rest on two more:     *)
(* the count of a live endpoint is the run of KeyUpdates that it last read  *)
(* (CountCoversRun, RunCoversCount), and a request that it read is pending  *)
(* or was answered after it.                                                *)
(***************************************************************************)
EXTENDS KeyUpdate, TLAPS

\* The generation in force after the first i records of a log.
GenAfter(s, i) ==
    IF i = 0 THEN 0
    ELSE IF s[i].kind \in Requests THEN s[i].gen + 1 ELSE s[i].gen

LogChained ==
    \A e \in Endpoint : \A i \in 1 .. Len(log[e]) :
        log[e][i].gen = GenAfter(log[e], i - 1)

WriterInStep ==
    \A e \in Endpoint : state[e] = "Done" =>
        /\ sealKey[e] = GenAfter(log[e], Len(log[e]))
        /\ traffic[e].write = sealKey[e]

ReaderInStep ==
    \A e \in Endpoint :
        /\ rd[e] <= Len(log[Peer(e)])
        /\ state[e] = "Done" =>
               /\ openKey[e] = GenAfter(log[Peer(e)], rd[e])
               /\ traffic[e].read = openKey[e]

KeyInv == TypeOK /\ LogChained /\ WriterInStep /\ ReaderInStep

----------------------------------------------------------------------------
\* The peer of an endpoint is the other endpoint.
LEMMA PeerType == \A e \in Endpoint : Peer(e) \in Endpoint /\ Peer(e) # e
  BY Zenon DEF Endpoint, Peer

\* The fields of the traffic state, and the operations that stay within its type.
LEMMA TrafficFields ==
    ASSUME NEW t \in Traffic
    PROVE  /\ t.read \in Nat /\ t.write \in Nat /\ t.pending \in BOOLEAN
           /\ t.count \in 0 .. MAX_KEY_UPDATES_WITHOUT_APP_DATA
  BY Zenon DEF Traffic

\* The operations of the traffic state keep its type.
LEMMA TrafficTypes ==
    ASSUME NEW t \in Traffic
    PROVE  /\ CanConsume(t) => Consume(t) \in Traffic
           /\ ResetUpdates(t) \in Traffic
           /\ AdvanceRead(t) \in Traffic
           /\ AdvanceWrite(t) \in Traffic
           /\ RequestResponse(t) \in Traffic
           /\ ClearResponse(t) \in Traffic
           /\ Empty \in Traffic
           /\ Active \in Traffic
  <1>1. CanConsume(t) => Consume(t) \in Traffic
    BY KeyUpdateAssumption DEF Traffic, CanConsume, Consume
  <1>2. ResetUpdates(t) \in Traffic
    BY KeyUpdateAssumption DEF Traffic, ResetUpdates
  <1>3. AdvanceRead(t) \in Traffic /\ AdvanceWrite(t) \in Traffic
    BY DEF Traffic, AdvanceRead, AdvanceWrite
  <1>4. RequestResponse(t) \in Traffic
    BY Zenon DEF Traffic, RequestResponse
  <1>5. ClearResponse(t) \in Traffic
    BY Zenon DEF Traffic, ClearResponse
  <1>6. Empty \in Traffic /\ Active \in Traffic
    BY KeyUpdateAssumption DEF Traffic, Empty, Active
  <1> QED
    BY <1>1, <1>2, <1>3, <1>4, <1>5, <1>6, Zenon

\* What they do to the fields the invariants speak of.
LEMMA TrafficEffects ==
    ASSUME NEW t \in Traffic
    PROVE  /\ Consume(t).count = t.count + 1 /\ Consume(t).read = t.read
           /\ Consume(t).write = t.write /\ Consume(t).pending = t.pending
           /\ ResetUpdates(t).read = t.read /\ ResetUpdates(t).write = t.write
           /\ ResetUpdates(t).pending = t.pending
           /\ AdvanceRead(t).read = t.read + 1 /\ AdvanceRead(t).write = t.write
           /\ AdvanceRead(t).count = t.count /\ AdvanceRead(t).pending = t.pending
           /\ AdvanceWrite(t).write = t.write + 1 /\ AdvanceWrite(t).read = t.read
           /\ AdvanceWrite(t).count = t.count /\ AdvanceWrite(t).pending = t.pending
           /\ RequestResponse(t).read = t.read /\ RequestResponse(t).write = t.write
           /\ RequestResponse(t).count = t.count /\ RequestResponse(t).pending
           /\ ClearResponse(t).read = t.read /\ ClearResponse(t).write = t.write
           /\ ClearResponse(t).count = t.count
  BY Zenon DEF Traffic, Consume, ResetUpdates, AdvanceRead, AdvanceWrite, RequestResponse,
         ClearResponse

\* Appending a record leaves the generations before it alone.
LEMMA GenAfterAppend ==
    ASSUME NEW s \in Seq(Record), NEW r \in Record, NEW i \in 0 .. Len(s)
    PROVE  GenAfter(Append(s, r), i) = GenAfter(s, i)
  BY SMTT(30) DEF GenAfter, Record

\* What SealRecord does to the logs: e's grows by one record, the other is unchanged.
LEMMA SealEffect ==
    ASSUME TypeOK, NEW e \in Endpoint, NEW kind \in {"app"} \cup Requests, SealRecord(e, kind)
    PROVE  /\ log' \in [Endpoint -> Seq(Record)]
           /\ log'[e] = Append(log[e], [kind |-> kind, gen |-> sealKey[e], seen |-> rd[e]])
           /\ [kind |-> kind, gen |-> sealKey[e], seen |-> rd[e]] \in Record
           /\ \A f \in Endpoint : f # e => log'[f] = log[f]
  <1>1. [kind |-> kind, gen |-> sealKey[e], seen |-> rd[e]] \in Record
    BY Zenon DEF TypeOK, Record
  <1>2. log[e] \in Seq(Record)
    BY Zenon DEF TypeOK
  <1>3. Append(log[e], [kind |-> kind, gen |-> sealKey[e], seen |-> rd[e]]) \in Seq(Record)
    BY <1>1, <1>2
  <1> QED
    BY <1>1, <1>3, Zenon DEF SealRecord, TypeOK

----------------------------------------------------------------------------
\* Poison keeps the types of the two variables it changes.
LEMMA PoisonTypes ==
    ASSUME TypeOK, NEW e \in Endpoint, Poison(e)
    PROVE  /\ state' \in [Endpoint -> {"Done", "Failed"}]
           /\ traffic' \in [Endpoint -> Traffic]
           /\ state'[e] = "Failed"
           /\ \A f \in Endpoint : f # e => state'[f] = state[f] /\ traffic'[f] = traffic[f]
  BY TrafficTypes, Zenon DEF TypeOK, Poison

\* A successful send: one more KeyUpdate sealed under the old generation, and
\* the next generation derived and installed.
SendSucceeds(e, request) ==
    /\ SealRecord(e, request)
    /\ sealKey' = [sealKey EXCEPT ![e] = traffic[e].write + 1]
    /\ traffic' = [traffic EXCEPT ![e] =
           IF request = "NotRequested" THEN ClearResponse(AdvanceWrite(@))
                                       ELSE AdvanceWrite(@)]
    /\ UNCHANGED <<state, openKey, rd>>

\* A failed send poisons the endpoint; the KeyUpdate may be out already.
SendFails(e, request) ==
    /\ Poison(e)
    /\ UNCHANGED <<sealKey, openKey, rd>>
    /\ SealRecord(e, request) \/ UNCHANGED log

\* A send either goes through whole or poisons its endpoint.
LEMMA SendCases ==
    ASSUME NEW e, NEW request, Send(e, request)
    PROVE  SendSucceeds(e, request) \/ SendFails(e, request)
  BY Zenon DEF Send, SendSucceeds, SendFails

\* A send that goes through: one record under the old key, then the next key.
LEMMA SendSucceedsEffect ==
    ASSUME TypeOK, NEW e \in Endpoint, NEW request \in Requests, SendSucceeds(e, request)
    PROVE  /\ sealKey' \in [Endpoint -> Nat] /\ openKey' \in [Endpoint -> Nat]
           /\ traffic' \in [Endpoint -> Traffic]
           /\ sealKey'[e] = traffic[e].write + 1
           /\ traffic'[e].write = traffic[e].write + 1
           /\ openKey'[e] = openKey[e]
           /\ traffic'[e].read = traffic[e].read
           /\ traffic'[e].count = traffic[e].count
           /\ request = "Requested" => traffic'[e].pending = traffic[e].pending
           /\ \A f \in Endpoint : f # e => sealKey'[f] = sealKey[f] /\ openKey'[f] = openKey[f] /\ traffic'[f] = traffic[f]
  <1>1. traffic[e] \in Traffic /\ traffic[e].write \in Nat
    BY TrafficFields, Zenon DEF TypeOK
  <1>2. /\ sealKey' \in [Endpoint -> Nat] /\ openKey' \in [Endpoint -> Nat]
        /\ sealKey'[e] = traffic[e].write + 1
        /\ openKey'[e] = openKey[e]
        /\ \A f \in Endpoint : f # e => sealKey'[f] = sealKey[f] /\ openKey'[f] = openKey[f]
    BY <1>1, SMTT(30) DEF TypeOK, SendSucceeds
  <1>3. AdvanceWrite(traffic[e]) \in Traffic /\ ClearResponse(AdvanceWrite(traffic[e])) \in Traffic
    BY <1>1, TrafficTypes, Zenon
  <1>4. /\ traffic'[e] = IF request = "NotRequested" THEN ClearResponse(AdvanceWrite(traffic[e]))
                                                     ELSE AdvanceWrite(traffic[e])
        /\ traffic' \in [Endpoint -> Traffic]
        /\ \A f \in Endpoint : f # e => traffic'[f] = traffic[f]
    BY <1>3, Zenon DEF TypeOK, SendSucceeds
  <1>5. traffic'[e].write = traffic[e].write + 1 /\ traffic'[e].read = traffic[e].read
    BY <1>1, <1>3, <1>4, TrafficEffects
  <1>6. traffic'[e].count = traffic[e].count
    BY <1>1, <1>3, <1>4, TrafficEffects
  <1>7. request = "Requested" => traffic'[e].pending = traffic[e].pending
    <2> HAVE request = "Requested"
    <2>1. traffic'[e] = AdvanceWrite(traffic[e])
      BY <1>4, Zenon
    <2> QED
      BY <1>1, <2>1, TrafficEffects, Zenon
  <1> QED
    BY <1>2, <1>4, <1>5, <1>6, <1>7, Zenon

\* A send, whether it goes through or not, keeps the types.
LEMMA SendTypes ==
    ASSUME TypeOK, NEW e \in Endpoint, NEW request \in Requests, Send(e, request)
    PROVE  /\ state' \in [Endpoint -> {"Done", "Failed"}]
           /\ traffic' \in [Endpoint -> Traffic]
           /\ sealKey' \in [Endpoint -> Nat] /\ openKey' \in [Endpoint -> Nat]
           /\ log' \in [Endpoint -> Seq(Record)]
           /\ rd' \in [Endpoint -> Nat]
  <1>1. SealRecord(e, request) \/ UNCHANGED log
    BY SendCases, Zenon DEF SendSucceeds, SendFails
  <1>2. log' \in [Endpoint -> Seq(Record)]
    BY <1>1, SealEffect, Zenon DEF TypeOK
  <1>3. CASE SendSucceeds(e, request)
    BY <1>2, <1>3, SendSucceedsEffect, Zenon DEF SendSucceeds, TypeOK
  <1>4. CASE SendFails(e, request)
    BY <1>2, <1>4, PoisonTypes, Zenon DEF SendFails, TypeOK
  <1> QED
    BY <1>3, <1>4, SendCases, Zenon

\* A KeyUpdate that is accepted: the budget is charged, the read secret is
\* advanced and installed, and a requested response becomes pending.
Accepts(e) ==
    LET t == AdvanceRead(Consume(traffic[e])) IN
    /\ CanConsume(traffic[e])
    /\ traffic' = [traffic EXCEPT ![e] =
           IF NextRecord(e).kind = "Requested" THEN RequestResponse(t) ELSE t]
    /\ openKey' = [openKey EXCEPT ![e] = t.read]
    /\ UNCHANGED <<state, sealKey>>

\* An update is taken, or it poisons its reader.
LEMMA ReceiveCases ==
    ASSUME NEW e, Receive(e)
    PROVE  Accepts(e) \/ (Poison(e) /\ UNCHANGED <<sealKey, openKey>>)
  BY Zenon DEF Receive, Accepts

\* An update that is taken moves its reader one generation on.
LEMMA AcceptsEffect ==
    ASSUME TypeOK, NEW e \in Endpoint, Accepts(e)
    PROVE  /\ sealKey' \in [Endpoint -> Nat] /\ openKey' \in [Endpoint -> Nat]
           /\ traffic' \in [Endpoint -> Traffic]
           /\ openKey'[e] = traffic[e].read + 1
           /\ traffic'[e].read = traffic[e].read + 1
           /\ sealKey'[e] = sealKey[e]
           /\ traffic'[e].write = traffic[e].write
           /\ traffic'[e].count = traffic[e].count + 1
           /\ traffic[e].pending => traffic'[e].pending
           /\ NextRecord(e).kind = "Requested" => traffic'[e].pending
           /\ \A f \in Endpoint : f # e => sealKey'[f] = sealKey[f] /\ openKey'[f] = openKey[f] /\ traffic'[f] = traffic[f]
  <1> DEFINE c == Consume(traffic[e])
             t == AdvanceRead(c)
  <1>1. traffic[e] \in Traffic /\ traffic[e].read \in Nat
    BY TrafficFields, Zenon DEF TypeOK
  <1>2. c \in Traffic
    BY <1>1, TrafficTypes, Zenon DEF Accepts
  <1>3. t \in Traffic /\ RequestResponse(t) \in Traffic
    BY <1>2, TrafficTypes, Zenon
  <1>4. /\ t.read = traffic[e].read + 1 /\ t.write = traffic[e].write
        /\ t.count = traffic[e].count + 1 /\ t.pending = traffic[e].pending
    <2> HIDE DEF c
    <2>1. /\ t.read = c.read + 1 /\ t.write = c.write /\ t.count = c.count
          /\ t.pending = c.pending
      BY <1>2, TrafficEffects, Zenon
    <2>2. /\ c.read = traffic[e].read /\ c.write = traffic[e].write
          /\ c.count = traffic[e].count + 1 /\ c.pending = traffic[e].pending
      BY <1>1, TrafficEffects, Zenon DEF c
    <2> QED
      BY <2>1, <2>2, Zenon
  <1>5. /\ traffic' = [traffic EXCEPT ![e] =
               IF NextRecord(e).kind = "Requested" THEN RequestResponse(t) ELSE t]
        /\ openKey' = [openKey EXCEPT ![e] = t.read]
        /\ sealKey' = sealKey
    BY Zenon DEF Accepts
  <1> HIDE DEF t
  <1>6. /\ sealKey' \in [Endpoint -> Nat] /\ openKey' \in [Endpoint -> Nat]
        /\ openKey'[e] = t.read
        /\ sealKey'[e] = sealKey[e]
        /\ \A f \in Endpoint : f # e => sealKey'[f] = sealKey[f] /\ openKey'[f] = openKey[f]
    BY <1>1, <1>4, <1>5, SMTT(30) DEF TypeOK
  <1>7. /\ traffic'[e] = IF NextRecord(e).kind = "Requested" THEN RequestResponse(t) ELSE t
        /\ traffic' \in [Endpoint -> Traffic]
        /\ \A f \in Endpoint : f # e => traffic'[f] = traffic[f]
    BY <1>3, <1>5, Zenon DEF TypeOK
  <1>8. /\ traffic'[e].read = t.read /\ traffic'[e].write = t.write
        /\ traffic'[e].count = t.count
        /\ t.pending => traffic'[e].pending
        /\ NextRecord(e).kind = "Requested" => traffic'[e].pending
    BY <1>3, <1>7, TrafficEffects
  <1> QED
    BY <1>4, <1>6, <1>7, <1>8, Zenon

----------------------------------------------------------------------------
\* Every variable keeps its type; in particular the count of a KeyUpdateBudget
\* never exceeds its limit.
THEOREM TypeCorrect == KeyUpdateSpec => []TypeOK
  <1>1. KeyUpdateInit => TypeOK
    <2>1. Active \in Traffic
      BY KeyUpdateAssumption DEF Active, Traffic
    <2> QED
      BY <2>1 DEF KeyUpdateInit, TypeOK
  <1>2. TypeOK /\ [KeyUpdateNext]_keyUpdateVars => TypeOK'
    <2> SUFFICES ASSUME TypeOK, [KeyUpdateNext]_keyUpdateVars PROVE TypeOK'
      BY Zenon
    <2>1. ASSUME NEW e \in Endpoint, NEW request \in Requests, SendInto(e, request)
          PROVE  TypeOK'
      <3>1. calls' \in [Endpoint -> Nat]
        BY <2>1 DEF SendInto, TypeOK
      <3> QED
        BY <2>1, <3>1, SendTypes, SMTT(30) DEF SendInto, TypeOK
    <2>2. ASSUME NEW e \in Endpoint, SendPendingInto(e) PROVE TypeOK'
      <3>1. "NotRequested" \in Requests
        BY Zenon DEF Requests
      <3> QED
        BY <2>2, <3>1, SendTypes, SMTT(30) DEF SendPendingInto, TypeOK
    <2>3. ASSUME NEW e \in Endpoint, SendApplicationData(e) PROVE TypeOK'
      <3>1. log' \in [Endpoint -> Seq(Record)]
        BY <2>3, SealEffect, Zenon DEF SendApplicationData
      <3>2. calls' \in [Endpoint -> Nat]
        BY <2>3 DEF SendApplicationData, TypeOK
      <3> QED
        BY <2>3, <3>1, <3>2, Zenon DEF SendApplicationData, TypeOK
    <2>4. ASSUME NEW e \in Endpoint, ReceiveApplicationData(e) PROVE TypeOK'
      <3>1. traffic' \in [Endpoint -> Traffic]
        BY <2>4, TrafficTypes, Zenon DEF ReceiveApplicationData, TypeOK
      <3>2. rd' \in [Endpoint -> Nat]
        BY <2>4 DEF ReceiveApplicationData, TypeOK
      <3> QED
        BY <2>4, <3>1, <3>2, Zenon DEF ReceiveApplicationData, TypeOK
    <2>5. ASSUME NEW e \in Endpoint, Receive(e) PROVE TypeOK'
      <3>1. rd' \in [Endpoint -> Nat]
        BY <2>5 DEF Receive, TypeOK
      <3>2. CASE Accepts(e)
        BY <2>5, <3>1, <3>2, AcceptsEffect, Zenon DEF Receive, Accepts, TypeOK
      <3>3. CASE Poison(e) /\ UNCHANGED <<sealKey, openKey>>
        BY <2>5, <3>1, <3>3, PoisonTypes, Zenon DEF Receive, TypeOK
      <3> QED
        BY <2>5, <3>2, <3>3, ReceiveCases, Zenon
    <2>6. CASE UNCHANGED keyUpdateVars
      BY <2>6, Zenon DEF keyUpdateVars, TypeOK
    <2> QED
      BY <2>1, <2>2, <2>3, <2>4, <2>5, <2>6, Zenon DEF KeyUpdateNext, Step
  <1> QED
    BY <1>1, <1>2, PTL DEF KeyUpdateSpec

----------------------------------------------------------------------------
\* The invariant holds initially.
LEMMA KeyInvInit == KeyUpdateInit => LogChained /\ WriterInStep /\ ReaderInStep
  BY PeerType DEF KeyUpdateInit, LogChained, WriterInStep, ReaderInStep, GenAfter, Active

\* A log that grew by a record of its writer's generation is still chained.
LEMMA SealChained ==
    ASSUME KeyInv, NEW e \in Endpoint, NEW kind \in {"app"} \cup Requests,
           state[e] = "Done", SealRecord(e, kind)
    PROVE  /\ LogChained'
           /\ \A f \in Endpoint : Len(log[f]) <= Len(log'[f])
           /\ \A f \in Endpoint : \A i \in 0 .. Len(log[f]) :
                  GenAfter(log'[f], i) = GenAfter(log[f], i)
           /\ GenAfter(log'[e], Len(log'[e])) =
                  IF kind \in Requests THEN sealKey[e] + 1 ELSE sealKey[e]
  <1> DEFINE r == [kind |-> kind, gen |-> sealKey[e], seen |-> rd[e]]
  <1>1. TypeOK /\ LogChained /\ WriterInStep
    BY Zenon DEF KeyInv
  <1>2. /\ log' \in [Endpoint -> Seq(Record)]
        /\ log'[e] = Append(log[e], r)
        /\ r \in Record
        /\ \A f \in Endpoint : f # e => log'[f] = log[f]
    BY <1>1, SealEffect, Zenon
  <1>3. log \in [Endpoint -> Seq(Record)]
    BY <1>1, Zenon DEF TypeOK
  <1>4. ASSUME NEW f \in Endpoint PROVE Len(log[f]) <= Len(log'[f])
    <2>1. log[f] \in Seq(Record)
      BY <1>3, Zenon
    <2>2. Len(Append(log[f], r)) = Len(log[f]) + 1 /\ Len(log[f]) \in Nat
      BY <2>1, <1>2
    <2> QED
      BY <1>2, <2>2, SMTT(30)
  <1>5. ASSUME NEW f \in Endpoint, NEW i \in 0 .. Len(log[f])
        PROVE  GenAfter(log'[f], i) = GenAfter(log[f], i)
    <2>1. CASE f = e
      BY <1>2, <1>3, <2>1, GenAfterAppend, ZenonT(40)
    <2>2. CASE f # e
      BY <1>2, <2>2, Zenon
    <2> QED
      BY <2>1, <2>2, Zenon
  <1>6. /\ Len(log'[e]) = Len(log[e]) + 1
        /\ log'[e][Len(log[e]) + 1] = r
        /\ \A i \in 1 .. Len(log[e]) : log'[e][i] = log[e][i]
    BY <1>2, <1>3
  <1>7. r.gen = sealKey[e] /\ r.kind = kind
    BY Zenon
  <1>8. GenAfter(log'[e], Len(log'[e])) = IF kind \in Requests THEN sealKey[e] + 1 ELSE sealKey[e]
    <2>1. Len(log[e]) + 1 # 0
      BY <1>3
    <2> QED
      BY <1>6, <1>7, <2>1, Zenon DEF GenAfter
  <1>9. ASSUME NEW f \in Endpoint, NEW i \in 1 .. Len(log'[f])
        PROVE  log'[f][i].gen = GenAfter(log'[f], i - 1)
    <2>1. CASE f # e
      BY <1>1, <1>2, <2>1, Zenon DEF LogChained
    <2>2. CASE f = e /\ i \in 1 .. Len(log[e])
      <3>1. log[e][i].gen = GenAfter(log[e], i - 1)
        BY <1>1, <2>2, Zenon DEF LogChained
      <3>2. i - 1 \in 0 .. Len(log[e])
        BY <2>2, <1>3
      <3>3. GenAfter(log'[e], i - 1) = GenAfter(log[e], i - 1)
        BY <1>5, <3>2, Zenon
      <3> QED
        BY <1>6, <2>2, <3>1, <3>3, Zenon
    <2>3. CASE f = e /\ i = Len(log[e]) + 1
      <3>1. sealKey[e] = GenAfter(log[e], Len(log[e]))
        BY <1>1, Zenon DEF WriterInStep
      <3>2. Len(log[e]) \in 0 .. Len(log[e]) /\ i - 1 = Len(log[e])
        BY <1>3, <2>3
      <3>3. GenAfter(log'[e], i - 1) = GenAfter(log[e], Len(log[e]))
        BY <1>5, <3>2, Zenon
      <3> QED
        BY <1>6, <1>7, <2>3, <3>1, <3>3, Zenon
    <2> QED
      BY <1>3, <1>6, <2>1, <2>2, <2>3
  <1> QED
    BY <1>4, <1>5, <1>8, <1>9, Zenon DEF LogChained

\* A step that seals nothing leaves the generations of the logs alone, so an
\* endpoint it does not touch stays in step.
LEMMA SendKeepsInv ==
    ASSUME KeyInv, NEW e \in Endpoint, NEW request \in Requests,
           state[e] = "Done", Send(e, request)
    PROVE  (LogChained /\ WriterInStep /\ ReaderInStep)'
  <1>1. TypeOK /\ LogChained /\ WriterInStep /\ ReaderInStep
    BY Zenon DEF KeyInv
  <1>2. sealKey \in [Endpoint -> Nat] /\ log \in [Endpoint -> Seq(Record)] /\ rd \in [Endpoint -> Nat]
    BY <1>1, Zenon DEF TypeOK
  <1>3. CASE SendSucceeds(e, request)
    <2>1. SealRecord(e, request) /\ state' = state /\ rd' = rd /\ openKey' = openKey
      BY <1>3, Zenon DEF SendSucceeds
    <2>2. /\ LogChained'
          /\ \A f \in Endpoint : Len(log[f]) <= Len(log'[f])
          /\ \A f \in Endpoint : \A i \in 0 .. Len(log[f]) :
                 GenAfter(log'[f], i) = GenAfter(log[f], i)
          /\ GenAfter(log'[e], Len(log'[e])) = sealKey[e] + 1
      BY <2>1, SealChained, Zenon
    <2>3. /\ sealKey'[e] = traffic[e].write + 1
          /\ traffic'[e].write = traffic[e].write + 1
          /\ traffic'[e].read = traffic[e].read
          /\ \A f \in Endpoint : f # e => sealKey'[f] = sealKey[f] /\ traffic'[f] = traffic[f]
      BY <1>1, <1>3, SendSucceedsEffect, Zenon
    <2>4. \A f \in Endpoint : f # e => log'[f] = log[f]
      BY <1>1, <2>1, SealEffect, Zenon
    <2>5. WriterInStep'
      <3> SUFFICES ASSUME NEW f \in Endpoint, state'[f] = "Done"
                   PROVE  /\ sealKey'[f] = GenAfter(log'[f], Len(log'[f]))
                          /\ traffic'[f].write = sealKey'[f]
        BY Zenon DEF WriterInStep
      <3>1. CASE f = e
        BY <1>1, <2>1, <2>2, <2>3, <3>1, Zenon DEF WriterInStep
      <3>2. CASE f # e
        BY <1>1, <2>1, <2>3, <2>4, <3>2, Zenon DEF WriterInStep
      <3> QED
        BY <3>1, <3>2, Zenon
    <2>6. ReaderInStep'
      <3> SUFFICES ASSUME NEW f \in Endpoint
                   PROVE  /\ rd'[f] <= Len(log'[Peer(f)])
                          /\ state'[f] = "Done" =>
                                 /\ openKey'[f] = GenAfter(log'[Peer(f)], rd'[f])
                                 /\ traffic'[f].read = openKey'[f]
        BY Zenon DEF ReaderInStep
      <3>1. Peer(f) \in Endpoint /\ rd[f] \in 0 .. Len(log[Peer(f)])
        BY <1>1, <1>2, PeerType DEF ReaderInStep
      <3>2. GenAfter(log'[Peer(f)], rd[f]) = GenAfter(log[Peer(f)], rd[f])
        BY <2>2, <3>1, Zenon
      <3>3. log'[Peer(f)] \in Seq(Record)
        BY <1>1, <2>1, <3>1, SealEffect, Zenon
      <3>4. rd'[f] <= Len(log'[Peer(f)])
        BY <1>2, <2>1, <2>2, <3>1, <3>3, SMTT(30)
      <3>5. traffic'[f].read = traffic[f].read
        BY <2>3, Zenon
      <3> QED
        BY <1>1, <2>1, <3>2, <3>4, <3>5, Zenon DEF ReaderInStep
    <2> QED
      BY <2>2, <2>5, <2>6, Zenon
  <1>4. CASE SendFails(e, request)
    <2>1. /\ state'[e] = "Failed"
          /\ \A f \in Endpoint : f # e => state'[f] = state[f] /\ traffic'[f] = traffic[f]
          /\ rd' = rd /\ openKey' = openKey /\ sealKey' = sealKey
      BY <1>1, <1>4, PoisonTypes, Zenon DEF SendFails
    <2>2. /\ LogChained'
          /\ \A f \in Endpoint : Len(log[f]) <= Len(log'[f])
          /\ \A f \in Endpoint : \A i \in 0 .. Len(log[f]) :
                 GenAfter(log'[f], i) = GenAfter(log[f], i)
          /\ log' \in [Endpoint -> Seq(Record)]
          /\ \A f \in Endpoint : f # e => log'[f] = log[f]
      <3>1. CASE SealRecord(e, request)
        BY <1>1, <3>1, SealChained, SealEffect, Zenon
      <3>2. CASE UNCHANGED log
        BY <1>1, <1>2, <3>2 DEF LogChained
      <3> QED
        BY <1>4, <3>1, <3>2, Zenon DEF SendFails
    <2>3. WriterInStep'
      BY <1>1, <2>1, <2>2, SMTT(30) DEF WriterInStep
    <2>4. ReaderInStep'
      <3> SUFFICES ASSUME NEW f \in Endpoint
                   PROVE  /\ rd'[f] <= Len(log'[Peer(f)])
                          /\ state'[f] = "Done" =>
                                 /\ openKey'[f] = GenAfter(log'[Peer(f)], rd'[f])
                                 /\ traffic'[f].read = openKey'[f]
        BY Zenon DEF ReaderInStep
      <3>1. Peer(f) \in Endpoint /\ rd[f] \in 0 .. Len(log[Peer(f)])
        BY <1>1, <1>2, PeerType DEF ReaderInStep
      <3>2. GenAfter(log'[Peer(f)], rd[f]) = GenAfter(log[Peer(f)], rd[f])
        BY <2>2, <3>1, Zenon
      <3>3. rd'[f] <= Len(log'[Peer(f)])
        BY <1>2, <2>1, <2>2, <3>1
      <3> QED
        BY <1>1, <2>1, <3>2, <3>3, Zenon DEF ReaderInStep
    <2> QED
      BY <2>2, <2>3, <2>4, Zenon
  <1> QED
    BY <1>3, <1>4, SendCases, Zenon

\* The invariant is inductive.
LEMMA KeyInvStep ==
    KeyInv /\ [KeyUpdateNext]_keyUpdateVars => (LogChained /\ WriterInStep /\ ReaderInStep)'
  <1> SUFFICES ASSUME KeyInv, [KeyUpdateNext]_keyUpdateVars
               PROVE  (LogChained /\ WriterInStep /\ ReaderInStep)'
    BY Zenon
  <1>0. TypeOK /\ LogChained /\ WriterInStep /\ ReaderInStep
    BY Zenon DEF KeyInv
  <1>T. /\ sealKey \in [Endpoint -> Nat] /\ openKey \in [Endpoint -> Nat]
        /\ log \in [Endpoint -> Seq(Record)] /\ rd \in [Endpoint -> Nat]
        /\ traffic \in [Endpoint -> Traffic]
    BY <1>0, Zenon DEF TypeOK
  <1>1. ASSUME NEW e \in Endpoint, NEW request \in Requests, SendInto(e, request)
        PROVE  (LogChained /\ WriterInStep /\ ReaderInStep)'
    BY <1>1, SendKeepsInv, Zenon DEF SendInto
  <1>2. ASSUME NEW e \in Endpoint, SendPendingInto(e)
        PROVE  (LogChained /\ WriterInStep /\ ReaderInStep)'
    <2>1. "NotRequested" \in Requests
      BY Zenon DEF Requests
    <2> QED
      BY <1>2, <2>1, SendKeepsInv, Zenon DEF SendPendingInto
  <1>3. ASSUME NEW e \in Endpoint, SendApplicationData(e)
        PROVE  (LogChained /\ WriterInStep /\ ReaderInStep)'
    <2>1. /\ SealRecord(e, "app") /\ state[e] = "Done"
          /\ state' = state /\ traffic' = traffic /\ rd' = rd
          /\ sealKey' = sealKey /\ openKey' = openKey
      BY <1>3, Zenon DEF SendApplicationData
    <2>2. "app" \notin Requests
      BY Zenon DEF Requests
    <2>3. /\ LogChained'
          /\ \A f \in Endpoint : Len(log[f]) <= Len(log'[f])
          /\ \A f \in Endpoint : \A i \in 0 .. Len(log[f]) :
                 GenAfter(log'[f], i) = GenAfter(log[f], i)
          /\ GenAfter(log'[e], Len(log'[e])) = sealKey[e]
      BY <2>1, <2>2, SealChained, Zenon
    <2>4. log' \in [Endpoint -> Seq(Record)] /\ \A f \in Endpoint : f # e => log'[f] = log[f]
      BY <1>0, <2>1, SealEffect, Zenon
    <2>5. WriterInStep'
      BY <1>0, <2>1, <2>3, <2>4, Zenon DEF WriterInStep
    <2>6. ReaderInStep'
      <3> SUFFICES ASSUME NEW f \in Endpoint
                   PROVE  /\ rd'[f] <= Len(log'[Peer(f)])
                          /\ state'[f] = "Done" =>
                                 /\ openKey'[f] = GenAfter(log'[Peer(f)], rd'[f])
                                 /\ traffic'[f].read = openKey'[f]
        BY Zenon DEF ReaderInStep
      <3>1. Peer(f) \in Endpoint /\ rd[f] \in 0 .. Len(log[Peer(f)])
        BY <1>0, <1>T, PeerType DEF ReaderInStep
      <3>2. GenAfter(log'[Peer(f)], rd[f]) = GenAfter(log[Peer(f)], rd[f])
        BY <2>3, <3>1, Zenon
      <3>3. rd'[f] <= Len(log'[Peer(f)])
        BY <1>T, <2>1, <2>3, <2>4, <3>1
      <3> QED
        BY <1>0, <2>1, <3>2, <3>3, Zenon DEF ReaderInStep
    <2> QED
      BY <2>3, <2>5, <2>6, Zenon
  <1>4. ASSUME NEW e \in Endpoint, HasNext(e), Opens(e),
               rd' = [rd EXCEPT ![e] = @ + 1], log' = log
        PROVE  /\ LogChained'
               /\ \A f \in Endpoint : rd'[f] <= Len(log'[Peer(f)])
               /\ \A f \in Endpoint : f # e => rd'[f] = rd[f]
               /\ state[e] = "Done"
               /\ GenAfter(log'[Peer(e)], rd'[e]) =
                      IF NextRecord(e).kind \in Requests THEN openKey[e] + 1 ELSE openKey[e]
    <2>1. rd[e] \in Nat /\ rd[e] < Len(log[Peer(e)]) /\ rd'[e] = rd[e] + 1
      BY <1>4, <1>T, Zenon DEF HasNext
    <2>2. \A f \in Endpoint : f # e => rd'[f] = rd[f]
      BY <1>4, <1>T, Zenon
    <2>3. LogChained'
      BY <1>0, <1>4, Zenon DEF LogChained
    <2>4. Peer(e) \in Endpoint /\ Len(log[Peer(e)]) \in Nat
      BY <1>T, PeerType
    <2>5. \A f \in Endpoint : rd'[f] <= Len(log'[Peer(f)])
      BY <1>0, <1>4, <2>1, <2>2, <2>4 DEF ReaderInStep
    <2>6. log[Peer(e)][rd[e] + 1].gen = openKey[e]
      BY <1>4, Zenon DEF Opens, NextRecord
    <2>7. rd[e] + 1 # 0
      BY <2>1
    <2>8. GenAfter(log'[Peer(e)], rd'[e]) =
              IF NextRecord(e).kind \in Requests THEN openKey[e] + 1 ELSE openKey[e]
      BY <1>4, <2>1, <2>6, <2>7 DEF GenAfter, NextRecord
    <2> QED
      BY <1>4, <2>2, <2>3, <2>5, <2>8, Zenon DEF HasNext
  <1>5. ASSUME NEW e \in Endpoint, ReceiveApplicationData(e)
        PROVE  (LogChained /\ WriterInStep /\ ReaderInStep)'
    <2>1. /\ HasNext(e) /\ Opens(e) /\ NextRecord(e).kind = "app"
          /\ rd' = [rd EXCEPT ![e] = @ + 1] /\ log' = log /\ state' = state
          /\ sealKey' = sealKey /\ openKey' = openKey
          /\ traffic' = [traffic EXCEPT ![e] = ResetUpdates(@)]
      BY <1>5, Zenon DEF ReceiveApplicationData
    <2>2. "app" \notin Requests
      BY Zenon DEF Requests
    <2>3. /\ \A f \in Endpoint : traffic'[f].write = traffic[f].write
          /\ \A f \in Endpoint : traffic'[f].read = traffic[f].read
      <3>1. traffic'[e] = ResetUpdates(traffic[e]) /\ traffic[e] \in Traffic
        BY <1>T, <2>1, Zenon
      <3>2. traffic'[e].write = traffic[e].write /\ traffic'[e].read = traffic[e].read
        BY <3>1, TrafficEffects
      <3>3. \A f \in Endpoint : f # e => traffic'[f] = traffic[f]
        BY <1>T, <2>1, Zenon
      <3> QED
        BY <3>2, <3>3, Zenon
    <2>4. WriterInStep'
      BY <1>0, <2>1, <2>3, Zenon DEF WriterInStep
    <2>5. ReaderInStep'
      BY <1>0, <1>4, <2>1, <2>2, <2>3, ZenonT(40) DEF ReaderInStep
    <2> QED
      BY <1>4, <2>1, <2>4, <2>5, Zenon
  <1>6. ASSUME NEW e \in Endpoint, Receive(e)
        PROVE  (LogChained /\ WriterInStep /\ ReaderInStep)'
    <2>1. /\ HasNext(e) /\ Opens(e) /\ NextRecord(e).kind \in Requests
          /\ rd' = [rd EXCEPT ![e] = @ + 1] /\ log' = log
      BY <1>6, Zenon DEF Receive
    <2>2. CASE Accepts(e)
      <3>1. state' = state
        BY <2>2, Zenon DEF Accepts
      <3>2. /\ openKey'[e] = traffic[e].read + 1 /\ traffic'[e].read = traffic[e].read + 1
            /\ sealKey'[e] = sealKey[e] /\ traffic'[e].write = traffic[e].write
            /\ \A f \in Endpoint : f # e => /\ sealKey'[f] = sealKey[f]
                                           /\ openKey'[f] = openKey[f]
                                           /\ traffic'[f] = traffic[f]
        BY <1>0, <2>2, AcceptsEffect, Zenon
      <3>3. WriterInStep'
        BY <1>0, <2>1, <3>1, <3>2, Zenon DEF WriterInStep
      <3>4. ReaderInStep'
        BY <1>0, <1>4, <2>1, <3>1, <3>2, ZenonT(40) DEF ReaderInStep
      <3> QED
        BY <1>4, <2>1, <3>3, <3>4, Zenon
    <2>3. CASE Poison(e) /\ UNCHANGED <<sealKey, openKey>>
      <3>1. /\ state'[e] = "Failed"
            /\ \A f \in Endpoint : f # e => state'[f] = state[f] /\ traffic'[f] = traffic[f]
            /\ sealKey' = sealKey /\ openKey' = openKey
        BY <1>0, <2>3, PoisonTypes, Zenon
      <3>2. WriterInStep'
        BY <1>0, <2>1, <3>1, Zenon DEF WriterInStep
      <3>3. ReaderInStep'
        BY <1>0, <1>4, <2>1, <3>1, ZenonT(40) DEF ReaderInStep
      <3> QED
        BY <1>4, <2>1, <3>2, <3>3, Zenon
    <2> QED
      BY <1>6, <2>2, <2>3, ReceiveCases, Zenon
  <1>7. CASE UNCHANGED keyUpdateVars
    BY <1>0, <1>7, Zenon DEF keyUpdateVars, LogChained, WriterInStep, ReaderInStep
  <1> QED
    BY <1>1, <1>2, <1>3, <1>5, <1>6, <1>7, Zenon DEF KeyUpdateNext, Step

\* Every record still to be read opens under the installed read key
\* (KeyUpdateCore::send and receive), for every budget and number of calls.
THEOREM RecordsAlwaysOpen == KeyUpdateSpec => []RecordsOpen
  <1>1. KeyInv => RecordsOpen
    <2> SUFFICES ASSUME KeyInv, NEW e \in Endpoint, HasNext(e) PROVE Opens(e)
      BY Zenon DEF RecordsOpen
    <2>1. LogChained /\ ReaderInStep /\ TypeOK
      BY Zenon DEF KeyInv
    <2>2. rd[e] \in Nat /\ rd[e] < Len(log[Peer(e)]) /\ state[e] = "Done"
      BY <2>1, Zenon DEF HasNext, TypeOK
    <2>3. Peer(e) \in Endpoint /\ Len(log[Peer(e)]) \in Nat
      BY <2>1, PeerType DEF TypeOK
    <2>4. rd[e] + 1 \in 1 .. Len(log[Peer(e)]) /\ (rd[e] + 1) - 1 = rd[e]
      BY <2>2, <2>3
    <2>5. log[Peer(e)][rd[e] + 1].gen = GenAfter(log[Peer(e)], rd[e])
      BY <2>1, <2>3, <2>4, Zenon DEF LogChained
    <2>6. openKey[e] = GenAfter(log[Peer(e)], rd[e])
      BY <2>1, <2>2, Zenon DEF ReaderInStep
    <2> QED
      BY <2>5, <2>6, Zenon DEF Opens, NextRecord
  <1>2. TypeOK /\ KeyUpdateInit => KeyInv
    BY KeyInvInit, Zenon DEF KeyInv
  <1>3. TypeOK' /\ KeyInv /\ [KeyUpdateNext]_keyUpdateVars => KeyInv'
    BY KeyInvStep, Zenon DEF KeyInv
  <1> QED
    BY <1>1, <1>2, <1>3, TypeCorrect, PTL DEF KeyUpdateSpec

----------------------------------------------------------------------------
(* What a step means to an endpoint that is live after it.  The two         *)
(* remaining invariants are about one reader and the two logs, so they need *)
(* only this much of the actions.                                           *)

\* The length of the current run of updates is what the budget has counted.
CountCoversRun ==
    \A e \in Endpoint : state[e] = "Done" =>
        \A i \in 1 .. rd[e] :
            (\A j \in i .. rd[e] : log[Peer(e)][j].kind \in Requests)
                => rd[e] - i + 1 <= traffic[e].count

\* What the budget has counted is a run of updates just read.
RunCoversCount ==
    \A e \in Endpoint : state[e] = "Done" =>
        /\ traffic[e].count <= rd[e]
        /\ \A j \in 1 .. rd[e] : j > rd[e] - traffic[e].count =>
              log[Peer(e)][j].kind \in Requests

\* Nothing is read; the only way to stop owing a response is to send one.
ReadsNothing(f) ==
    /\ rd'[f] = rd[f]
    /\ traffic'[f].count = traffic[f].count
    /\ \/ traffic[f].pending => traffic'[f].pending
       \/ /\ Len(log'[f]) \in 1 .. Len(log'[f])
          /\ log'[f][Len(log'[f])].kind = "NotRequested"
          /\ log'[f][Len(log'[f])].seen = rd[f]

\* Application data is read.
ReadsData(f) ==
    /\ rd'[f] = rd[f] + 1
    /\ log' = log
    /\ log[Peer(f)][rd[f] + 1].kind = "app"
    /\ traffic'[f].count = 0
    /\ traffic[f].pending => traffic'[f].pending

\* A KeyUpdate is read and charged to the budget; a request is noted.
ReadsUpdate(f) ==
    /\ rd'[f] = rd[f] + 1
    /\ log' = log
    /\ log[Peer(f)][rd[f] + 1].kind \in Requests
    /\ traffic'[f].count = traffic[f].count + 1
    /\ traffic[f].pending => traffic'[f].pending
    /\ log[Peer(f)][rd[f] + 1].kind = "Requested" => traffic'[f].pending

\* A record, once sealed, stays where it is in its log.
LEMMA LogsGrow ==
    ASSUME TypeOK, [KeyUpdateNext]_keyUpdateVars, NEW f \in Endpoint
    PROVE  /\ Len(log[f]) <= Len(log'[f])
           /\ \A i \in 1 .. Len(log[f]) : log'[f][i] = log[f][i]
  <1>1. log[f] \in Seq(Record) /\ Len(log[f]) \in Nat
    BY DEF TypeOK
  <1>2. ASSUME NEW e \in Endpoint, NEW kind \in {"app"} \cup Requests, SealRecord(e, kind)
        PROVE  /\ Len(log[f]) <= Len(log'[f])
               /\ \A i \in 1 .. Len(log[f]) : log'[f][i] = log[f][i]
    <2> DEFINE r == [kind |-> kind, gen |-> sealKey[e], seen |-> rd[e]]
    <2>1. /\ r \in Record
          /\ f = e => log'[f] = Append(log[f], r)
          /\ f # e => log'[f] = log[f]
      BY <1>2, SealEffect, Zenon
    <2> HIDE DEF r
    <2>2. /\ Len(Append(log[f], r)) = Len(log[f]) + 1
          /\ \A i \in 1 .. Len(log[f]) : Append(log[f], r)[i] = log[f][i]
      BY <1>1, <2>1
    <2> QED
      BY <1>1, <2>1, <2>2, SMTT(30)
  <1>3. log' = log \/ \E e \in Endpoint, kind \in {"app"} \cup Requests : SealRecord(e, kind)
    <2>1. ASSUME NEW e, NEW request \in Requests, Send(e, request)
          PROVE  log' = log \/ SealRecord(e, request)
      BY <2>1, Zenon DEF Send
    <2>2. "NotRequested" \in Requests
      BY Zenon DEF Requests
    <2>3. ASSUME NEW e \in Endpoint, Step(e)
          PROVE  log' = log \/ \E kind \in {"app"} \cup Requests : SealRecord(e, kind)
      <3>1. CASE \E request \in Requests : SendInto(e, request)
        BY <2>1, <3>1, Zenon DEF SendInto
      <3>2. CASE SendPendingInto(e)
        BY <2>1, <2>2, <3>2, Zenon DEF SendPendingInto
      <3>3. CASE SendApplicationData(e)
        BY <3>3, Zenon DEF SendApplicationData
      <3>4. CASE ReceiveApplicationData(e)
        BY <3>4, Zenon DEF ReceiveApplicationData
      <3>5. CASE Receive(e)
        BY <3>5, Zenon DEF Receive
      <3> QED
        BY <2>3, <3>1, <3>2, <3>3, <3>4, <3>5, Zenon DEF Step
    <2> QED
      BY <2>3, Zenon DEF KeyUpdateNext, keyUpdateVars
  <1> QED
    BY <1>1, <1>2, <1>3

\* A send that goes through leaves nothing owed only by answering.
LEMMA SendReads ==
    ASSUME TypeOK, NEW e \in Endpoint, NEW request \in Requests, Send(e, request),
           NEW f \in Endpoint, state'[f] = "Done"
    PROVE  state[f] = "Done" /\ ReadsNothing(f)
  <1>1. CASE SendFails(e, request)
    <2>1. f # e /\ state'[f] = state[f] /\ traffic'[f] = traffic[f] /\ rd' = rd
      BY <1>1, PoisonTypes, Zenon DEF SendFails
    <2> QED
      BY <2>1, Zenon DEF ReadsNothing
  <1>2. CASE SendSucceeds(e, request)
    <2>1. SealRecord(e, request) /\ state' = state /\ rd' = rd
      BY <1>2, Zenon DEF SendSucceeds
    <2>2. /\ traffic'[f].count = traffic[f].count
          /\ f # e \/ request = "Requested" => traffic'[f].pending = traffic[f].pending
      BY <1>2, SendSucceedsEffect, Zenon
    <2>3. CASE f # e \/ request = "Requested"
      BY <2>1, <2>2, <2>3, Zenon DEF ReadsNothing
    <2>4. CASE f = e /\ request = "NotRequested"
      <3> DEFINE r == [kind |-> request, gen |-> sealKey[e], seen |-> rd[e]]
      <3>1. log'[f] = Append(log[f], r) /\ log[f] \in Seq(Record) /\ r \in Record
        BY <2>1, <2>4, SealEffect, Zenon DEF TypeOK
      <3>2. Len(log'[f]) \in 1 .. Len(log'[f]) /\ log'[f][Len(log'[f])] = r
        <4> HIDE DEF r
        <4> QED
          BY <3>1
      <3> QED
        BY <2>1, <2>2, <2>4, <3>2 DEF ReadsNothing
    <2> QED
      BY <2>3, <2>4, Zenon DEF Requests
  <1> QED
    BY <1>1, <1>2, SendCases, Zenon

\* Every step is one of the three to every endpoint that stays live.
LEMMA ReaderStep ==
    ASSUME TypeOK, [KeyUpdateNext]_keyUpdateVars, NEW f \in Endpoint, state'[f] = "Done"
    PROVE  /\ state[f] = "Done"
           /\ ReadsNothing(f) \/ ReadsData(f) \/ ReadsUpdate(f)
  <1>1. ASSUME NEW e \in Endpoint, NEW request \in Requests, SendInto(e, request)
        PROVE  state[f] = "Done" /\ ReadsNothing(f)
    BY <1>1, SendReads, Zenon DEF SendInto
  <1>2. ASSUME NEW e \in Endpoint, SendPendingInto(e)
        PROVE  state[f] = "Done" /\ ReadsNothing(f)
    <2>1. "NotRequested" \in Requests
      BY Zenon DEF Requests
    <2> QED
      BY <1>2, <2>1, SendReads, Zenon DEF SendPendingInto
  <1>3. ASSUME NEW e \in Endpoint, SendApplicationData(e)
        PROVE  state[f] = "Done" /\ ReadsNothing(f)
    BY <1>3, Zenon DEF SendApplicationData, ReadsNothing
  <1>4. ASSUME NEW e \in Endpoint, ReceiveApplicationData(e)
        PROVE  state[f] = "Done" /\ (ReadsNothing(f) \/ ReadsData(f))
    <2>1. /\ NextRecord(e).kind = "app" /\ rd' = [rd EXCEPT ![e] = @ + 1]
          /\ traffic' = [traffic EXCEPT ![e] = ResetUpdates(@)]
          /\ state' = state /\ log' = log
      BY <1>4, Zenon DEF ReceiveApplicationData
    <2>2. traffic[e] \in Traffic /\ traffic'[e] = ResetUpdates(traffic[e]) /\ rd'[e] = rd[e] + 1
      BY <2>1, Zenon DEF TypeOK
    <2>3. traffic'[e].pending = traffic[e].pending /\ traffic'[e].count = 0
      <3>1. /\ ResetUpdates(traffic[e]).pending = traffic[e].pending
            /\ ResetUpdates(traffic[e]).count = 0
        BY <2>2, Zenon DEF Traffic, ResetUpdates
      <3> QED
        BY <2>2, <3>1, Zenon
    <2>4. CASE f = e
      BY <2>1, <2>2, <2>3, <2>4, Zenon DEF ReadsData, NextRecord
    <2>5. CASE f # e
      BY <2>1, <2>5, Zenon DEF ReadsNothing, TypeOK
    <2> QED
      BY <2>4, <2>5, Zenon
  <1>5. ASSUME NEW e \in Endpoint, Receive(e)
        PROVE  state[f] = "Done" /\ (ReadsNothing(f) \/ ReadsUpdate(f))
    <2>1. /\ rd'[e] = rd[e] + 1 /\ log' = log /\ (f # e => rd'[f] = rd[f])
          /\ NextRecord(e).kind \in Requests
      BY <1>5, Zenon DEF Receive, TypeOK
    <2>2. CASE Accepts(e)
      <3>1. /\ state' = state
            /\ f # e => traffic'[f] = traffic[f]
            /\ traffic'[e].count = traffic[e].count + 1
            /\ traffic[e].pending => traffic'[e].pending
            /\ NextRecord(e).kind = "Requested" => traffic'[e].pending
        BY <2>2, AcceptsEffect, ZenonT(40) DEF Accepts
      <3>2. CASE f = e
        BY <2>1, <3>1, <3>2, Zenon DEF ReadsUpdate, NextRecord
      <3>3. CASE f # e
        BY <2>1, <3>1, <3>3, Zenon DEF ReadsNothing
      <3> QED
        BY <3>2, <3>3, Zenon
    <2>3. CASE Poison(e)
      <3>1. f # e /\ state'[f] = state[f] /\ traffic'[f] = traffic[f]
        BY <2>3, PoisonTypes, Zenon
      <3> QED
        BY <2>1, <3>1, Zenon DEF ReadsNothing
    <2> QED
      BY <1>5, <2>2, <2>3, ReceiveCases, Zenon
  <1>6. CASE UNCHANGED keyUpdateVars
    BY <1>6, Zenon DEF keyUpdateVars, ReadsNothing
  <1> QED
    BY <1>1, <1>2, <1>3, <1>4, <1>5, <1>6, Zenon DEF KeyUpdateNext, Step

\* A run of updates grows with its count, and application data ends both.
LEMMA RunStep ==
    TypeOK /\ TypeOK' /\ ReaderInStep /\ RunCoversCount /\ [KeyUpdateNext]_keyUpdateVars
        => RunCoversCount'
  <1> SUFFICES ASSUME TypeOK, TypeOK', ReaderInStep, RunCoversCount,
                      [KeyUpdateNext]_keyUpdateVars, NEW e \in Endpoint, state'[e] = "Done"
               PROVE  /\ traffic'[e].count <= rd'[e]
                      /\ \A j \in 1 .. rd'[e] : j > rd'[e] - traffic'[e].count =>
                            log'[Peer(e)][j].kind \in Requests
    BY Zenon DEF RunCoversCount
  <1>1. /\ state[e] = "Done"
        /\ ReadsNothing(e) \/ ReadsData(e) \/ ReadsUpdate(e)
        /\ Peer(e) \in Endpoint
    BY ReaderStep, PeerType, Zenon
  <1>2. /\ rd[e] \in Nat /\ log[Peer(e)] \in Seq(Record)
        /\ traffic[e] \in Traffic /\ rd[e] <= Len(log[Peer(e)])
    BY <1>1, Zenon DEF TypeOK, ReaderInStep
  <1>3. traffic[e].count \in Nat /\ Len(log[Peer(e)]) \in Nat
    BY <1>2, KeyUpdateAssumption, SMTT(30) DEF Traffic
  <1>4. /\ traffic[e].count <= rd[e]
        /\ \A j \in 1 .. rd[e] : j > rd[e] - traffic[e].count => log[Peer(e)][j].kind \in Requests
    BY <1>1, Zenon DEF RunCoversCount
  <1>5. CASE ReadsNothing(e)
    <2>1. rd'[e] = rd[e] /\ traffic'[e].count = traffic[e].count
      BY <1>5, Zenon DEF ReadsNothing
    <2>2. ASSUME NEW j \in 1 .. rd[e] PROVE log'[Peer(e)][j] = log[Peer(e)][j]
      <3>1. j \in 1 .. Len(log[Peer(e)])
        BY <1>2, <1>3
      <3> QED
        BY <1>1, <3>1, LogsGrow, Zenon
    <2> QED
      BY <1>4, <2>1, <2>2, Zenon
  <1>6. CASE ReadsData(e)
    <2>1. rd'[e] = rd[e] + 1 /\ traffic'[e].count = 0
      BY <1>6, Zenon DEF ReadsData
    <2> QED
      BY <1>2, <2>1
  <1>7. CASE ReadsUpdate(e)
    <2>1. /\ rd'[e] = rd[e] + 1 /\ traffic'[e].count = traffic[e].count + 1
          /\ log' = log /\ log[Peer(e)][rd[e] + 1].kind \in Requests
      BY <1>7, Zenon DEF ReadsUpdate
    <2>2. \A j \in 1 .. rd'[e] : j > rd'[e] - traffic'[e].count =>
             j = rd[e] + 1 \/ (j \in 1 .. rd[e] /\ j > rd[e] - traffic[e].count)
      BY <1>2, <1>3, <2>1
    <2>3. traffic'[e].count <= rd'[e]
      BY <1>2, <1>3, <1>4, <2>1
    <2> QED
      BY <1>4, <2>1, <2>2, <2>3, Zenon
  <1> QED
    BY <1>1, <1>5, <1>6, <1>7, Zenon

----------------------------------------------------------------------------
\* A live endpoint has accepted at most LIMIT consecutive KeyUpdates with no
\* application data between them, and refuses the next one only after LIMIT of
\* them (KeyUpdateBudget::consume and reset), for every limit.
THEOREM BudgetAlwaysHolds == KeyUpdateSpec => []BudgetHolds
  <1>1. TypeOK /\ CountCoversRun /\ RunCoversCount => BudgetHolds
    <2> SUFFICES ASSUME TypeOK, CountCoversRun, RunCoversCount,
                        NEW e \in Endpoint, state[e] = "Done"
                 PROVE  /\ \A i \in 1 .. rd[e] :
                              (\A j \in i .. rd[e] : log[Peer(e)][j].kind \in Requests)
                                  => rd[e] - i + 1 <= MAX_KEY_UPDATES_WITHOUT_APP_DATA
                        /\ ~CanConsume(traffic[e]) =>
                              /\ MAX_KEY_UPDATES_WITHOUT_APP_DATA <= rd[e]
                              /\ \A j \in 1 .. rd[e] :
                                    j > rd[e] - MAX_KEY_UPDATES_WITHOUT_APP_DATA =>
                                        log[Peer(e)][j].kind \in Requests
      BY Zenon DEF BudgetHolds
    <2>1. rd[e] \in Nat /\ traffic[e].count \in 0 .. MAX_KEY_UPDATES_WITHOUT_APP_DATA
      BY TrafficFields, Zenon DEF TypeOK
    <2>2. ASSUME NEW i \in 1 .. rd[e],
                 \A j \in i .. rd[e] : log[Peer(e)][j].kind \in Requests
          PROVE  rd[e] - i + 1 <= MAX_KEY_UPDATES_WITHOUT_APP_DATA
      <3>1. rd[e] - i + 1 <= traffic[e].count
        BY <2>2, Zenon DEF CountCoversRun
      <3> QED
        BY <2>1, <3>1, KeyUpdateAssumption
    <2>3. ASSUME ~CanConsume(traffic[e])
          PROVE  /\ MAX_KEY_UPDATES_WITHOUT_APP_DATA <= rd[e]
                 /\ \A j \in 1 .. rd[e] : j > rd[e] - MAX_KEY_UPDATES_WITHOUT_APP_DATA =>
                       log[Peer(e)][j].kind \in Requests
      <3>1. traffic[e].count = MAX_KEY_UPDATES_WITHOUT_APP_DATA
        BY <2>1, <2>3, KeyUpdateAssumption DEF CanConsume
      <3> QED
        BY <3>1, Zenon DEF RunCoversCount
    <2> QED
      BY <2>2, <2>3, Zenon
  <1>2. KeyUpdateInit => CountCoversRun /\ RunCoversCount
    BY DEF KeyUpdateInit, CountCoversRun, RunCoversCount, Active
  <1>3. TypeOK /\ TypeOK' /\ ReaderInStep /\ CountCoversRun /\ [KeyUpdateNext]_keyUpdateVars
            => CountCoversRun'
    <2> SUFFICES ASSUME TypeOK, TypeOK', ReaderInStep, CountCoversRun, [KeyUpdateNext]_keyUpdateVars,
                        NEW e \in Endpoint, state'[e] = "Done", NEW i \in 1 .. rd'[e],
                        \A j \in i .. rd'[e] : log'[Peer(e)][j].kind \in Requests
                 PROVE  rd'[e] - i + 1 <= traffic'[e].count
      BY Zenon DEF CountCoversRun
    <2>1. /\ rd[e] \in Nat /\ rd[e] <= Len(log[Peer(e)]) /\ Peer(e) \in Endpoint
          /\ traffic[e].count \in Nat /\ traffic'[e].count \in Nat
          /\ Len(log[Peer(e)]) \in Nat /\ rd'[e] \in Nat
      <3>1. Peer(e) \in Endpoint
        BY PeerType, Zenon
      <3>2. /\ rd[e] \in Nat /\ rd'[e] \in Nat /\ log[Peer(e)] \in Seq(Record)
            /\ traffic[e] \in Traffic /\ traffic'[e] \in Traffic
        BY <3>1, Zenon DEF TypeOK
      <3>3. traffic[e].count \in Nat /\ traffic'[e].count \in Nat
        BY <3>2, KeyUpdateAssumption, SMTT(30) DEF Traffic
      <3> QED
        BY <3>1, <3>2, <3>3 DEF ReaderInStep
    <2>2. state[e] = "Done" /\ (ReadsNothing(e) \/ ReadsData(e) \/ ReadsUpdate(e))
      BY ReaderStep, Zenon
    <2>3. \A j \in 1 .. Len(log[Peer(e)]) : log'[Peer(e)][j] = log[Peer(e)][j]
      BY <2>1, LogsGrow, Zenon
    <2>4. i \in 1 .. rd[e] /\ rd'[e] >= rd[e] => rd[e] - i + 1 <= traffic[e].count
      <3> HAVE i \in 1 .. rd[e] /\ rd'[e] >= rd[e]
      <3>1. ASSUME NEW j \in i .. rd[e] PROVE log[Peer(e)][j].kind \in Requests
        <4>1. j \in i .. rd'[e] /\ j \in 1 .. Len(log[Peer(e)])
          BY <2>1, SMTT(30)
        <4> QED
          BY <2>3, <4>1, Zenon
      <3> QED
        BY <2>2, <3>1, Zenon DEF CountCoversRun
    <2>5. CASE ReadsNothing(e)
      BY <2>1, <2>4, <2>5 DEF ReadsNothing
    <2>6. CASE ReadsData(e)
      <3>1. rd'[e] = rd[e] + 1 /\ log' = log /\ log[Peer(e)][rd[e] + 1].kind = "app"
        BY <2>6, Zenon DEF ReadsData
      <3>2. rd'[e] \in i .. rd'[e]
        BY <2>1, <3>1
      <3> QED
        BY <3>1, <3>2, Zenon DEF Requests
    <2>7. CASE ReadsUpdate(e)
      <3>1. rd'[e] = rd[e] + 1 /\ traffic'[e].count = traffic[e].count + 1
        BY <2>7, Zenon DEF ReadsUpdate
      <3>2. CASE i = rd[e] + 1
        <4>1. rd'[e] - i + 1 = 1
          BY <2>1, <3>1, <3>2
        <4>2. 1 <= traffic'[e].count
          BY <2>1, <3>1
        <4> QED
          BY <4>1, <4>2, Zenon
      <3>3. CASE i \in 1 .. rd[e]
        BY <2>1, <2>4, <3>1, <3>3, SMTT(30)
      <3> QED
        BY <2>1, <3>1, <3>2, <3>3, SMTT(30)
    <2> QED
      BY <2>2, <2>5, <2>6, <2>7, Zenon
  <1>4. KeyInv => ReaderInStep
    BY Zenon DEF KeyInv
  <1>5. TypeOK /\ KeyUpdateInit => KeyInv
    BY KeyInvInit, Zenon DEF KeyInv
  <1>6. TypeOK' /\ KeyInv /\ [KeyUpdateNext]_keyUpdateVars => KeyInv'
    BY KeyInvStep, Zenon DEF KeyInv
  <1> QED
    BY <1>1, <1>2, <1>3, <1>4, <1>5, <1>6, RunStep, TypeCorrect, PTL DEF KeyUpdateSpec

\* While the connection lives, a request the peer made is answered or the
\* answer is still owed (request_response, reset, clear_response).
THEOREM RequestsAlwaysRemembered == KeyUpdateSpec => []RequestsRemembered
  <1>1. KeyUpdateInit => RequestsRemembered
    BY DEF KeyUpdateInit, RequestsRemembered
  <1>2. TypeOK /\ TypeOK' /\ ReaderInStep /\ RequestsRemembered /\ [KeyUpdateNext]_keyUpdateVars
            => RequestsRemembered'
    <2> DEFINE Answered(e, i) ==
            \E j \in 1 .. Len(log[e]) : log[e][j].kind = "NotRequested" /\ log[e][j].seen >= i
    <2> SUFFICES ASSUME TypeOK, TypeOK', ReaderInStep, RequestsRemembered, [KeyUpdateNext]_keyUpdateVars,
                        NEW e \in Endpoint, state'[e] = "Done", NEW i \in 1 .. rd'[e],
                        log'[Peer(e)][i].kind = "Requested"
                 PROVE  traffic'[e].pending \/ Answered(e, i)'
      BY Zenon DEF RequestsRemembered
    <2>1. /\ rd[e] \in Nat /\ rd[e] <= Len(log[Peer(e)]) /\ Peer(e) \in Endpoint
          /\ Len(log[Peer(e)]) \in Nat /\ Len(log[e]) \in Nat /\ Len(log'[e]) \in Nat
      <3>1. Peer(e) \in Endpoint
        BY PeerType, Zenon
      <3>2. /\ rd[e] \in Nat /\ log[Peer(e)] \in Seq(Record)
            /\ log[e] \in Seq(Record) /\ log'[e] \in Seq(Record)
        BY <3>1, Zenon DEF TypeOK
      <3> QED
        BY <3>1, <3>2 DEF ReaderInStep
    <2>2. state[e] = "Done" /\ (ReadsNothing(e) \/ ReadsData(e) \/ ReadsUpdate(e))
      BY ReaderStep, Zenon
    <2>3. \A j \in 1 .. Len(log[Peer(e)]) : log'[Peer(e)][j] = log[Peer(e)][j]
      BY <2>1, LogsGrow, Zenon
    <2>4. Answered(e, i) => Answered(e, i)'
      <3>1. Len(log[e]) <= Len(log'[e]) /\ \A j \in 1 .. Len(log[e]) : log'[e][j] = log[e][j]
        BY LogsGrow, Zenon
      <3> QED
        BY <2>1, <3>1, SMTT(30)
    <2>5. i \in 1 .. rd[e] => traffic[e].pending \/ Answered(e, i)
      BY <2>1, <2>2, <2>3 DEF RequestsRemembered
    <2>6. CASE ReadsNothing(e)
      <3>1. rd'[e] = rd[e] /\ i \in 1 .. rd[e]
        BY <2>6, Zenon DEF ReadsNothing
      <3>2. CASE traffic[e].pending => traffic'[e].pending
        BY <2>4, <2>5, <3>1, <3>2, Zenon
      <3>3. CASE /\ Len(log'[e]) \in 1 .. Len(log'[e])
                 /\ log'[e][Len(log'[e])].kind = "NotRequested"
                 /\ log'[e][Len(log'[e])].seen = rd[e]
        BY <2>1, <3>1, <3>3
      <3> QED
        BY <2>6, <3>2, <3>3, Zenon DEF ReadsNothing
    <2>7. CASE ReadsData(e)
      <3>1. /\ rd'[e] = rd[e] + 1 /\ log' = log /\ log[Peer(e)][rd[e] + 1].kind = "app"
            /\ traffic[e].pending => traffic'[e].pending
        BY <2>7, Zenon DEF ReadsData
      <3>2. i \in 1 .. rd[e]
        BY <2>1, <3>1
      <3> QED
        BY <2>4, <2>5, <3>1, <3>2, Zenon
    <2>8. CASE ReadsUpdate(e)
      <3>1. /\ rd'[e] = rd[e] + 1 /\ log' = log
            /\ traffic[e].pending => traffic'[e].pending
            /\ log[Peer(e)][rd[e] + 1].kind = "Requested" => traffic'[e].pending
        BY <2>8, Zenon DEF ReadsUpdate
      <3>2. i \in 1 .. rd[e] \/ i = rd[e] + 1
        BY <2>1, <3>1
      <3> QED
        BY <2>4, <2>5, <3>1, <3>2, Zenon
    <2> QED
      BY <2>2, <2>6, <2>7, <2>8, Zenon
  <1>3. KeyInv => ReaderInStep
    BY Zenon DEF KeyInv
  <1>4. TypeOK /\ KeyUpdateInit => KeyInv
    BY KeyInvInit, Zenon DEF KeyInv
  <1>5. TypeOK' /\ KeyInv /\ [KeyUpdateNext]_keyUpdateVars => KeyInv'
    BY KeyInvStep, Zenon DEF KeyInv
  <1> QED
    BY <1>1, <1>2, <1>3, <1>4, <1>5, TypeCorrect, PTL DEF KeyUpdateSpec

============================================================================
