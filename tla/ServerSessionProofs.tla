------------------------ MODULE ServerSessionProofs ------------------------
(***************************************************************************)
(* Proofs about ServerSession, for every set of configurations and hellos   *)
(* that its assumption allows, and for any client.                          *)
(*                                                                          *)
(* A call ends in one of ten ways: Ends lists them, NextEnds shows that     *)
(* there are no others, and the invariants are preserved end by end.  Before*)
(* a hello is answered nothing of an answer is out (Shape), so an answer is *)
(* given once and what it says of early data is said once.  What is left of *)
(* the early-data limit and what was taken add up to it                     *)
(* (ChargedWithinLimit).  Authenticated says for each state what the client *)
(* has proved or need not prove, and that only the server's certificate is  *)
(* hashed before the client may present its own.                            *)
(***************************************************************************)
EXTENDS ServerSession, TLAPS

-----------------------------------------------------------------------------
(* Logs and transcripts.  Nothing is assumed of what they hold. *)

IsSeq(s) == s \in Seq({s[i] : i \in DOMAIN s})

\* A sequence over any set is one over its own elements.
LEMMA SeqFacts ==
    ASSUME NEW S, NEW s \in Seq(S)
    PROVE  IsSeq(s) /\ Len(s) \in Nat /\ DOMAIN s = 1 .. Len(s)
<1>1. Len(s) \in Nat /\ DOMAIN s = 1 .. Len(s) /\ s \in [1 .. Len(s) -> S]
  OBVIOUS
<1> DEFINE T == {s[i] : i \in DOMAIN s}
<1>2. s \in [1 .. Len(s) -> T]
  BY <1>1, Zenon
<1>3. IsSeq(s) <=> s \in Seq(T)
  BY Zenon DEF IsSeq
<1> HIDE DEF T
<1>4. s \in Seq(T)
  BY <1>1, <1>2
<1> QED
  BY <1>1, <1>3, <1>4, Zenon

\* One element more.
LEMMA AppendFacts ==
    ASSUME NEW s, IsSeq(s), NEW e, NEW t, t = Append(s, e)
    PROVE  /\ IsSeq(t) /\ Len(s) \in Nat /\ Len(t) = Len(s) + 1
           /\ DOMAIN s = 1 .. Len(s) /\ DOMAIN t = 1 .. Len(s) + 1
           /\ \A i \in 1 .. Len(s) : t[i] = s[i]
           /\ t[Len(s) + 1] = e
<1> DEFINE S == {s[i] : i \in DOMAIN s} \cup {e}
<1>1. s \in Seq(S) /\ e \in S
  BY DEF IsSeq
<1> HIDE DEF S
<1>2. /\ t \in Seq(S) /\ Len(s) \in Nat /\ Len(t) = Len(s) + 1
      /\ \A i \in 1 .. Len(s) : t[i] = s[i]
      /\ t[Len(s) + 1] = e
  BY <1>1
<1> QED
  BY <1>1, <1>2, SeqFacts, Zenon

\* One sequence after another.
LEMMA ConcatFacts ==
    ASSUME NEW s, IsSeq(s), NEW u, IsSeq(u), NEW t, t = s \o u
    PROVE  /\ IsSeq(t) /\ Len(s) \in Nat /\ Len(u) \in Nat /\ Len(t) = Len(s) + Len(u)
           /\ DOMAIN s = 1 .. Len(s) /\ DOMAIN u = 1 .. Len(u)
           /\ DOMAIN t = 1 .. Len(s) + Len(u)
           /\ \A i \in 1 .. Len(s) : t[i] = s[i]
           /\ \A i \in 1 .. Len(u) : t[Len(s) + i] = u[i]
<1> DEFINE S == {s[i] : i \in DOMAIN s} \cup {u[i] : i \in DOMAIN u}
<1>1. s \in Seq(S) /\ u \in Seq(S)
  BY DEF IsSeq
<1> HIDE DEF S
<1>2. /\ t \in Seq(S) /\ Len(s) \in Nat /\ Len(u) \in Nat /\ Len(t) = Len(s) + Len(u)
      /\ \A i \in 1 .. Len(s) : t[i] = s[i]
      /\ \A i \in 1 .. Len(u) : t[Len(s) + i] = u[i]
  BY <1>1
<1> QED
  BY <1>1, <1>2, SeqFacts, Zenon

\* The first elements.
LEMMA PrefixFacts ==
    ASSUME NEW s, IsSeq(s), NEW k \in 0 .. Len(s), NEW t, t = SubSeq(s, 1, k)
    PROVE  /\ IsSeq(t) /\ Len(t) = k /\ DOMAIN t = 1 .. k
           /\ \A i \in 1 .. k : t[i] = s[i]
<1> DEFINE S == {s[i] : i \in DOMAIN s}
<1>1. s \in Seq(S)
  BY Zenon DEF IsSeq
<1> HIDE DEF S
<1>2. /\ t \in Seq(S) /\ Len(t) = k
      /\ \A i \in 1 .. k : t[i] = s[i]
  BY <1>1
<1> QED
  BY <1>2, SeqFacts, Zenon

\* What comes later does not change the first elements.
LEMMA PrefixKept ==
    ASSUME NEW s, IsSeq(s), NEW t, IsSeq(t), NEW k \in 0 .. Len(s), k <= Len(t),
           \A i \in 1 .. k : t[i] = s[i]
    PROVE  SubSeq(t, 1, k) = SubSeq(s, 1, k)
<1> DEFINE S == {s[i] : i \in DOMAIN s} \cup {t[i] : i \in DOMAIN t}
<1>1. s \in Seq(S) /\ t \in Seq(S)
  BY DEF IsSeq
<1> HIDE DEF S
<1>2. k \in 0 .. Len(t)
  BY <1>1
<1>3. /\ SubSeq(s, 1, k) \in Seq(S) /\ Len(SubSeq(s, 1, k)) = k
      /\ \A i \in 1 .. k : SubSeq(s, 1, k)[i] = s[i]
  BY <1>1
<1>4. /\ SubSeq(t, 1, k) \in Seq(S) /\ Len(SubSeq(t, 1, k)) = k
      /\ \A i \in 1 .. k : SubSeq(t, 1, k)[i] = t[i]
  BY <1>1, <1>2
<1>5. \A a, b \in Seq(S) : Len(a) = Len(b) /\ (\A i \in 1 .. Len(a) : a[i] = b[i]) => a = b
  OBVIOUS
<1> QED
  BY <1>3, <1>4, <1>5, Zenon

\* Tuples of events are sequences.
LEMMA TupleFacts ==
    ASSUME NEW a, NEW b, NEW c, NEW d
    PROVE  /\ IsSeq(<<>>) /\ Len(<<>>) = 0 /\ DOMAIN <<>> = {}
           /\ IsSeq(<<a>>) /\ Len(<<a>>) = 1 /\ DOMAIN <<a>> = 1 .. 1
           /\ IsSeq(<<a, b>>) /\ Len(<<a, b>>) = 2
           /\ IsSeq(<<a, b, c>>) /\ Len(<<a, b, c>>) = 3 /\ DOMAIN <<a, b, c>> = 1 .. 3
           /\ IsSeq(<<a, b, c, d>>) /\ Len(<<a, b, c, d>>) = 4
<1> DEFINE S == {a, b, c, d}
<1>1. /\ <<>> \in Seq(S) /\ <<a>> \in Seq(S) /\ <<a, b>> \in Seq(S) /\ <<a, b, c>> \in Seq(S)
      /\ <<a, b, c, d>> \in Seq(S)
  OBVIOUS
<1> HIDE DEF S
<1>2. /\ IsSeq(<<>>) /\ IsSeq(<<a>>) /\ IsSeq(<<a, b>>) /\ IsSeq(<<a, b, c>>)
      /\ IsSeq(<<a, b, c, d>>)
  BY <1>1, SeqFacts, Zenon
<1> QED
  BY <1>2

\* What a log or a transcript holds after more was added.
LEMMA ElemsGrow ==
    ASSUME NEW s, IsSeq(s), NEW u, IsSeq(u)
    PROVE  Elems(s \o u) = Elems(s) \cup Elems(u)
<1>1. PICK new : new = s \o u
  BY Zenon
<1>2. /\ Len(s) \in Nat /\ Len(u) \in Nat
      /\ DOMAIN s = 1 .. Len(s) /\ DOMAIN u = 1 .. Len(u)
      /\ DOMAIN new = 1 .. Len(s) + Len(u)
      /\ \A i \in 1 .. Len(s) : new[i] = s[i]
      /\ \A i \in 1 .. Len(u) : new[Len(s) + i] = u[i]
  BY <1>1, ConcatFacts, SMT
<1>3. \A i \in DOMAIN s : i \in DOMAIN new /\ new[i] = s[i]
  BY <1>2
<1>4. \A i \in DOMAIN u : Len(s) + i \in DOMAIN new /\ new[Len(s) + i] = u[i]
  BY <1>2
<1>5. ASSUME NEW i \in DOMAIN new
      PROVE  new[i] \in Elems(s) \cup Elems(u)
  <2>1. CASE i <= Len(s)
    BY <1>2, <2>1 DEF Elems
  <2>2. CASE ~(i <= Len(s))
    <3>1. i - Len(s) \in 1 .. Len(u) /\ Len(s) + (i - Len(s)) = i
      BY <1>2, <2>2
    <3> QED
      BY <1>2, <3>1, Zenon DEF Elems
  <2> QED
    BY <2>1, <2>2, Zenon
<1>6. Elems(s) \subseteq Elems(new) /\ Elems(u) \subseteq Elems(new)
  BY <1>3, <1>4, Zenon DEF Elems
<1>7. Elems(new) \subseteq Elems(s) \cup Elems(u)
  BY <1>5, Zenon DEF Elems
<1> QED
  BY <1>1, <1>6, <1>7, Zenon

\* Nothing is in an empty list, one thing in a list of one.
LEMMA ElemsOf ==
    ASSUME NEW a, NEW b
    PROVE  /\ Elems(<<>>) = {} /\ Elems(<<a>>) = {a} /\ Elems(<<a, b>>) = {a, b}
<1>1. Elems(<<>>) = {}
  BY DEF Elems
<1>2. DOMAIN <<a>> = {1} /\ <<a>>[1] = a
  OBVIOUS
<1>3. DOMAIN <<a, b>> = {1, 2} /\ <<a, b>>[1] = a /\ <<a, b>>[2] = b
  OBVIOUS
<1>4. Elems(<<a>>) = {a}
  BY <1>2, Zenon DEF Elems
<1>5. Elems(<<a, b>>) = {a, b}
  BY <1>3, Zenon DEF Elems
<1> QED
  BY <1>1, <1>4, <1>5, Zenon

\* The messages of a type in one event.
MessagesOf(e, type) == {e.msgs[j] : j \in {k \in DOMAIN e.msgs : e.msgs[k].type = type}}

\* A log emitted and sent what its events did.
LEMMA SentByElems ==
    ASSUME NEW log
    PROVE  /\ \A e : Emitted(log, e) <=> e \in Elems(log)
           /\ \A t, m : m \in SentOf(log, t) <=> \E e \in Elems(log) : m \in MessagesOf(e, t)
<1>1. \A e : Emitted(log, e) <=> e \in Elems(log)
  BY Zenon DEF Emitted, Elems
<1>2. ASSUME NEW t, NEW m PROVE m \in SentOf(log, t) <=> \E e \in Elems(log) : m \in MessagesOf(e, t)
  <2>1. SentOf(log, t) = UNION {MessagesOf(log[i], t) : i \in DOMAIN log}
    BY Zenon DEF SentOf, MessagesOf
  <2>2. m \in SentOf(log, t) <=> \E i \in DOMAIN log : m \in MessagesOf(log[i], t)
    BY <2>1, Zenon
  <2> QED
    BY <2>2, Zenon DEF Elems
<1> QED
  BY <1>1, <1>2, Zenon

\* What was emitted and sent when more events follow.
LEMMA LogGrows ==
    ASSUME NEW log, IsSeq(log), NEW u, IsSeq(u)
    PROVE  /\ \A e : Emitted(log \o u, e) <=> Emitted(log, e) \/ Emitted(u, e)
           /\ \A t : SentOf(log \o u, t) = SentOf(log, t) \cup SentOf(u, t)
<1>0. PICK new : new = log \o u
  BY Zenon
<1>1. Elems(new) = Elems(log) \cup Elems(u)
  BY <1>0, ElemsGrow, Zenon
<1>2. \A e : Emitted(new, e) <=> Emitted(log, e) \/ Emitted(u, e)
  BY <1>1, SentByElems, Zenon
<1>3. ASSUME NEW t PROVE SentOf(new, t) = SentOf(log, t) \cup SentOf(u, t)
  <2>1. \A m : m \in SentOf(new, t) <=> m \in SentOf(log, t) \/ m \in SentOf(u, t)
    BY <1>1, SentByElems, Zenon
  <2> QED
    BY <2>1, Zenon
<1> QED
  BY <1>0, <1>2, <1>3, Zenon

\* Events by their parts; only a Send carries messages.
LEMMA EventFacts ==
    /\ \A type : /\ Signal(type).type = type /\ Signal(type).msgs = <<>>
    /\ \A epoch : /\ KeysReady(epoch).type = "KeysReady" /\ KeysReady(epoch).msgs = <<>>
    /\ \A epoch, msgs : /\ Send(epoch, msgs).type = "Send" /\ Send(epoch, msgs).msgs = msgs
BY Zenon DEF Signal, KeysReady, Send, Event

\* What one event sends.
LEMMA MessagesFacts ==
    /\ \A e, t : e.msgs = <<>> => MessagesOf(e, t) = {}
    /\ \A e, t, m : e.msgs = <<m>> => MessagesOf(e, t) = IF m.type = t THEN {m} ELSE {}
<1>1. ASSUME NEW e, NEW t, e.msgs = <<>> PROVE MessagesOf(e, t) = {}
  BY <1>1 DEF MessagesOf
<1>2. ASSUME NEW e, NEW t, NEW m, e.msgs = <<m>>
      PROVE  MessagesOf(e, t) = IF m.type = t THEN {m} ELSE {}
  <2>1. DOMAIN e.msgs = {1} /\ e.msgs[1] = m
    BY <1>2
  <2> QED
    BY <2>1, Zenon DEF MessagesOf
<1> QED
  BY <1>1, <1>2, Zenon

-----------------------------------------------------------------------------
(* The invariants. *)

\* The shape of what the handlers look at.  Before a hello is answered at most
\* the digest of an earlier one and the request to retry are hashed, no part of
\* an answer was sent and no early data taken.
Shape ==
    /\ state \in States
    /\ config \in Configs
    /\ hrrDone \in BOOLEAN
    /\ remaining \in Nat \cup {Closed}
    /\ charged \in Nat
    /\ IsSeq(events)
    /\ IsSeq(transcript)
    /\ state = "ExpectClientHello" =>
         /\ \A m \in Elems(transcript) : m.type \in {"MessageHash", "HelloRetryRequest"}
         /\ SentOf(events, "ServerHello") = {}
         /\ SentOf(events, "EncryptedExtensions") = {}
         /\ ~Emitted(events, Signal("ZeroRttKeysReady"))
         /\ charged = 0 /\ remaining = Closed

\* Where the certificates of both sides are.
CertificateAt == {i \in DOMAIN transcript : transcript[i] = Certificate("Valid")}

\* What the client has proved, or need not prove, by the time a state is reached.
Authenticated ==
    /\ state \in {"ExpectEndOfEarlyData", "ExpectClientCertificate"} => AtMostOne(CertificateAt)
    /\ state = "ExpectEndOfEarlyData" => Resumed
    /\ state \in {"ExpectClientFinished", "Done"} =>
         (ClientPresented \/ (config.clientAuth = "Required" /\ ~Resumed)
            => Proved("CertificateVerify") /\ authorized)
    /\ state = "Done" => Proved("Finished")

\* On TLS what is left of the early-data limit and what was taken add up to it.
ChargedWithinLimit ==
    config.mode = "Tls" =>
        /\ charged <= MaxEarlyData
        /\ remaining # Closed => charged + remaining = MaxEarlyData

-----------------------------------------------------------------------------
(* The ways a call can end, as far as the invariants can tell.  Each lists    *)
(* what the call delivered to the sink (u) and what it left behind.           *)

\* The sink took u.
Grows(u) == IsSeq(u) /\ events' = events \o u

\* No part of an answer to a hello.
NoAnswer(u) ==
    /\ SentOf(u, "ServerHello") = {}
    /\ SentOf(u, "EncryptedExtensions") = {}
    /\ ~Emitted(u, Signal("ZeroRttKeysReady"))

\* The transcript goes on with m.
Hashes(m) == transcript' = Append(transcript, m)

\* The call fails; a failing answer may be out in part.
Dies(u) ==
    /\ Grows(u)
    /\ state = "ExpectClientHello" \/ NoAnswer(u)
    /\ state' = "Failed" /\ remaining' = Closed /\ identity' = FALSE /\ active' = FALSE
    /\ UNCHANGED <<config, hrrDone, hrrInvariant, transcript, charged, authorized>>

\* A hello without a usable share is answered with a HelloRetryRequest.
Retries(u, ch, hrr) ==
    /\ state = "ExpectClientHello" /\ state' = state
    /\ Grows(u) /\ NoAnswer(u)
    /\ LET kx == ClientKx(ch.groups, ch.shares)
       IN HelloAcceptable(ch, kx) /\ kx.selected = None
    /\ ch \in Hellos
    /\ hrr.type = "HelloRetryRequest"
    /\ hrrDone' = TRUE /\ hrrInvariant' = ch
    /\ transcript' = <<MessageHash(<<ch>>), hrr>>
    /\ UNCHANGED <<config, remaining, active, identity, charged, authorized>>

\* A hello is answered with the server's whole flight.
Answers(u, ch, sh, ee, flight, psk, early) ==
    /\ state = "ExpectClientHello" /\ state' = AfterHello(psk, early)
    /\ Grows(u)
    /\ LET kx == ClientKx(ch.groups, ch.shares)
       IN /\ HelloAcceptable(ch, kx) /\ kx.selected # None
          /\ sh = ServerHello(TRUE, SelectedSuite(ch), kx.selected, IF psk THEN "First" ELSE None)
    /\ ch \in Hellos /\ ch.type = "ClientHello"
    /\ ee.type = "EncryptedExtensions" /\ ee.early = early /\ ee.alpn = AnsweredAlpn(ch)
    /\ psk \in BOOLEAN /\ early \in BOOLEAN
    /\ early => /\ psk /\ ch.early
                /\ ch.ticket.alpn = AnsweredAlpn(ch) /\ ch.ticket.suite = SelectedSuite(ch)
    /\ SentOf(u, "ServerHello") = {sh}
    /\ SentOf(u, "EncryptedExtensions") = {ee}
    /\ Emitted(u, Signal("ZeroRttKeysReady")) <=> early
    /\ remaining' = IF early THEN MaxEarlyData ELSE Closed
    /\ transcript' = transcript \o <<ch, sh>> \o flight
    /\ IsSeq(flight)
    /\ \A m \in Elems(flight) : m.type \notin {"ClientHello", "ServerHello"}
    /\ AtMostOne({i \in DOMAIN flight : flight[i] = Certificate("Valid")})
    /\ UNCHANGED <<config, hrrDone, hrrInvariant, identity, charged, authorized>>

\* A message of the client moves the handshake on, silently.
Continues(m, next, keep) ==
    /\ state' = next /\ identity' = keep /\ events' = events
    /\ Hashes(m) /\ m.type # "ClientHello"
    /\ UNCHANGED <<config, hrrDone, hrrInvariant, charged>>

EndsEarlyData(m) ==
    /\ state = "ExpectEndOfEarlyData" /\ m.type = "EndOfEarlyData"
    /\ Continues(m, "ExpectClientFinished", identity)
    /\ remaining' = Closed /\ authorized' = authorized

StaysAnonymous(m) ==
    /\ state = "ExpectClientCertificate" /\ m.entries = "Empty" /\ config.clientAuth = "Requested"
    /\ Continues(m, "ExpectClientFinished", identity)
    /\ UNCHANGED <<remaining, authorized>>

Presents(m) ==
    /\ state = "ExpectClientCertificate"
    /\ Continues(m, "ExpectClientCertVerify", TRUE)
    /\ UNCHANGED <<remaining, authorized>>

Identifies(m) ==
    /\ state = "ExpectClientCertVerify" /\ m.type = "CertificateVerify" /\ Verifies(m)
    /\ Continues(m, "ExpectClientFinished", FALSE)
    /\ authorized' = TRUE /\ remaining' = remaining

\* The client's Finished is the last message of the handshake.
Finishes(u, m) ==
    /\ state = "ExpectClientFinished" /\ state' = "Done"
    /\ m.type = "Finished" /\ Verifies(m) /\ Hashes(m)
    /\ Grows(u) /\ NoAnswer(u)
    /\ remaining' = Closed
    /\ UNCHANGED <<config, hrrDone, hrrInvariant, identity, charged, authorized>>

\* A KeyUpdate is reported.
Updates(u) ==
    /\ state = "Done" /\ state' = state
    /\ Grows(u) /\ NoAnswer(u)
    /\ UNCHANGED <<config, hrrDone, hrrInvariant, remaining, active, identity, transcript, charged,
                   authorized>>

\* Early data is charged.
Charges(len) ==
    /\ state' = state /\ len \in Nat
    /\ remaining # Closed
    /\ charged' = charged + len
    /\ IF config.mode = "Quic" THEN remaining' = remaining
       ELSE len <= remaining /\ remaining' = remaining - len
    /\ UNCHANGED <<config, hrrDone, hrrInvariant, active, identity, transcript, events, authorized>>

Ends ==
    \/ \E u : Dies(u) \/ Updates(u)
    \/ \E u, ch, hrr : Retries(u, ch, hrr)
    \/ \E u, ch, sh, ee, flight, psk, early : Answers(u, ch, sh, ee, flight, psk, early)
    \/ \E m : EndsEarlyData(m) \/ StaysAnonymous(m) \/ Presents(m) \/ Identifies(m)
    \/ \E u, m : Finishes(u, m)
    \/ \E len : Charges(len)

\* The sink takes a first part of what a handler emits, or all of it.
LEMMA AcceptsPrefix ==
    ASSUME NEW evs, IsSeq(evs), NEW k \in 0 .. Len(evs), Accepts(evs, k)
    PROVE  \E u : /\ Grows(u) /\ Elems(u) \subseteq Elems(evs)
                  /\ k = Len(evs) => u = evs
<1> DEFINE u == SubSeq(evs, 1, k)
<1>1. IsSeq(u)
  BY PrefixFacts, Zenon
<1>2. DOMAIN u = 1 .. k /\ \A i \in 1 .. k : u[i] = evs[i]
  BY PrefixFacts, Zenon
<1>3. events' = events \o u
  BY Zenon DEF Accepts
<1>4. /\ Len(evs) \in Nat /\ DOMAIN evs = 1 .. Len(evs)
      /\ SubSeq(evs, 1, Len(evs)) = evs
  <2> DEFINE S == {evs[i] : i \in DOMAIN evs}
  <2>1. evs \in Seq(S)
    BY Zenon DEF IsSeq
  <2> HIDE DEF S
  <2> QED
    BY <2>1
<1>5. k = Len(evs) => u = evs
  BY <1>4, Zenon
<1> HIDE DEF u
<1>6. \A i \in 1 .. k : i \in DOMAIN evs
  BY <1>4
<1>7. Elems(u) \subseteq Elems(evs)
  BY <1>2, <1>6, Zenon DEF Elems
<1>8. Grows(u)
  BY <1>1, <1>3, Zenon DEF Grows
<1> QED
  BY <1>5, <1>7, <1>8, Zenon

\* An event that is no part of an answer.
Quiet(e) ==
    /\ MessagesOf(e, "ServerHello") = {}
    /\ MessagesOf(e, "EncryptedExtensions") = {}
    /\ e # Signal("ZeroRttKeysReady")

\* A list of such events.
LEMMA QuietLists ==
    ASSUME NEW u, \A e \in Elems(u) : Quiet(e)
    PROVE  NoAnswer(u)
<1>1. ~Emitted(u, Signal("ZeroRttKeysReady"))
  BY SentByElems, Zenon DEF Quiet
<1>2. \A m : m \notin SentOf(u, "ServerHello") /\ m \notin SentOf(u, "EncryptedExtensions")
  BY SentByElems, Zenon DEF Quiet
<1> QED
  BY <1>1, <1>2, Zenon DEF NoAnswer

\* A call that fails before any event.
LEMMA FailDies ==
    ASSUME IsSeq(events), Fail
    PROVE  \E u : Dies(u)
<1>1. IsSeq(<<>>)
  BY TupleFacts, Zenon
<1>2. NoAnswer(<<>>)
  BY ElemsOf, QuietLists, Zenon
<1>3. events \o <<>> = events
  <2> DEFINE S == {events[i] : i \in DOMAIN events}
  <2>1. events \in Seq(S)
    BY Zenon DEF IsSeq
  <2> HIDE DEF S
  <2> QED
    BY <2>1
<1>4. Dies(<<>>)
  BY <1>1, <1>2, <1>3, Zenon DEF Dies, Grows, Fail, Poison
<1> QED
  BY <1>4, Zenon

\* A call that fails at an event the sink refuses.
LEMMA RefusedDies ==
    ASSUME NEW u, Grows(u), NEW evs, NEW k, Refused(evs, k),
           state = "ExpectClientHello" \/ NoAnswer(u)
    PROVE  Dies(u)
BY Zenon DEF Refused, Poison, Dies

\* send_hello_retry_request.
LEMMA RetryEnds ==
    ASSUME Shape, state = "ExpectClientHello", NEW ch \in Hellos,
           NEW kx, kx = ClientKx(ch.groups, ch.shares), HelloAcceptable(ch, kx), kx.selected = None,
           SendHelloRetryRequest(ch, kx)
    PROVE  Ends
<1> DEFINE hrr == HelloRetryRequest(TRUE, SelectedSuite(ch), kx.retryGroup)
           e == Send("Plaintext", <<hrr>>)
           evs == <<e>>
<1>1. IsSeq(evs)
  BY TupleFacts, Zenon
<1>2. hrr.type = "HelloRetryRequest"
  BY Zenon DEF HelloRetryRequest
<1>3. e.msgs = <<hrr>> /\ e.type = "Send"
  BY EventFacts, ZenonT(40)
<1>4. Signal("ZeroRttKeysReady").type = "ZeroRttKeysReady"
  BY EventFacts, Zenon
<1>5. PICK k \in 0 .. Len(evs) :
        /\ Accepts(evs, k)
        /\ \/ Refused(evs, k)
           \/ /\ k = Len(evs)
              /\ hrrDone' = TRUE
              /\ hrrInvariant' = ch
              /\ transcript' = <<MessageHash(<<ch>>), hrr>>
              /\ UNCHANGED <<config, state, remaining, active, identity, charged, authorized>>
  BY Zenon DEF SendHelloRetryRequest
<1> HIDE DEF hrr, e
<1>6. Quiet(e)
  <2>1. MessagesOf(e, "ServerHello") = {} /\ MessagesOf(e, "EncryptedExtensions") = {}
    BY <1>2, <1>3, MessagesFacts, Zenon
  <2> QED
    BY <1>3, <1>4, <2>1, Zenon DEF Quiet
<1>7. Elems(evs) = {e}
  BY ElemsOf, Zenon
<1> HIDE DEF evs
<1>8. PICK u : Grows(u) /\ Elems(u) \subseteq Elems(evs)
  BY <1>1, <1>5, AcceptsPrefix, Zenon
<1>9. NoAnswer(u)
  BY <1>6, <1>7, <1>8, QuietLists, Zenon
<1>10. CASE Refused(evs, k)
  BY <1>8, <1>9, <1>10, RefusedDies, Zenon DEF Ends
<1>11. CASE ~Refused(evs, k)
  <2>1. Retries(u, ch, hrr)
    BY <1>2, <1>5, <1>8, <1>9, <1>11, Zenon DEF Retries
  <2> QED
    BY <2>1, Zenon DEF Ends
<1> QED
  BY <1>10, <1>11, Zenon

At(s, x) == {i \in DOMAIN s : s[i] = x}

\* Something that is once in one part and not in the other is once in the whole.
LEMMA AtConcat ==
    ASSUME NEW s, IsSeq(s), NEW u, IsSeq(u), NEW x,
           \/ x \notin Elems(s) /\ AtMostOne(At(u, x))
           \/ x \notin Elems(u) /\ AtMostOne(At(s, x))
    PROVE  AtMostOne(At(s \o u, x))
<1>1. PICK new : new = s \o u
  BY Zenon
<1>2. PICK n \in Nat, l \in Nat :
        /\ DOMAIN s = 1 .. n /\ DOMAIN u = 1 .. l /\ DOMAIN new = 1 .. n + l
        /\ \A i \in 1 .. n : new[i] = s[i]
        /\ \A i \in 1 .. l : new[n + i] = u[i]
  <2>1. /\ Len(s) \in Nat /\ Len(u) \in Nat
        /\ DOMAIN s = 1 .. Len(s) /\ DOMAIN u = 1 .. Len(u)
        /\ DOMAIN new = 1 .. Len(s) + Len(u)
        /\ \A i \in 1 .. Len(s) : new[i] = s[i]
        /\ \A i \in 1 .. Len(u) : new[Len(s) + i] = u[i]
    BY <1>1, ConcatFacts, SMT
  <2> QED
    BY <2>1, Zenon
<1>3. \A i \in 1 .. n + l : i \in 1 .. n \/ (i - n \in 1 .. l /\ n + (i - n) = i)
  BY <1>2
<1>4. CASE x \notin Elems(s) /\ AtMostOne(At(u, x))
  <2>1. ASSUME NEW i \in At(new, x) PROVE i \in 1 .. n + l /\ i - n \in At(u, x)
    <3>1. i \in 1 .. n + l /\ new[i] = x
      BY <1>2, Zenon DEF At
    <3>2. i \notin 1 .. n
      BY <1>2, <1>4, <3>1, Zenon DEF Elems
    <3>3. i - n \in 1 .. l /\ n + (i - n) = i
      BY <1>3, <3>1, <3>2, Zenon
    <3> QED
      BY <1>2, <3>1, <3>3, Zenon DEF At
  <2>2. ASSUME NEW i \in At(new, x), NEW j \in At(new, x) PROVE i = j
    <3>1. i \in 1 .. n + l /\ j \in 1 .. n + l /\ i - n = j - n
      BY <1>4, <2>1, Zenon DEF AtMostOne
    <3> QED
      BY <1>2, <3>1
  <2> QED
    BY <1>1, <2>2, Zenon DEF AtMostOne
<1>5. CASE x \notin Elems(u) /\ AtMostOne(At(s, x))
  <2>1. ASSUME NEW i \in At(new, x) PROVE i \in At(s, x)
    <3>1. i \in 1 .. n + l /\ new[i] = x
      BY <1>2, Zenon DEF At
    <3>2. i \in 1 .. n
      <4> SUFFICES ASSUME i - n \in 1 .. l, n + (i - n) = i PROVE FALSE
        BY <1>3, <3>1, Zenon
      <4> QED
        BY <1>2, <1>5, <3>1, Zenon DEF Elems
    <3> QED
      BY <1>2, <3>1, <3>2, Zenon DEF At
  <2> QED
    BY <1>1, <1>5, <2>1, Zenon DEF AtMostOne
<1> QED
  BY <1>4, <1>5, Zenon

\* What is nowhere is at most once somewhere; so is what a short list holds.
LEMMA AtFew ==
    /\ \A s, x : x \notin Elems(s) => AtMostOne(At(s, x))
    /\ \A a, x : AtMostOne(At(<<a>>, x))
<1>1. \A s, x : x \notin Elems(s) => AtMostOne(At(s, x))
  BY Zenon DEF Elems, At, AtMostOne
<1>2. ASSUME NEW a, NEW x PROVE AtMostOne(At(<<a>>, x))
  <2>1. DOMAIN <<a>> = {1}
    OBVIOUS
  <2> QED
    BY <2>1, Zenon DEF At, AtMostOne
<1> QED
  BY <1>1, <1>2, Zenon

\* Of the messages in an event those of a type are sent.
LEMMA MessagesAreElems ==
    ASSUME NEW e, NEW t
    PROVE  \A m : m \in MessagesOf(e, t) <=> m \in Elems(e.msgs) /\ m.type = t
BY Zenon DEF MessagesOf, Elems

\* The messages of the handshake by their types.
LEMMA MessageFacts ==
    /\ \A a, b, c, d, f : LET m == EncryptedExtensions(a, b, c, d, f)
                          IN m.type = "EncryptedExtensions" /\ m.alpn = d /\ m.early = f
    /\ \A a, b : CertificateRequest(a, b).type = "CertificateRequest"
    /\ \A a : Certificate(a).type = "Certificate" /\ Certificate(a).entries = a
    /\ \A a : CertificateVerify(a).type = "CertificateVerify"
    /\ \A a : Finished(a).type = "Finished"
    /\ \A a, b, c, d : LET m == ServerHello(a, b, c, d)
                       IN m.type = "ServerHello" /\ m.suite = b /\ m.group = c /\ m.psk = d
    /\ \A a : MessageHash(a).type = "MessageHash"
    /\ \A a, b, c : NewSessionTicket(a, b, c).type = "NewSessionTicket"
BY ZenonT(40) DEF EncryptedExtensions, CertificateRequest, Certificate, CertificateVerify, Finished,
       ServerHello, MessageHash, NewSessionTicket

\* The encrypted flight: EncryptedExtensions once, the server's certificate at
\* most once and only on a full handshake.
LEMMA FlightFacts ==
    ASSUME NEW ch, NEW base, NEW psk \in BOOLEAN, NEW early \in BOOLEAN
    PROVE  LET flight == EncryptedFlight(ch, base, psk, early)
               ee == EncryptedExtensions(TRUE, ch.certTypes, config.mode = "Quic", AnsweredAlpn(ch), early)
           IN /\ IsSeq(flight)
              /\ ee \in Elems(flight)
              /\ \A m \in Elems(flight) :
                   m = ee \/ m.type \in {"CertificateRequest", "Certificate", "CertificateVerify", "Finished"}
              /\ AtMostOne(At(flight, Certificate("Valid")))
<1> DEFINE ee == EncryptedExtensions(TRUE, ch.certTypes, config.mode = "Quic", AnsweredAlpn(ch), early)
           cr == IF ~psk /\ config.clientAuth # None THEN <<CertificateRequest(TRUE, TRUE)>> ELSE <<>>
           cert == IF psk THEN <<>> ELSE <<Certificate("Valid")>>
           head == <<ee>> \o cr \o cert
           cv == IF psk THEN <<>> ELSE <<CertificateVerify(Mac("server", base \o head))>>
           fin == Finished(Mac("server", base \o head \o cv))
           flight == head \o cv \o <<fin>>
           x == Certificate("Valid")
<1>1. EncryptedFlight(ch, base, psk, early) = flight
  BY Zenon DEF EncryptedFlight
<1>2. /\ ee.type = "EncryptedExtensions" /\ fin.type = "Finished" /\ x.type = "Certificate"
      /\ CertificateRequest(TRUE, TRUE).type = "CertificateRequest"
      /\ CertificateVerify(Mac("server", base \o head)).type = "CertificateVerify"
  BY Zenon DEF EncryptedExtensions, Finished, Certificate, CertificateRequest, CertificateVerify
<1> HIDE DEF ee, fin, head
<1>3. /\ IsSeq(cr) /\ \A m \in Elems(cr) : m.type = "CertificateRequest"
  <2>1. CASE ~psk /\ config.clientAuth # None
    <3>1. cr = <<CertificateRequest(TRUE, TRUE)>>
      BY <2>1, Zenon
    <3>2. IsSeq(cr)
      BY <3>1, TupleFacts, Zenon
    <3>3. Elems(cr) = {CertificateRequest(TRUE, TRUE)}
      BY <3>1, ElemsOf, Zenon
    <3> QED
      BY <1>2, <3>2, <3>3, Zenon
  <2>2. CASE ~(~psk /\ config.clientAuth # None)
    <3>1. cr = <<>>
      BY <2>2, Zenon
    <3>2. IsSeq(cr)
      BY <3>1, TupleFacts, Zenon
    <3> QED
      BY <3>1, <3>2, ElemsOf, Zenon
  <2> QED
    BY <2>1, <2>2, Zenon
<1>4. /\ IsSeq(cert) /\ (\A m \in Elems(cert) : m = x) /\ AtMostOne(At(cert, x))
  <2>1. CASE psk
    <3>1. cert = <<>>
      BY <2>1, Zenon
    <3>2. IsSeq(cert)
      BY <3>1, TupleFacts, Zenon
    <3> QED
      BY <3>1, <3>2, ElemsOf, AtFew, Zenon
  <2>2. CASE ~psk
    <3>1. cert = <<x>>
      BY <2>2, Zenon
    <3>2. IsSeq(cert)
      BY <3>1, TupleFacts, Zenon
    <3>3. Elems(cert) = {x} /\ AtMostOne(At(cert, x))
      <4> HIDE DEF x, cert
      <4> QED
        BY <3>1, ElemsOf, AtFew, Zenon
    <3> QED
      BY <3>2, <3>3, Zenon
  <2> QED
    BY <2>1, <2>2, Zenon
<1>5. /\ IsSeq(cv) /\ \A m \in Elems(cv) : m.type = "CertificateVerify"
  <2>1. CASE psk
    <3>1. cv = <<>>
      BY <2>1, Zenon
    <3>2. IsSeq(cv)
      BY <3>1, TupleFacts, Zenon
    <3> QED
      BY <3>1, <3>2, ElemsOf, Zenon
  <2>2. CASE ~psk
    <3>1. PICK m : m.type = "CertificateVerify" /\ cv = <<m>>
      BY <1>2, <2>2, Zenon
    <3>2. IsSeq(cv)
      BY <3>1, TupleFacts, Zenon
    <3>3. Elems(cv) = {m}
      BY <3>1, ElemsOf, Zenon
    <3> QED
      BY <3>1, <3>2, <3>3
  <2> QED
    BY <2>1, <2>2, Zenon
<1> HIDE DEF cr, cert, cv, x
<1>6. IsSeq(<<ee>>) /\ IsSeq(<<fin>>)
  BY TupleFacts, Zenon
<1>7. Elems(<<ee>>) = {ee} /\ Elems(<<fin>>) = {fin}
  BY ElemsOf, Zenon
<1>8. PICK a : a = <<ee>> \o cr
  BY Zenon
<1>9. /\ Elems(a) = {ee} \cup Elems(cr) /\ IsSeq(a)
  <2>1. IsSeq(a)
    BY <1>3, <1>6, <1>8, ConcatFacts, Zenon
  <2> QED
    BY <1>3, <1>6, <1>7, <1>8, <2>1, ElemsGrow, Zenon
<1>10. head = a \o cert
  BY <1>8, Zenon DEF head
<1>11. IsSeq(head)
  BY <1>4, <1>9, <1>10, ConcatFacts, Zenon
<1>12. Elems(head) = {ee} \cup Elems(cr) \cup Elems(cert) /\ AtMostOne(At(head, x))
  <2>1. Elems(head) = {ee} \cup Elems(cr) \cup Elems(cert)
    BY <1>4, <1>9, <1>10, ElemsGrow, Zenon
  <2>2. x \notin Elems(a)
    BY <1>2, <1>3, <1>9, Zenon
  <2>3. AtMostOne(At(head, x))
    BY <1>4, <1>9, <1>10, <2>2, AtConcat, Zenon
  <2> QED
    BY <2>1, <2>3, Zenon
<1>13. PICK b : b = head \o cv
  BY Zenon
<1>14. IsSeq(b)
  BY <1>5, <1>11, <1>13, ConcatFacts, Zenon
<1>15. Elems(b) = Elems(head) \cup Elems(cv) /\ AtMostOne(At(b, x))
  <2>1. x \notin Elems(cv)
    BY <1>2, <1>5, Zenon
  <2> QED
    BY <1>5, <1>11, <1>12, <1>13, <2>1, ElemsGrow, AtConcat, Zenon
<1>16. flight = b \o <<fin>>
  BY <1>13, Zenon
<1> HIDE DEF flight
<1>17. IsSeq(flight)
  BY <1>6, <1>14, <1>16, ConcatFacts, Zenon
<1>18. Elems(flight) = Elems(b) \cup {fin} /\ AtMostOne(At(flight, x))
  <2>1. x \notin Elems(<<fin>>)
    BY <1>2, <1>7, Zenon
  <2> QED
    BY <1>6, <1>7, <1>14, <1>15, <1>16, <2>1, ElemsGrow, AtConcat
<1>19. ee \in Elems(flight)
  BY <1>12, <1>15, <1>18, Zenon
<1>20. \A m \in Elems(flight) :
         m = ee \/ m.type \in {"CertificateRequest", "Certificate", "CertificateVerify", "Finished"}
  BY <1>2, <1>3, <1>4, <1>5, <1>12, <1>15, <1>18, Zenon
<1> QED
  BY <1>1, <1>17, <1>18, <1>19, <1>20, Zenon DEF ee, x

\* What is emitted for a hello that is answered: the parameters reported, the
\* ServerHello, behind it the encrypted flight.
AnswerParts(u, early, params, sh, ee, flight, hello, rest) ==
    /\ u = params \o hello \o rest
    /\ early \in BOOLEAN
    /\ IsSeq(params) /\ \A e \in Elems(params) : e = Signal("PeerExtension")
    /\ sh.type = "ServerHello" /\ ee.type = "EncryptedExtensions"
    /\ ee \in Elems(flight)
    /\ \A m \in Elems(flight) : m = ee \/ m.type \notin {"ServerHello", "EncryptedExtensions"}
    /\ IsSeq(hello)
    /\ Elems(hello) = (IF early THEN {Signal("ZeroRttKeysReady")} ELSE {})
                         \cup {Send("Plaintext", <<sh>>), KeysReady("Handshake")}
    /\ IsSeq(rest)
    /\ Elems(rest) = {Send("Handshake", flight), KeysReady("Application")}

\* One ServerHello and one EncryptedExtensions, and whether early-data keys.
LEMMA AnswerEvents ==
    ASSUME NEW u, NEW early, NEW params, NEW sh, NEW ee, NEW flight, NEW hello, NEW rest,
           AnswerParts(u, early, params, sh, ee, flight, hello, rest)
    PROVE  /\ SentOf(u, "ServerHello") = {sh}
           /\ SentOf(u, "EncryptedExtensions") = {ee}
           /\ Emitted(u, Signal("ZeroRttKeysReady")) <=> early
<1> DEFINE zero == Signal("ZeroRttKeysReady")
           par == Signal("PeerExtension")
           k1 == KeysReady("Handshake")
           k2 == KeysReady("Application")
           s1 == Send("Plaintext", <<sh>>)
           s2 == Send("Handshake", flight)
<1> USE DEF AnswerParts
<1>1. PICK a : a = params \o hello
  BY Zenon
<1>2. IsSeq(a)
  BY <1>1, ConcatFacts, Zenon
<1>3. Elems(u) = Elems(params) \cup Elems(hello) \cup Elems(rest)
  BY <1>1, <1>2, ElemsGrow
<1>4. /\ zero.type = "ZeroRttKeysReady" /\ zero.msgs = <<>>
      /\ par.type = "PeerExtension" /\ par.msgs = <<>>
      /\ k1.type = "KeysReady" /\ k1.msgs = <<>>
      /\ k2.type = "KeysReady" /\ k2.msgs = <<>>
      /\ s1.type = "Send" /\ s1.msgs = <<sh>>
      /\ s2.type = "Send" /\ s2.msgs = flight
  BY EventFacts
<1> HIDE DEF zero, par, k1, k2, s1, s2
<1>5. \A e : e \in Elems(u) <=> \/ e \in Elems(params)
                               \/ (early /\ e = zero)
                               \/ e \in {s1, k1, s2, k2}
  <2>1. Elems(hello) = (IF early THEN {zero} ELSE {}) \cup {s1, k1} /\ Elems(rest) = {s2, k2}
    BY Zenon DEF zero, s1, k1, s2, k2
  <2> QED
    BY <1>3, <2>1, Zenon
<1>6. \A e \in Elems(params) : e = par
  BY Zenon DEF par
<1>7. Emitted(u, zero) <=> early
  BY <1>4, <1>5, <1>6, SentByElems, Zenon
<1>8. ASSUME NEW t PROVE \A m : m \in SentOf(u, t) <=> (m = sh /\ t = "ServerHello")
                                                     \/ (m \in Elems(flight) /\ m.type = t)
  <2>1. MessagesOf(zero, t) = {} /\ MessagesOf(par, t) = {} /\ MessagesOf(k1, t) = {}
        /\ MessagesOf(k2, t) = {}
    BY <1>4, MessagesFacts, Zenon
  <2>2. MessagesOf(s1, t) = IF t = "ServerHello" THEN {sh} ELSE {}
    <3>1. MessagesOf(s1, t) = IF sh.type = t THEN {sh} ELSE {}
      BY <1>4, MessagesFacts, Zenon
    <3> QED
      BY <3>1, Zenon
  <2>3. \A m : m \in MessagesOf(s2, t) <=> m \in Elems(flight) /\ m.type = t
    BY <1>4, MessagesAreElems
  <2>4. \A m : m \in SentOf(u, t) <=> \E e \in Elems(u) : m \in MessagesOf(e, t)
    BY SentByElems, Zenon
  <2>5. \A m : (\E e \in Elems(u) : m \in MessagesOf(e, t))
                 <=> m \in MessagesOf(s1, t) \/ m \in MessagesOf(s2, t)
    BY <1>5, <1>6, <2>1, Zenon
  <2> QED
    BY <2>2, <2>3, <2>4, <2>5, Zenon
<1>9. SentOf(u, "ServerHello") = {sh}
  <2>1. \A m : m \in SentOf(u, "ServerHello") <=> m = sh
    BY <1>8, Zenon
  <2> QED
    BY <2>1, ZenonT(40)
<1>10. SentOf(u, "EncryptedExtensions") = {ee}
  <2>1. \A m : m \in SentOf(u, "EncryptedExtensions") <=> m = ee
    BY <1>8
  <2> QED
    BY <2>1
<1> QED
  BY <1>7, <1>9, <1>10, Zenon DEF zero

\* handle_client_hello past the key share.
LEMMA AnswerEnds ==
    ASSUME Shape, state = "ExpectClientHello", NEW ch \in Hellos, ch.type = "ClientHello",
           NEW kx, kx = ClientKx(ch.groups, ch.shares), HelloAcceptable(ch, kx), kx.selected # None,
           NEW opens, NEW ageOk, NEW registers, Answer(ch, kx, opens, ageOk, registers)
    PROVE  Ends
<1> DEFINE offered == PskOffered(ch, opens)
           bound == offered => ch.binder = "Valid"
           early == EarlyAdmitted(ch, offered, ageOk, registers)
           sh == ServerHello(TRUE, SelectedSuite(ch), kx.selected, IF offered THEN "First" ELSE None)
           base == transcript \o <<ch, sh>>
           flight == EncryptedFlight(ch, base, offered, early)
           ee == EncryptedExtensions(TRUE, ch.certTypes, config.mode = "Quic", AnsweredAlpn(ch), early)
           params == IF config.mode = "Quic" THEN <<Signal("PeerExtension")>> ELSE <<>>
           zero == IF early THEN <<Signal("ZeroRttKeysReady")>> ELSE <<>>
           both == <<Send("Plaintext", <<sh>>), KeysReady("Handshake")>>
           hello == zero \o both
           rest == <<Send("Handshake", flight), KeysReady("Application")>>
           succeeds == bound /\ CertificateTypeAcceptable(ch)
           mid == IF bound THEN hello ELSE <<>>
           end == IF succeeds THEN rest ELSE <<>>
           evs == params \o mid \o end
           Fails == Poison /\ UNCHANGED <<hrrDone, hrrInvariant, transcript, charged, authorized>>
           Succeeds ==
               /\ state' = AfterHello(offered, early)
               /\ remaining' = IF early THEN MaxEarlyData ELSE Closed
               /\ transcript' = base \o flight
               /\ UNCHANGED <<config, hrrDone, hrrInvariant, identity, charged, authorized>>
           Outcome(k) ==
               /\ Accepts(evs, k)
               /\ selectedAlpn' = AnsweredAlpn(ch)
               /\ \/ Refused(evs, k)
                  \/ /\ k = Len(evs)
                     /\ ~succeeds
                     /\ Poison
                     /\ UNCHANGED <<hrrDone, hrrInvariant, transcript, charged, authorized>>
                  \/ /\ k = Len(evs)
                     /\ succeeds
                     /\ state' = AfterHello(offered, early)
                     /\ remaining' = IF early THEN MaxEarlyData ELSE Closed
                     /\ suite' = SelectedSuite(ch)
                     /\ active' = TRUE
                     /\ transcript' = base \o flight
                     /\ UNCHANGED <<config, hrrDone, hrrInvariant, identity, charged, authorized>>
<1>01. \E k \in 0 .. Len(evs) : Outcome(k)
  BY Zenon DEF Answer
<1>2. offered \in BOOLEAN /\ early \in BOOLEAN
  BY Zenon DEF PskOffered, EarlyAdmitted
<1>3. early => /\ offered /\ ch.early
               /\ ch.ticket.alpn = AnsweredAlpn(ch) /\ ch.ticket.suite = SelectedSuite(ch)
  BY Zenon DEF EarlyAdmitted
<1>5. /\ sh.type = "ServerHello" /\ ee.type = "EncryptedExtensions"
      /\ ee.alpn = AnsweredAlpn(ch) /\ ee.early = early
  BY Zenon DEF ServerHello, EncryptedExtensions
<1>6. sh = ServerHello(TRUE, SelectedSuite(ch), kx.selected, IF offered THEN "First" ELSE None)
  BY Zenon
<1>06. base = transcript \o <<ch, sh>>
  BY Zenon
<1>1. PICK k \in 0 .. Len(evs) :
        /\ Accepts(evs, k)
        /\ \/ Refused(evs, k)
           \/ Fails
           \/ k = Len(evs) /\ succeeds /\ Succeeds
  <2> HIDE DEF evs, succeeds, offered, early, base, flight
  <2> QED
    BY <1>01, Zenon
<1> HIDE DEF offered, early, sh, base, Outcome
<1>4. /\ IsSeq(flight)
      /\ ee \in Elems(flight)
      /\ \A m \in Elems(flight) :
           m = ee \/ m.type \in {"CertificateRequest", "Certificate", "CertificateVerify", "Finished"}
      /\ AtMostOne(At(flight, Certificate("Valid")))
  BY <1>2, FlightFacts, ZenonT(60)
<1> HIDE DEF flight, ee
<1>7. /\ IsSeq(params) /\ \A e \in Elems(params) : e = Signal("PeerExtension")
  <2>1. IsSeq(<<>>) /\ IsSeq(<<Signal("PeerExtension")>>)
    BY TupleFacts, Zenon
  <2>2. Elems(<<>>) = {} /\ Elems(<<Signal("PeerExtension")>>) = {Signal("PeerExtension")}
    BY ElemsOf, Zenon
  <2> QED
    BY <2>1, <2>2, Zenon
<1>8. /\ IsSeq(hello)
      /\ Elems(hello) = (IF early THEN {Signal("ZeroRttKeysReady")} ELSE {})
                          \cup {Send("Plaintext", <<sh>>), KeysReady("Handshake")}
  <2>1. IsSeq(<<>>) /\ IsSeq(<<Signal("ZeroRttKeysReady")>>) /\ IsSeq(both)
    BY TupleFacts, Zenon
  <2>2. /\ Elems(<<>>) = {}
        /\ Elems(<<Signal("ZeroRttKeysReady")>>) = {Signal("ZeroRttKeysReady")}
        /\ Elems(both) = {Send("Plaintext", <<sh>>), KeysReady("Handshake")}
    BY ElemsOf, Zenon
  <2>3. /\ IsSeq(zero)
        /\ Elems(zero) = IF early THEN {Signal("ZeroRttKeysReady")} ELSE {}
    BY <1>2, <2>1, <2>2, Zenon
  <2> HIDE DEF zero, both
  <2>4. IsSeq(hello)
    BY <2>1, <2>3, ConcatFacts, Zenon
  <2>5. Elems(hello) = Elems(zero) \cup Elems(both)
    BY <2>1, <2>3, ElemsGrow, Zenon
  <2> QED
    BY <2>2, <2>3, <2>4, <2>5, Zenon
<1>9. IsSeq(rest) /\ Elems(rest) = {Send("Handshake", flight), KeysReady("Application")}
  <2>1. IsSeq(rest)
    BY TupleFacts, Zenon
  <2> QED
    BY <2>1, ElemsOf, Zenon
<1> HIDE DEF params, hello, rest
<1>10. IsSeq(evs)
  <2>1. IsSeq(<<>>)
    BY TupleFacts, Zenon
  <2>2. IsSeq(mid) /\ IsSeq(end)
    BY <1>8, <1>9, <2>1, Zenon
  <2> HIDE DEF mid, end
  <2>3. IsSeq(params \o mid)
    BY <1>7, <2>2, ConcatFacts, Zenon
  <2> QED
    BY <2>2, <2>3, ConcatFacts, Zenon
<1>11. succeeds => evs = params \o hello \o rest
  BY Zenon
<1> HIDE DEF evs, Fails, Succeeds, succeeds
<1>12. PICK u : Grows(u) /\ (k = Len(evs) => u = evs)
  BY <1>1, <1>10, AcceptsPrefix
<1>13. CASE Refused(evs, k)
  BY <1>12, <1>13, RefusedDies, Zenon DEF Ends
<1>14. CASE Fails
  <2>1. Dies(u)
    BY <1>12, <1>14, Zenon DEF Dies, Fails, Poison
  <2> QED
    BY <2>1, Zenon DEF Ends
<1>15. CASE k = Len(evs) /\ succeeds /\ Succeeds
  <2>1. u = params \o hello \o rest
    BY <1>11, <1>12, <1>15, Zenon
  <2>2. /\ SentOf(u, "ServerHello") = {sh}
        /\ SentOf(u, "EncryptedExtensions") = {ee}
        /\ Emitted(u, Signal("ZeroRttKeysReady")) <=> early
    <3>1. \A m \in Elems(flight) : m = ee \/ m.type \notin {"ServerHello", "EncryptedExtensions"}
      BY <1>4, Zenon
    <3>2. AnswerParts(u, early, params, sh, ee, flight, hello, rest)
      BY <1>2, <1>4, <1>5, <1>7, <1>8, <1>9, <2>1, <3>1, Zenon DEF AnswerParts
    <3> QED
      BY <3>2, AnswerEvents, Zenon
  <2>3. Answers(u, ch, sh, ee, flight, offered, early)
    BY <1>2, <1>3, <1>4, <1>5, <1>6, <1>06, <1>12, <1>15, <2>2, ZenonT(40) DEF Answers, Succeeds, At
  <2> QED
    BY <2>3, Zenon DEF Ends
<1> QED
  BY <1>1, <1>13, <1>14, <1>15, Zenon

\* A ClientHello of the peer is one of its hellos.
LEMMA HelloIsOffered ==
    ASSUME NEW m \in PeerMessages, m.type = "ClientHello"
    PROVE  m \in Hellos
<1>1. m \notin Inputs
  BY ServerAssumption, Zenon DEF ServerAssumption
<1>2. \A mac : m # CertificateVerify(mac) /\ m # Finished(mac)
  BY MessageFacts, Zenon
<1> QED
  BY <1>1, <1>2, Zenon DEF PeerMessages

\* Hello::handle_client_hello.
LEMMA HelloEnds ==
    ASSUME Shape, NEW ch \in PeerMessages, NEW opens, NEW ageOk, NEW registers,
           HandleClientHello(ch, opens, ageOk, registers)
    PROVE  Ends
<1> DEFINE kx == ClientKx(ch.groups, ch.shares)
<1>1. /\ state = "ExpectClientHello" /\ ch.type = "ClientHello"
      /\ \/ Fail
         \/ HelloAcceptable(ch, kx) /\ kx.selected = None /\ SendHelloRetryRequest(ch, kx)
         \/ HelloAcceptable(ch, kx) /\ kx.selected # None /\ Answer(ch, kx, opens, ageOk, registers)
  BY Zenon DEF HandleClientHello
<1> HIDE DEF kx
<1>2. kx = ClientKx(ch.groups, ch.shares)
  BY Zenon DEF kx
<1>3. ch \in Hellos
  BY <1>1, HelloIsOffered, Zenon
<1>4. CASE Fail
  BY <1>4, FailDies, Zenon DEF Ends, Shape
<1>5. CASE HelloAcceptable(ch, kx) /\ kx.selected = None /\ SendHelloRetryRequest(ch, kx)
  BY <1>1, <1>2, <1>3, <1>5, RetryEnds, Zenon
<1>6. CASE HelloAcceptable(ch, kx) /\ kx.selected # None /\ Answer(ch, kx, opens, ageOk, registers)
  BY <1>1, <1>2, <1>3, <1>6, AnswerEnds, Zenon
<1> QED
  BY <1>1, <1>4, <1>5, <1>6, Zenon

\* The messages between the server's flight and the client's Finished.
LEMMA ContinueEnds ==
    ASSUME Shape, NEW m, NEW accepts \in BOOLEAN,
           HandleEndOfEarlyData(m) \/ HandleClientCertificate(m) \/ HandleClientCertVerify(m, accepts)
    PROVE  Ends
<1>1. CASE HandleEndOfEarlyData(m)
  <2>1. EndsEarlyData(m)
    BY <1>1, Zenon DEF HandleEndOfEarlyData, CloseWindow, Advance, EndsEarlyData, Continues, Hashes
  <2> QED
    BY <2>1, Zenon DEF Ends
<1>2. CASE HandleClientCertificate(m)
  <2>1. Fail \/ StaysAnonymous(m) \/ Presents(m)
    BY <1>2, Zenon DEF HandleClientCertificate, AnonymousAllowed, Advance, StaysAnonymous, Presents,
                Continues, Hashes
  <2> QED
    BY <2>1, FailDies, Zenon DEF Ends, Shape
<1>3. CASE HandleClientCertVerify(m, accepts)
  <2>1. Fail \/ Identifies(m)
    BY <1>3, Zenon DEF HandleClientCertVerify, IdentityAccepted, Advance, Identifies, Continues, Hashes
  <2> QED
    BY <2>1, FailDies, Zenon DEF Ends, Shape
<1> QED
  BY <1>1, <1>2, <1>3, Zenon

\* Resumption::handle_client_finished.
LEMMA FinishedEnds ==
    ASSUME Shape, NEW m, HandleClientFinished(m)
    PROVE  Ends
<1> DEFINE nst == NewSessionTicket(TRUE, TRUE, Ticket(suite, selectedAlpn, config.guard))
           done == Signal("Done")
           send == Send("Application", <<nst>>)
           issue == IF IssuesTicket THEN <<send>> ELSE <<>>
           evs == <<done>> \o issue
           Succeeds ==
               /\ state' = "Done"
               /\ remaining' = Closed
               /\ transcript' = Append(transcript, m)
               /\ UNCHANGED <<config, hrrDone, hrrInvariant, suite, active, identity, charged, authorized>>
<1>1. /\ state = "ExpectClientFinished" /\ m.type = "Finished"
      /\ \/ Fail
         \/ Verifies(m) /\ \E k \in 0 .. Len(evs) :
              Accepts(evs, k) /\ (Refused(evs, k) \/ (k = Len(evs) /\ Succeeds))
  BY Zenon DEF HandleClientFinished
<1>2. nst.type = "NewSessionTicket"
  BY Zenon DEF NewSessionTicket
<1> HIDE DEF nst
<1>3. /\ done.type = "Done" /\ done.msgs = <<>> /\ send.type = "Send" /\ send.msgs = <<nst>>
      /\ Signal("ZeroRttKeysReady").type = "ZeroRttKeysReady"
  BY EventFacts, Zenon
<1> HIDE DEF done, send
<1>4. Quiet(done) /\ Quiet(send)
  BY <1>2, <1>3, MessagesFacts, Zenon DEF Quiet
<1>5. IsSeq(<<>>) /\ IsSeq(<<done>>) /\ IsSeq(<<send>>)
  BY TupleFacts, Zenon
<1>6. Elems(<<>>) = {} /\ Elems(<<done>>) = {done} /\ Elems(<<send>>) = {send}
  BY ElemsOf, Zenon
<1>7. IsSeq(issue) /\ \A e \in Elems(issue) : Quiet(e)
  BY <1>4, <1>5, <1>6, Zenon
<1> HIDE DEF issue
<1>8. IsSeq(evs)
  BY <1>5, <1>7, ConcatFacts, Zenon
<1>9. \A e \in Elems(evs) : Quiet(e)
  <2>1. Elems(evs) = {done} \cup Elems(issue)
    BY <1>5, <1>6, <1>7, ElemsGrow, ZenonT(40)
  <2> QED
    BY <1>4, <1>7, <2>1, Zenon
<1> HIDE DEF evs, Succeeds
<1>10. CASE Fail
  BY <1>10, FailDies, Zenon DEF Ends, Shape
<1>11. ASSUME NEW k \in 0 .. Len(evs), Verifies(m), Accepts(evs, k),
              Refused(evs, k) \/ Succeeds
       PROVE  Ends
  <2>1. PICK u : Grows(u) /\ Elems(u) \subseteq Elems(evs)
    BY <1>8, <1>11, AcceptsPrefix, Zenon
  <2>2. NoAnswer(u)
    BY <1>9, <2>1, QuietLists, Zenon
  <2>3. CASE Refused(evs, k)
    BY <2>1, <2>2, <2>3, RefusedDies, Zenon DEF Ends
  <2>4. CASE Succeeds
    <3>1. Finishes(u, m)
      BY <1>1, <1>11, <2>1, <2>2, <2>4, Zenon DEF Finishes, Succeeds, Hashes
    <3> QED
      BY <3>1, Zenon DEF Ends
  <2> QED
    BY <1>11, <2>3, <2>4, Zenon
<1> QED
  BY <1>1, <1>10, <1>11, Zenon

\* Session::handle_key_update.
LEMMA UpdateEnds ==
    ASSUME Shape, NEW m, NEW withinBudget, HandleKeyUpdate(m, withinBudget)
    PROVE  Ends
<1> DEFINE e == Signal("KeyUpdate")
           evs == <<e>>
           Succeeds ==
               UNCHANGED <<config, state, hrrDone, hrrInvariant, remaining, suite,
                           active, identity, transcript, charged, authorized>>
<1>1. /\ state = "Done"
      /\ \/ Fail
         \/ \E k \in 0 .. Len(evs) : Accepts(evs, k) /\ (Refused(evs, k) \/ Succeeds)
  BY Zenon DEF HandleKeyUpdate
<1>2. e.type = "KeyUpdate" /\ e.msgs = <<>> /\ Signal("ZeroRttKeysReady").type = "ZeroRttKeysReady"
  BY EventFacts, Zenon
<1> HIDE DEF e
<1>3. Quiet(e)
  BY <1>2, MessagesFacts, Zenon DEF Quiet
<1>4. IsSeq(evs)
  BY TupleFacts, Zenon
<1>5. Elems(evs) = {e}
  BY ElemsOf, Zenon
<1> HIDE DEF evs, Succeeds
<1>6. CASE Fail
  BY <1>6, FailDies, Zenon DEF Ends, Shape
<1>7. ASSUME NEW k \in 0 .. Len(evs), Accepts(evs, k), Refused(evs, k) \/ Succeeds
      PROVE  Ends
  <2>1. PICK u : Grows(u) /\ Elems(u) \subseteq Elems(evs)
    BY <1>4, <1>7, AcceptsPrefix, Zenon
  <2>2. NoAnswer(u)
    BY <1>3, <1>5, <2>1, QuietLists, Zenon
  <2>3. CASE Refused(evs, k)
    BY <2>1, <2>2, <2>3, RefusedDies, Zenon DEF Ends
  <2>4. CASE Succeeds
    <3>1. Updates(u)
      BY <1>1, <2>1, <2>2, <2>4, Zenon DEF Updates, Succeeds
    <3> QED
      BY <3>1, Zenon DEF Ends
  <2> QED
    BY <1>7, <2>3, <2>4, Zenon
<1> QED
  BY <1>1, <1>6, <1>7, Zenon

\* Server::note_early_data.
LEMMA NoteEnds ==
    ASSUME Shape, NEW len \in 0 .. (MaxEarlyData + 1), NoteEarlyData(len)
    PROVE  Ends
<1>1. CASE Fail
  BY <1>1, FailDies, Zenon DEF Ends, Shape
<1>2. CASE ~Fail
  <2>1. len \in Nat
    BY ServerAssumption DEF ServerAssumption
  <2>2. Charges(len)
    BY <1>2, <2>1, Zenon DEF NoteEarlyData, Fits, Charges
  <2> QED
    BY <2>2, Zenon DEF Ends
<1> QED
  BY <1>1, <1>2, Zenon

\* Every call ends in one of the ways listed.
LEMMA NextEnds ==
    ASSUME Shape, Next
    PROVE  Ends
<1>1. ASSUME NEW m \in PeerMessages, Handle(m) PROVE Ends
  BY <1>1, HelloEnds, ContinueEnds, FinishedEnds, UpdateEnds, Zenon DEF Handle
<1>2. ASSUME NEW m \in PeerMessages, NEW epoch, Read(m, epoch) PROVE Ends
  <2>1. Handle(m) \/ Fail
    BY <1>2, Zenon DEF Read, Unexpected
  <2> QED
    BY <1>1, <2>1, FailDies, Zenon DEF Ends, Shape
<1>3. ASSUME NEW m \in PeerMessages, HonestRead(m) PROVE Ends
  <2>1. Handle(m)
    BY <1>3, Zenon DEF HonestRead, Handle
  <2> QED
    BY <1>1, <2>1, Zenon
<1> QED
  BY <1>2, <1>3, NoteEnds, Zenon DEF Next, AnyRead

-----------------------------------------------------------------------------
(* The shape of the state. *)

\* A connection starts in shape.
LEMMA ShapeInit == Init => Shape
<1> SUFFICES ASSUME Init PROVE Shape
  BY Zenon
<1>1. IsSeq(<<>>)
  BY TupleFacts, Zenon
<1>2. NoAnswer(<<>>) /\ Elems(<<>>) = {}
  BY ElemsOf, QuietLists, Zenon
<1> QED
  BY <1>1, <1>2, Zenon DEF Init, Shape, States, Closed, NoAnswer

\* What a call leaves of the logs.
LEMMA LogsStep ==
    ASSUME Shape, Ends
    PROVE  IsSeq(events)' /\ IsSeq(transcript)'
<1>0. IsSeq(events) /\ IsSeq(transcript)
  BY Zenon DEF Shape
<1>1. ASSUME NEW u, Grows(u) PROVE IsSeq(events')
  BY <1>0, <1>1, ConcatFacts, Zenon DEF Grows
<1>2. ASSUME NEW m, Hashes(m) PROVE IsSeq(transcript')
  BY <1>0, <1>2, AppendFacts, Zenon DEF Hashes
<1>3. ASSUME NEW u, Dies(u) \/ Updates(u) PROVE IsSeq(events') /\ IsSeq(transcript')
  BY <1>0, <1>1, <1>3, Zenon DEF Dies, Updates
<1>4. ASSUME NEW u, NEW ch, NEW hrr, Retries(u, ch, hrr) PROVE IsSeq(events') /\ IsSeq(transcript')
  <2>1. IsSeq(<<MessageHash(<<ch>>), hrr>>)
    BY TupleFacts, Zenon
  <2> QED
    BY <1>1, <1>4, <2>1, Zenon DEF Retries
<1>5. ASSUME NEW u, NEW ch, NEW sh, NEW ee, NEW flight, NEW psk, NEW early,
             Answers(u, ch, sh, ee, flight, psk, early)
      PROVE  IsSeq(events') /\ IsSeq(transcript')
  <2>1. IsSeq(<<ch, sh>>)
    BY TupleFacts, Zenon
  <2>2. IsSeq(transcript \o <<ch, sh>>)
    BY <1>0, <2>1, ConcatFacts, Zenon
  <2>3. IsSeq(transcript \o <<ch, sh>> \o flight)
    BY <1>5, <2>2, ConcatFacts, Zenon DEF Answers
  <2> QED
    BY <1>1, <1>5, <2>3, Zenon DEF Answers
<1>6. ASSUME NEW m, EndsEarlyData(m) \/ StaysAnonymous(m) \/ Presents(m) \/ Identifies(m)
      PROVE  IsSeq(events') /\ IsSeq(transcript')
  BY <1>0, <1>2, <1>6, Zenon DEF EndsEarlyData, StaysAnonymous, Presents, Identifies, Continues
<1>7. ASSUME NEW u, NEW m, Finishes(u, m) PROVE IsSeq(events') /\ IsSeq(transcript')
  BY <1>1, <1>2, <1>7, Zenon DEF Finishes
<1>8. ASSUME NEW len, Charges(len) PROVE IsSeq(events') /\ IsSeq(transcript')
  BY <1>0, <1>8, Zenon DEF Charges
<1>9. IsSeq(events') /\ IsSeq(transcript')
  BY <1>3, <1>4, <1>5, <1>6, <1>7, <1>8, Zenon DEF Ends
<1> QED
  BY <1>9, Zenon DEF IsSeq

\* Nothing in front of an answer is taken for a part of it.
Unanswered ==
    /\ \A m \in Elems(transcript) : m.type \in {"MessageHash", "HelloRetryRequest"}
    /\ SentOf(events, "ServerHello") = {}
    /\ SentOf(events, "EncryptedExtensions") = {}
    /\ ~Emitted(events, Signal("ZeroRttKeysReady"))
    /\ charged = 0 /\ remaining = Closed

\* A call leaves the state in shape.
LEMMA ShapeStep ==
    ASSUME Shape, Ends
    PROVE  Shape'
<1> DEFINE Kept == /\ state' \in States
                   /\ config' \in Configs
                   /\ hrrDone' \in BOOLEAN
                   /\ remaining' \in Nat \cup {Closed}
                   /\ charged' \in Nat
                   /\ state' = "ExpectClientHello" => Unanswered'
<1>0. /\ state \in States
      /\ config \in Configs
      /\ hrrDone \in BOOLEAN
      /\ remaining \in Nat \cup {Closed}
      /\ charged \in Nat
      /\ IsSeq(events)
      /\ state = "ExpectClientHello" => Unanswered
  BY Zenon DEF Shape, Unanswered
<1>1. MaxEarlyData \in Nat
  BY ServerAssumption, Zenon DEF ServerAssumption
<1>2. ASSUME NEW u, Dies(u) PROVE Kept
  BY <1>0, <1>2, Zenon DEF Dies, States
<1>3. ASSUME NEW u, Updates(u) PROVE Kept
  BY <1>0, <1>3, Zenon DEF Updates
<1>4. ASSUME NEW u, NEW ch, NEW hrr, Retries(u, ch, hrr) PROVE Kept
  <2>1. Elems(<<MessageHash(<<ch>>), hrr>>) = {MessageHash(<<ch>>), hrr}
    BY ElemsOf, Zenon
  <2>2. MessageHash(<<ch>>).type = "MessageHash" /\ hrr.type = "HelloRetryRequest"
    BY <1>4, MessageFacts, Zenon DEF Retries
  <2>3. \A m \in Elems(transcript') : m.type \in {"MessageHash", "HelloRetryRequest"}
    BY <1>4, <2>1, <2>2, Zenon DEF Retries
  <2>4. /\ \A t : SentOf(events', t) = SentOf(events, t) \cup SentOf(u, t)
        /\ \A e : Emitted(events', e) <=> Emitted(events, e) \/ Emitted(u, e)
    BY <1>0, <1>4, LogGrows DEF Retries, Grows
  <2>5. /\ SentOf(events', "ServerHello") = {}
        /\ SentOf(events', "EncryptedExtensions") = {}
        /\ ~Emitted(events', Signal("ZeroRttKeysReady"))
    BY <1>0, <1>4, <2>4, Zenon DEF Retries, NoAnswer, Unanswered
  <2>6. charged' = 0 /\ remaining' = Closed
    BY <1>0, <1>4, Zenon DEF Retries, Unanswered
  <2>7. Unanswered'
    BY <2>3, <2>5, <2>6, Zenon DEF Unanswered, Elems, SentOf, Emitted
  <2> QED
    BY <1>0, <1>4, <2>7, Zenon DEF Retries
<1>5. ASSUME NEW u, NEW ch, NEW sh, NEW ee, NEW flight, NEW psk, NEW early,
             Answers(u, ch, sh, ee, flight, psk, early)
      PROVE  Kept
  BY <1>0, <1>1, <1>5, Zenon DEF Answers, AfterHello, States
<1>6. ASSUME NEW m, EndsEarlyData(m) \/ StaysAnonymous(m) \/ Presents(m) \/ Identifies(m)
      PROVE  Kept
  BY <1>0, <1>6, Zenon DEF EndsEarlyData, StaysAnonymous, Presents, Identifies, Continues, States
<1>7. ASSUME NEW u, NEW m, Finishes(u, m) PROVE Kept
  BY <1>0, <1>7, Zenon DEF Finishes, States
<1>8. ASSUME NEW len, Charges(len) PROVE Kept
  <2>1. state # "ExpectClientHello"
    BY <1>0, <1>8, Zenon DEF Charges, Unanswered
  <2>2. remaining \in Nat
    BY <1>0, <1>8, Zenon DEF Charges
  <2> QED
    BY <1>0, <1>8, <2>1, <2>2 DEF Charges
<1>9. Kept
  BY <1>2, <1>3, <1>4, <1>5, <1>6, <1>7, <1>8, Zenon DEF Ends
<1>10. IsSeq(events)' /\ IsSeq(transcript)'
  BY LogsStep, Zenon
<1> QED
  BY <1>9, <1>10, Zenon DEF Shape, Unanswered

\* The shape holds all the time.
THEOREM AlwaysInShape == Spec => []Shape
<1>1. Shape /\ [Next]_vars => Shape'
  <2> SUFFICES ASSUME Shape, [Next]_vars PROVE Shape'
    BY Zenon
  <2>1. CASE Next
    BY <2>1, NextEnds, ShapeStep, Zenon
  <2>2. CASE UNCHANGED vars
    BY <2>2, Zenon DEF vars, Shape
  <2> QED
    BY <2>1, <2>2, Zenon
<1> QED
  BY <1>1, ShapeInit, PTL DEF Spec

-----------------------------------------------------------------------------
(* HeldOnlyWhileUsed. *)

\* An accepted log keeps what was emitted.
LEMMA EmittedKept ==
    ASSUME Shape, NEW u, Grows(u), NEW e
    PROVE  Emitted(events', e) <=> Emitted(events, e) \/ Emitted(u, e)
BY LogGrows, Zenon DEF Shape, Grows

\* A call opens the early-data window only with its keys, and leaves nothing
\* behind that no later message uses.
LEMMA HeldStep ==
    ASSUME Shape, HeldOnlyWhileUsed, Ends
    PROVE  HeldOnlyWhileUsed'
<1> DEFINE zero == Signal("ZeroRttKeysReady")
           until == IF config.mode = "Tls" THEN "ExpectEndOfEarlyData" ELSE "ExpectClientFinished"
           Held == /\ remaining' # Closed =>
                        /\ Emitted(events', zero)
                        /\ state' = IF config'.mode = "Tls" THEN "ExpectEndOfEarlyData"
                                    ELSE "ExpectClientFinished"
                   /\ identity' <=> state' = "ExpectClientCertVerify"
                   /\ active' => state' # "Failed"
<1>0. /\ remaining # Closed => Emitted(events, zero) /\ state = until
      /\ identity <=> state = "ExpectClientCertVerify"
      /\ active => state # "Failed"
  BY Zenon DEF HeldOnlyWhileUsed
<1>1. until \in {"ExpectEndOfEarlyData", "ExpectClientFinished"}
  BY Zenon
<1>01. config.mode \in {"Tls", "Quic"}
  BY ServerAssumption, Zenon DEF ServerAssumption, Shape, Modes
<1> HIDE DEF zero
<1>2. ASSUME NEW u, Dies(u) PROVE Held
  BY <1>2, Zenon DEF Dies
<1>3. ASSUME NEW u, Updates(u) PROVE Held
  BY <1>0, <1>1, <1>3, Zenon DEF Updates
<1>4. ASSUME NEW u, NEW ch, NEW hrr, Retries(u, ch, hrr) PROVE Held
  BY <1>0, <1>1, <1>4, Zenon DEF Retries
<1>5. ASSUME NEW u, NEW ch, NEW sh, NEW ee, NEW flight, NEW psk, NEW early,
             Answers(u, ch, sh, ee, flight, psk, early)
      PROVE  Held
  <2>1. early => Emitted(events', zero)
    BY <1>5, EmittedKept, Zenon DEF Answers, zero
  <2>2. early /\ psk => state' = until
    BY <1>01, <1>5, Zenon DEF Answers, AfterHello, UsesEndOfEarlyData
  <2>3. state' \notin {"ExpectClientCertVerify", "Failed"} /\ ~identity'
    BY <1>0, <1>5, Zenon DEF Answers, AfterHello
  <2>4. config' = config /\ (remaining' # Closed => early) /\ (early => psk)
    BY <1>5, Zenon DEF Answers
  <2> QED
    BY <2>1, <2>2, <2>3, <2>4, Zenon
<1>6. ASSUME NEW m, EndsEarlyData(m) PROVE Held
  BY <1>0, <1>6, Zenon DEF EndsEarlyData, Continues
<1>7. ASSUME NEW m, StaysAnonymous(m) \/ Presents(m) \/ Identifies(m) PROVE Held
  BY <1>0, <1>1, <1>7 DEF StaysAnonymous, Presents, Identifies, Continues
<1>8. ASSUME NEW u, NEW m, Finishes(u, m) PROVE Held
  BY <1>0, <1>8, Zenon DEF Finishes
<1>9. ASSUME NEW len, Charges(len) PROVE Held
  BY <1>0, <1>9, Zenon DEF Charges
<1>10. Held
  BY <1>2, <1>3, <1>4, <1>5, <1>6, <1>7, <1>8, <1>9, Zenon DEF Ends
<1> QED
  BY <1>10, Zenon DEF HeldOnlyWhileUsed, zero

\* Whatever the client sends and wherever the sink or a check fails, the server
\* holds the early-data window, the client's certificate and the application
\* keys only while a later message can use them (EarlyData::close, Session::poison).
THEOREM AlwaysHeldOnlyWhileUsed == Spec => []HeldOnlyWhileUsed
<1>1. Init => HeldOnlyWhileUsed
  BY Zenon DEF Init, HeldOnlyWhileUsed
<1>2. Shape /\ HeldOnlyWhileUsed /\ [Next]_vars => HeldOnlyWhileUsed'
  <2>1. ASSUME Shape, HeldOnlyWhileUsed, Next PROVE HeldOnlyWhileUsed'
    BY <2>1, NextEnds, HeldStep, Zenon
  <2>2. ASSUME HeldOnlyWhileUsed, UNCHANGED vars PROVE HeldOnlyWhileUsed'
    BY <2>2, Zenon DEF vars, HeldOnlyWhileUsed
  <2> QED
    BY <2>1, <2>2, Zenon
<1> QED
  BY <1>1, <1>2, AlwaysInShape, PTL DEF Spec

-----------------------------------------------------------------------------
(* EarlyDataOnTicketTerms. *)

\* What the answer says of early data, in terms of what was hashed and sent.
OnTicketTerms ==
    \A ee \in SentOf(events, "EncryptedExtensions"), sh \in SentOf(events, "ServerHello") :
        /\ ee.early <=> Emitted(events, Signal("ZeroRttKeysReady"))
        /\ ee.early => /\ ~hrrDone
                       /\ \E m \in Elems(transcript) :
                            /\ m.type = "ClientHello"
                            /\ m.ticket.alpn = ee.alpn
                            /\ m.ticket.suite = sh.suite

\* The same, of the positions in the transcript.
LEMMA TicketTerms ==
    EarlyDataOnTicketTerms <=> /\ config.mode = "Tls" => charged <= MaxEarlyData
                               /\ state # "Failed" => OnTicketTerms
<1>1. ASSUME NEW ee, NEW sh
      PROVE  (\E i \in DOMAIN transcript :
                /\ transcript[i].type = "ClientHello"
                /\ transcript[i].ticket.alpn = ee.alpn
                /\ transcript[i].ticket.suite = sh.suite)
             <=> \E m \in Elems(transcript) :
                   /\ m.type = "ClientHello" /\ m.ticket.alpn = ee.alpn /\ m.ticket.suite = sh.suite
  BY Zenon DEF Elems
<1> DEFINE P(ee, sh) == \E i \in DOMAIN transcript :
                           /\ transcript[i].type = "ClientHello"
                           /\ transcript[i].ticket.alpn = ee.alpn
                           /\ transcript[i].ticket.suite = sh.suite
           Q(ee, sh) == \E m \in Elems(transcript) :
                           /\ m.type = "ClientHello"
                           /\ m.ticket.alpn = ee.alpn
                           /\ m.ticket.suite = sh.suite
           zero == Emitted(events, Signal("ZeroRttKeysReady"))
           EEs == SentOf(events, "EncryptedExtensions")
           SHs == SentOf(events, "ServerHello")
<1>2. EarlyDataOnTicketTerms <=>
        /\ config.mode = "Tls" => charged <= MaxEarlyData
        /\ state # "Failed" => \A ee \in EEs, sh \in SHs :
             (ee.early <=> zero) /\ (ee.early => ~hrrDone /\ P(ee, sh))
  BY Zenon DEF EarlyDataOnTicketTerms
<1>3. OnTicketTerms <=>
        \A ee \in EEs, sh \in SHs : (ee.early <=> zero) /\ (ee.early => ~hrrDone /\ Q(ee, sh))
  BY Zenon DEF OnTicketTerms
<1>4. \A ee, sh : P(ee, sh) <=> Q(ee, sh)
  BY <1>1, ZenonT(40)
<1> HIDE DEF P, Q, zero, EEs, SHs
<1> QED
  BY <1>2, <1>3, <1>4, Zenon

\* A transcript that goes on holds what it held.
LEMMA HashesKeeps ==
    ASSUME Shape, NEW m, Hashes(m)
    PROVE  Elems(transcript) \subseteq Elems(transcript')
<1>1. PICK n \in Nat : /\ DOMAIN transcript = 1 .. n /\ DOMAIN transcript' = 1 .. n + 1
                       /\ \A i \in 1 .. n : transcript'[i] = transcript[i]
  <2>1. /\ Len(transcript) \in Nat /\ DOMAIN transcript = 1 .. Len(transcript)
        /\ DOMAIN transcript' = 1 .. Len(transcript) + 1
        /\ \A i \in 1 .. Len(transcript) : transcript'[i] = transcript[i]
    BY AppendFacts DEF Hashes, Shape
  <2> QED
    BY <2>1, Zenon
<1> QED
  BY <1>1 DEF Elems

\* The events of a call that answers no hello leave what was sent.
LEMMA SentKept ==
    ASSUME Shape, NEW u, Grows(u), NoAnswer(u)
    PROVE  /\ SentOf(events', "ServerHello") = SentOf(events, "ServerHello")
           /\ SentOf(events', "EncryptedExtensions") = SentOf(events, "EncryptedExtensions")
           /\ Emitted(events', Signal("ZeroRttKeysReady")) <=> Emitted(events, Signal("ZeroRttKeysReady"))
<1>1. /\ \A t : SentOf(events', t) = SentOf(events, t) \cup SentOf(u, t)
      /\ \A e : Emitted(events', e) <=> Emitted(events, e) \/ Emitted(u, e)
  BY LogGrows DEF Shape, Grows
<1> QED
  BY <1>1, Zenon DEF NoAnswer

\* Such a call keeps the terms.
LEMMA TermsKept ==
    ASSUME OnTicketTerms, hrrDone' = hrrDone, Elems(transcript) \subseteq Elems(transcript'),
           SentOf(events', "ServerHello") = SentOf(events, "ServerHello"),
           SentOf(events', "EncryptedExtensions") = SentOf(events, "EncryptedExtensions"),
           Emitted(events', Signal("ZeroRttKeysReady")) <=> Emitted(events, Signal("ZeroRttKeysReady"))
    PROVE  OnTicketTerms'
<1>1. ASSUME NEW ee \in SentOf(events', "EncryptedExtensions"), NEW sh \in SentOf(events', "ServerHello")
      PROVE  /\ ee.early <=> Emitted(events', Signal("ZeroRttKeysReady"))
             /\ ee.early => /\ ~hrrDone'
                            /\ \E m \in Elems(transcript') :
                                 m.type = "ClientHello" /\ m.ticket.alpn = ee.alpn /\ m.ticket.suite = sh.suite
  BY DEF OnTicketTerms
<1> QED
  BY <1>1, ZenonT(40) DEF OnTicketTerms

\* An answer sets them.
LEMMA TermsSet ==
    ASSUME Shape, NEW u, NEW ch, NEW sh, NEW ee, NEW flight, NEW psk, NEW early,
           Answers(u, ch, sh, ee, flight, psk, early)
    PROVE  OnTicketTerms'
<1>1. /\ \A t : SentOf(events', t) = SentOf(events, t) \cup SentOf(u, t)
      /\ \A e : Emitted(events', e) <=> Emitted(events, e) \/ Emitted(u, e)
  <2>1. IsSeq(events) /\ IsSeq(u) /\ events' = events \o u
    BY Zenon DEF Shape, Grows, Answers
  <2> QED
    BY <2>1, LogGrows
<1>2. /\ SentOf(events', "ServerHello") = {sh}
      /\ SentOf(events', "EncryptedExtensions") = {ee}
      /\ Emitted(events', Signal("ZeroRttKeysReady")) <=> early
  BY <1>1, Zenon DEF Answers, Shape
<1>3. ch \in Elems(transcript')
  <2>1. IsSeq(<<ch, sh>>) /\ IsSeq(flight) /\ IsSeq(transcript)
    BY TupleFacts, Zenon DEF Answers, Shape
  <2>2. Elems(<<ch, sh>>) = {ch, sh}
    BY ElemsOf, Zenon
  <2>3. PICK a : a = transcript \o <<ch, sh>>
    BY Zenon
  <2>4. IsSeq(a)
    BY <2>1, <2>3, ConcatFacts, Zenon
  <2>5. ch \in Elems(a)
    BY <2>1, <2>2, <2>3, ElemsGrow, ZenonT(40)
  <2>6. transcript' = a \o flight
    BY <2>3, Zenon DEF Answers
  <2> QED
    BY <2>1, <2>4, <2>5, <2>6, ElemsGrow, Zenon
<1>4. early => ~hrrDone
  BY Zenon DEF Answers, HelloAcceptable, RetryValid
<1>5. sh.suite = SelectedSuite(ch)
  BY Zenon DEF Answers, ServerHello
<1>6. /\ ee.early = early /\ hrrDone' = hrrDone /\ early \in BOOLEAN
      /\ early => ch.type = "ClientHello" /\ ch.ticket.alpn = ee.alpn /\ ch.ticket.suite = sh.suite
  BY <1>5, Zenon DEF Answers
<1> QED
  BY <1>2, <1>3, <1>4, <1>6, Zenon DEF OnTicketTerms

\* A call takes early data within the limit and keeps to the ticket's terms.
LEMMA EarlyStep ==
    ASSUME Shape, HeldOnlyWhileUsed, EarlyDataOnTicketTerms, ChargedWithinLimit, Ends
    PROVE  EarlyDataOnTicketTerms' /\ ChargedWithinLimit'
<1> DEFINE Terms == state' # "Failed" => OnTicketTerms'
           Limit == config'.mode = "Tls" =>
                      /\ charged' <= MaxEarlyData
                      /\ remaining' # Closed => charged' + remaining' = MaxEarlyData
<1>0. /\ state # "Failed" => OnTicketTerms
      /\ config.mode = "Tls" =>
           charged <= MaxEarlyData /\ (remaining # Closed => charged + remaining = MaxEarlyData)
      /\ MaxEarlyData \in Nat /\ charged \in Nat /\ remaining \in Nat \cup {Closed}
  BY TicketTerms, ServerAssumption, Zenon DEF ChargedWithinLimit, Shape, ServerAssumption
<1>1. Elems(transcript) \subseteq Elems(transcript)
  BY Zenon
<1>2. ASSUME NEW u, Dies(u) PROVE Terms /\ Limit
  BY <1>0, <1>2, Zenon DEF Dies
<1>3. ASSUME NEW u, Updates(u) PROVE Terms /\ Limit
  <2>1. OnTicketTerms'
    BY <1>0, <1>3, SentKept, TermsKept, Zenon DEF Updates
  <2> QED
    BY <1>0, <1>3, <2>1, Zenon DEF Updates
<1>4. ASSUME NEW u, NEW ch, NEW hrr, Retries(u, ch, hrr) PROVE Terms /\ Limit
  <2>1. SentOf(events', "ServerHello") = {}
    BY <1>4, SentKept, Zenon DEF Retries, Shape
  <2>2. OnTicketTerms'
    BY <2>1, Zenon DEF OnTicketTerms
  <2> QED
    BY <1>0, <1>4, <2>2, Zenon DEF Retries
<1>5. ASSUME NEW u, NEW ch, NEW sh, NEW ee, NEW flight, NEW psk, NEW early,
             Answers(u, ch, sh, ee, flight, psk, early)
      PROVE  Terms /\ Limit
  <2>1. OnTicketTerms'
    BY <1>5, TermsSet, Zenon
  <2>2. charged' = 0 /\ (remaining' # Closed => remaining' = MaxEarlyData)
    BY <1>5, Zenon DEF Answers, Shape
  <2>3. 0 <= MaxEarlyData /\ 0 + MaxEarlyData = MaxEarlyData
    BY <1>0
  <2>4. Limit
    BY <2>2, <2>3, Zenon
  <2> QED
    BY <2>1, <2>4, Zenon
<1>6. ASSUME NEW m, EndsEarlyData(m) \/ StaysAnonymous(m) \/ Presents(m) \/ Identifies(m)
      PROVE  Terms /\ Limit
  <2>1. /\ Hashes(m) /\ events' = events /\ hrrDone' = hrrDone /\ state # "Failed"
        /\ charged' = charged /\ config' = config /\ remaining' \in {remaining, Closed}
    BY <1>6, Zenon DEF EndsEarlyData, StaysAnonymous, Presents, Identifies, Continues
  <2>2. OnTicketTerms'
    BY <1>0, <2>1, HashesKeeps, TermsKept, Zenon
  <2> QED
    BY <1>0, <2>1, <2>2, Zenon
<1>7. ASSUME NEW u, NEW m, Finishes(u, m) PROVE Terms /\ Limit
  <2>1. OnTicketTerms'
    BY <1>0, <1>7, HashesKeeps, SentKept, TermsKept, Zenon DEF Finishes
  <2> QED
    BY <1>0, <1>7, <2>1, Zenon DEF Finishes
<1>8. ASSUME NEW len, Charges(len) PROVE Terms /\ Limit
  <2>1. state # "Failed" => OnTicketTerms'
    BY <1>0, <1>8, TermsKept, Zenon DEF Charges
  <2>2. CASE config.mode = "Tls"
    <3>1. remaining \in Nat /\ len \in Nat /\ charged' = charged + len
          /\ len <= remaining /\ remaining' = remaining - len /\ charged + remaining = MaxEarlyData
      BY <1>0, <1>8, <2>2, Zenon DEF Charges
    <3> QED
      BY <1>0, <1>8, <2>1, <3>1, SMTT(30) DEF Charges
  <2>3. CASE config.mode # "Tls"
    BY <1>8, <2>1, <2>3, Zenon DEF Charges
  <2> QED
    BY <2>2, <2>3, Zenon
<1>9. Terms /\ Limit
  BY <1>2, <1>3, <1>4, <1>5, <1>6, <1>7, <1>8, Zenon DEF Ends
<1>10. ChargedWithinLimit'
  BY <1>9, Zenon DEF ChargedWithinLimit
<1>11. /\ (config.mode = "Tls" => charged <= MaxEarlyData)'
       /\ (state # "Failed" => OnTicketTerms)'
  BY <1>9, Zenon
<1>12. EarlyDataOnTicketTerms'
  BY <1>11, TicketTerms, PTL
<1> QED
  BY <1>10, <1>12, Zenon

\* Early-data keys are released exactly when the client is told so, on the
\* ticket's suite and ALPN and never after a retry, and on TLS the data taken
\* never exceeds the ticket's limit (EarlyData::admit, EarlyData::charge).
THEOREM EarlyDataAlwaysOnTicketTerms == Spec => []EarlyDataOnTicketTerms
<1>1. Init => EarlyDataOnTicketTerms /\ ChargedWithinLimit
  <2> SUFFICES ASSUME Init PROVE EarlyDataOnTicketTerms /\ ChargedWithinLimit
    BY Zenon
  <2>1. Shape /\ MaxEarlyData \in Nat
    BY ShapeInit, ServerAssumption, Zenon DEF ServerAssumption
  <2>2. SentOf(events, "ServerHello") = {}
    BY <2>1, Zenon DEF Shape, Init
  <2> QED
    BY <2>1, <2>2 DEF Init, EarlyDataOnTicketTerms, ChargedWithinLimit
<1>2. /\ Shape /\ HeldOnlyWhileUsed /\ EarlyDataOnTicketTerms /\ ChargedWithinLimit /\ [Next]_vars
      => EarlyDataOnTicketTerms' /\ ChargedWithinLimit'
  <2>1. ASSUME Shape, HeldOnlyWhileUsed, EarlyDataOnTicketTerms, ChargedWithinLimit, Next
        PROVE  EarlyDataOnTicketTerms' /\ ChargedWithinLimit'
    BY <2>1, NextEnds, EarlyStep, Zenon
  <2>2. ASSUME EarlyDataOnTicketTerms, ChargedWithinLimit, UNCHANGED vars
        PROVE  EarlyDataOnTicketTerms' /\ ChargedWithinLimit'
    BY <2>2 DEF vars, EarlyDataOnTicketTerms, ChargedWithinLimit
  <2> QED
    BY <2>1, <2>2, Zenon
<1> QED
  BY <1>1, <1>2, AlwaysInShape, AlwaysHeldOnlyWhileUsed, PTL DEF Spec

-----------------------------------------------------------------------------
(* DoneIsAuthenticated. *)

\* A message that is hashed proves the transcript in front of it, and what was
\* proved before stays proved.
LEMMA ProvedGrows ==
    ASSUME Shape, NEW m, Hashes(m), NEW type
    PROVE  /\ Proved(type) => Proved(type)'
           /\ m.type = type /\ Verifies(m) => Proved(type)'
<1>0. IsSeq(transcript)
  BY Zenon DEF Shape
<1>1. IsSeq(transcript')
  BY <1>0, AppendFacts, Zenon DEF Hashes
<1>2. /\ Len(transcript) \in Nat /\ Len(transcript') = Len(transcript) + 1
      /\ DOMAIN transcript = 1 .. Len(transcript) /\ DOMAIN transcript' = 1 .. Len(transcript) + 1
      /\ \A i \in 1 .. Len(transcript) : transcript'[i] = transcript[i]
      /\ transcript'[Len(transcript) + 1] = m
  BY <1>0, AppendFacts, SMT DEF Hashes
<1>3. ASSUME NEW k \in 0 .. Len(transcript)
      PROVE  SubSeq(transcript', 1, k) = SubSeq(transcript, 1, k)
  <2>1. k <= Len(transcript') /\ \A i \in 1 .. k : transcript'[i] = transcript[i]
    BY <1>2
  <2> QED
    BY <1>0, <1>1, <2>1, PrefixKept, Zenon
<1>4. ASSUME Proved(type) PROVE Proved(type)'
  <2>1. PICK i \in DOMAIN transcript :
          /\ transcript[i].type = type
          /\ transcript[i].mac = Mac("client", SubSeq(transcript, 1, i - 1))
    BY <1>4, Zenon DEF Proved
  <2>2. i \in DOMAIN transcript' /\ i - 1 \in 0 .. Len(transcript) /\ transcript'[i] = transcript[i]
    BY <1>2
  <2>3. SubSeq(transcript', 1, i - 1) = SubSeq(transcript, 1, i - 1)
    BY <1>3, <2>2, Zenon
  <2> QED
    BY <2>1, <2>2, <2>3, Zenon DEF Proved
<1>5. ASSUME m.type = type, Verifies(m) PROVE Proved(type)'
  <2> DEFINE n == Len(transcript)
  <2>1. SubSeq(transcript, 1, n) = transcript
    <3> DEFINE S == {transcript[i] : i \in DOMAIN transcript}
    <3>1. transcript \in Seq(S)
      BY <1>0, Zenon DEF IsSeq
    <3> HIDE DEF S
    <3> QED
      BY <3>1
  <2>2. n \in 0 .. n /\ n + 1 \in DOMAIN transcript' /\ (n + 1) - 1 = n
    BY <1>2
  <2>3. SubSeq(transcript', 1, (n + 1) - 1) = transcript
    BY <1>3, <2>1, <2>2, Zenon
  <2>4. transcript'[n + 1].type = type
    BY <1>2, <1>5, Zenon
  <2>5. transcript'[n + 1].mac = Mac("client", SubSeq(transcript', 1, (n + 1) - 1))
    BY <1>2, <1>5, <2>3, Zenon DEF Verifies
  <2> HIDE DEF n
  <2> QED
    BY <2>2, <2>4, <2>5, Zenon DEF Proved
<1> QED
  BY <1>4, <1>5, Zenon

\* Another message than a certificate adds none.
LEMMA CertificatesStay ==
    ASSUME Shape, NEW m, Hashes(m), m # Certificate("Valid")
    PROVE  CertificateAt' = CertificateAt
<1> DEFINE cert == Certificate("Valid")
<1>1. PICK n \in Nat : /\ DOMAIN transcript = 1 .. n /\ DOMAIN transcript' = 1 .. n + 1
                       /\ \A i \in 1 .. n : transcript'[i] = transcript[i]
                       /\ transcript'[n + 1] = m
  <2>1. /\ Len(transcript) \in Nat /\ DOMAIN transcript = 1 .. Len(transcript)
        /\ DOMAIN transcript' = 1 .. Len(transcript) + 1
        /\ \A i \in 1 .. Len(transcript) : transcript'[i] = transcript[i]
        /\ transcript'[Len(transcript) + 1] = m
    BY AppendFacts DEF Hashes, Shape
  <2> QED
    BY <2>1, Zenon
<1>2. m # cert
  BY Zenon
<1> HIDE DEF cert
<1>3. \A i \in 1 .. n + 1 : i \in 1 .. n \/ i = n + 1
  OBVIOUS
<1>4. \A i \in 1 .. n : i \in 1 .. n + 1
  OBVIOUS
<1>5. \A i : i \in 1 .. n + 1 /\ transcript'[i] = cert <=> i \in 1 .. n /\ transcript[i] = cert
  BY <1>1, <1>2, <1>3, <1>4, Zenon
<1>6. {i \in DOMAIN transcript' : transcript'[i] = cert} = {i \in DOMAIN transcript : transcript[i] = cert}
  BY <1>1, <1>5, Zenon
<1> QED
  BY <1>6, Zenon DEF CertificateAt, cert

\* The client presented a certificate when there are two.
LEMMA PresentedFacts ==
    ASSUME Shape
    PROVE  AtMostOne(CertificateAt) => ~ClientPresented
<1>1. DOMAIN transcript = 1 .. Len(transcript) /\ Len(transcript) \in Nat
  BY SeqFacts, Zenon DEF Shape, IsSeq
<1>2. \A i, j \in DOMAIN transcript : i < j => i # j
  BY <1>1
<1> QED
  BY <1>2 DEF ClientPresented, CertificateAt, AtMostOne

\* In an answer the only certificate is the server's.
LEMMA AnswerCertificates ==
    ASSUME Shape, NEW u, NEW ch, NEW sh, NEW ee, NEW flight, NEW psk, NEW early,
           Answers(u, ch, sh, ee, flight, psk, early)
    PROVE  AtMostOne(CertificateAt')
<1> DEFINE cert == Certificate("Valid")
<1>1. cert.type = "Certificate" /\ ch.type = "ClientHello" /\ sh.type = "ServerHello"
  BY Zenon DEF Certificate, Answers, ServerHello
<1>2. IsSeq(<<ch, sh>>) /\ IsSeq(flight) /\ IsSeq(transcript)
  BY TupleFacts, Zenon DEF Answers, Shape
<1>3. Elems(<<ch, sh>>) = {ch, sh}
  BY ElemsOf, Zenon
<1>4. cert \notin Elems(transcript)
  BY <1>1, Zenon DEF Shape, Answers
<1>5. AtMostOne(At(flight, cert))
  BY Zenon DEF At, Answers
<1> HIDE DEF cert
<1>6. PICK a : a = transcript \o <<ch, sh>>
  BY Zenon
<1>7. IsSeq(a)
  BY <1>2, <1>6, ConcatFacts, Zenon
<1>8. cert \notin Elems(a)
  <2>1. Elems(a) = Elems(transcript) \cup {ch, sh}
    BY <1>2, <1>3, <1>6, ElemsGrow, Zenon
  <2> QED
    BY <1>1, <1>4, <2>1, Zenon
<1>9. transcript' = a \o flight
  BY <1>6, Zenon DEF Answers
<1>10. AtMostOne(At(transcript', cert))
  BY <1>2, <1>5, <1>7, <1>8, <1>9, AtConcat, Zenon
<1> QED
  BY <1>10, Zenon DEF At, CertificateAt, cert, AtMostOne

\* A call goes on only when the client proved what it has to prove.
LEMMA AuthenticatedStep ==
    ASSUME Shape, Shape', Authenticated, Ends
    PROVE  Authenticated'
<1> DEFINE Due == ClientPresented \/ (config.clientAuth = "Required" /\ ~Resumed)
           Kept == /\ state' \in {"ExpectEndOfEarlyData", "ExpectClientCertificate"}
                        => AtMostOne(CertificateAt')
                   /\ state' = "ExpectEndOfEarlyData" => Resumed'
                   /\ state' \in {"ExpectClientFinished", "Done"} =>
                        (Due' => Proved("CertificateVerify")' /\ authorized')
                   /\ state' = "Done" => Proved("Finished")'
<1>0. /\ state \in {"ExpectEndOfEarlyData", "ExpectClientCertificate"} => AtMostOne(CertificateAt)
      /\ state = "ExpectEndOfEarlyData" => Resumed
      /\ state \in {"ExpectClientFinished", "Done"} =>
           (Due => Proved("CertificateVerify") /\ authorized)
      /\ state = "Done" => Proved("Finished")
  BY Zenon DEF Authenticated
<1>1. AtMostOne(CertificateAt') => ~ClientPresented'
  <2>1. (AtMostOne(CertificateAt) => ~ClientPresented)'
    BY PresentedFacts, PTL
  <2> QED
    BY <2>1, Zenon DEF AtMostOne
<1>2. CertificateAt' = CertificateAt => (ClientPresented' <=> ClientPresented)
  BY Zenon DEF ClientPresented, CertificateAt
<1>3. /\ events' = events => (Resumed' <=> Resumed)
      /\ SentOf(events', "ServerHello") = SentOf(events, "ServerHello") => (Resumed' <=> Resumed)
  BY Zenon DEF Resumed
<1>4. transcript' = transcript => /\ Proved("CertificateVerify")' <=> Proved("CertificateVerify")
                                  /\ Proved("Finished")' <=> Proved("Finished")
                                  /\ CertificateAt' = CertificateAt
  BY Zenon DEF Proved, CertificateAt
<1>5. ASSUME NEW u, Dies(u) PROVE Kept
  BY <1>5, Zenon DEF Dies
<1>6. ASSUME NEW u, Updates(u) PROVE Kept
  <2>1. SentOf(events', "ServerHello") = SentOf(events, "ServerHello")
    BY <1>6, SentKept, Zenon DEF Updates
  <2>2. /\ state = "Done" /\ state' = "Done" /\ transcript' = transcript /\ authorized' = authorized
        /\ config' = config
    BY <1>6, Zenon DEF Updates
  <2>3. Due' => Due
    BY <1>2, <1>3, <1>4, <2>1, <2>2, Zenon
  <2> HIDE DEF Due
  <2> QED
    BY <1>0, <1>4, <2>2, <2>3, Zenon
<1>7. ASSUME NEW u, NEW ch, NEW hrr, Retries(u, ch, hrr) PROVE Kept
  BY <1>7, Zenon DEF Retries
<1>8. ASSUME NEW u, NEW ch, NEW sh, NEW ee, NEW flight, NEW psk, NEW early,
             Answers(u, ch, sh, ee, flight, psk, early)
      PROVE  Kept
  <2>1. AtMostOne(CertificateAt') /\ ~ClientPresented'
    BY <1>1, <1>8, AnswerCertificates, Zenon
  <2>2. psk => Resumed'
    <3>1. SentOf(events', "ServerHello") = SentOf(events, "ServerHello") \cup SentOf(u, "ServerHello")
      <4>1. IsSeq(events) /\ IsSeq(u) /\ events' = events \o u
        BY <1>8, Zenon DEF Answers, Grows, Shape
      <4> QED
        BY <4>1, LogGrows
    <3>2. sh \in SentOf(events', "ServerHello")
      BY <1>8, <3>1, Zenon DEF Answers
    <3>3. psk => sh.psk # None
      BY <1>8, Zenon DEF Answers, ServerHello, None
    <3> QED
      BY <3>2, <3>3, Zenon DEF Resumed
  <2>3. /\ state' \in {"ExpectEndOfEarlyData", "ExpectClientCertificate", "ExpectClientFinished"}
        /\ state' = "ExpectEndOfEarlyData" => psk
        /\ state' = "ExpectClientFinished" => psk \/ config'.clientAuth # "Required"
    BY <1>8, Zenon DEF Answers, AfterHello, None
  <2> QED
    BY <2>1, <2>2, <2>3, Zenon
<1>9. ASSUME NEW m, EndsEarlyData(m) \/ StaysAnonymous(m) PROVE Kept
  <2>1. m # Certificate("Valid")
    BY <1>9 DEF EndsEarlyData, StaysAnonymous, Certificate
  <2>2. /\ Hashes(m) /\ events' = events /\ config' = config /\ state' = "ExpectClientFinished"
        /\ state \in {"ExpectEndOfEarlyData", "ExpectClientCertificate"}
        /\ state = "ExpectEndOfEarlyData" \/ config.clientAuth = "Requested"
    BY <1>9, Zenon DEF EndsEarlyData, StaysAnonymous, Continues
  <2>3. ~ClientPresented'
    BY <1>0, <1>1, <2>1, <2>2, CertificatesStay, Zenon
  <2>4. Resumed' \/ config'.clientAuth # "Required"
    BY <1>0, <1>3, <2>2, Zenon
  <2> QED
    BY <2>2, <2>3, <2>4, Zenon
<1>10. ASSUME NEW m, Presents(m) PROVE Kept
  BY <1>10, Zenon DEF Presents, Continues
<1>11. ASSUME NEW m, Identifies(m) PROVE Kept
  <2>1. Proved("CertificateVerify")'
    BY <1>11, ProvedGrows, Zenon DEF Identifies, Continues
  <2>2. state' = "ExpectClientFinished" /\ authorized' = TRUE
    BY <1>11, Zenon DEF Identifies, Continues
  <2> HIDE DEF Due
  <2> QED
    BY <2>1, <2>2, Zenon
<1>12. ASSUME NEW u, NEW m, Finishes(u, m) PROVE Kept
  <2>1. /\ Hashes(m) /\ m.type = "Finished" /\ Verifies(m) /\ config' = config
        /\ state = "ExpectClientFinished" /\ state' = "Done" /\ authorized' = authorized
    BY <1>12, Zenon DEF Finishes
  <2>2. m # Certificate("Valid")
    BY <2>1 DEF Certificate
  <2>3. Proved("Finished")' /\ (Proved("CertificateVerify") => Proved("CertificateVerify")')
    BY <2>1, ProvedGrows, Zenon
  <2>4. SentOf(events', "ServerHello") = SentOf(events, "ServerHello")
    BY <1>12, SentKept, Zenon DEF Finishes
  <2>5. Due' => Due
    BY <1>2, <1>3, <2>1, <2>2, <2>4, CertificatesStay, Zenon
  <2> HIDE DEF Due
  <2> QED
    BY <1>0, <2>1, <2>3, <2>5, Zenon
<1>13. ASSUME NEW len, Charges(len) PROVE Kept
  <2>1. /\ state' = state /\ transcript' = transcript /\ authorized' = authorized
        /\ config' = config /\ events' = events
    BY <1>13, Zenon DEF Charges
  <2>2. Due' => Due
    BY <1>2, <1>3, <1>4, <2>1, Zenon
  <2> HIDE DEF Due
  <2> QED
    BY <1>0, <1>3, <1>4, <2>1, <2>2, Zenon
<1>14. Kept
  BY <1>5, <1>6, <1>7, <1>8, <1>9, <1>10, <1>11, <1>12, <1>13, ZenonT(40) DEF Ends
<1> QED
  BY <1>14, Zenon DEF Authenticated, AtMostOne

\* Whatever the client sends, in whatever order, and wherever the sink fails:
\* the server is Done only behind a Finished over the whole transcript, and
\* behind a proved and authorized certificate where one was presented or is
\* required (handle_client_cert_verify, handle_client_finished).
THEOREM DoneIsAlwaysAuthenticated == Spec => []DoneIsAuthenticated
<1>1. Init => Authenticated
  BY Zenon DEF Init, Authenticated
<1>2. Shape /\ Shape' /\ Authenticated /\ [Next]_vars => Authenticated'
  <2>1. ASSUME Shape, Shape', Authenticated, Next PROVE Authenticated'
    BY <2>1, NextEnds, AuthenticatedStep, Zenon
  <2>2. ASSUME Authenticated, UNCHANGED vars PROVE Authenticated'
    BY <2>2, ZenonT(40) DEF vars, Authenticated, CertificateAt, AtMostOne, Proved, Resumed, ClientPresented
  <2> QED
    BY <2>1, <2>2, Zenon
<1>3. Authenticated => DoneIsAuthenticated
  BY Zenon DEF Authenticated, DoneIsAuthenticated
<1> QED
  BY <1>1, <1>2, <1>3, AlwaysInShape, PTL DEF Spec

============================================================================
