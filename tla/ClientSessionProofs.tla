------------------------ MODULE ClientSessionProofs ------------------------
(***************************************************************************)
(* Proofs about ClientSession, for every set of configurations, tickets,    *)
(* ages and cookies that its assumption allows, and for any peer.           *)
(*                                                                          *)
(* A call ends in one of eleven ways: it fails with part of its events      *)
(* delivered, or it takes the handshake one state on.  Ends lists them,     *)
(* NextEnds shows that there are no others.  The invariants are then        *)
(* preserved end by end.  DoneIsAuthenticated is not inductive: Done is     *)
(* reached from ExpectServerFinished, whose certificate was proved earlier. *)
(* Authenticated says what has been proved by the time each state is        *)
(* reached; it stays proved because the transcript only grows from there.   *)
(*                                                                          *)
(* Two more invariants say where an offer stands in each state.  Of early   *)
(* data: offered once and not settled before EncryptedExtensions, settled   *)
(* as the server said after it, not ended before Done (EarlyDataSettled).   *)
(* Of the hello: the last one sent is the one whose share, ticket and early *)
(* data the state is about, and a retry request hashed so far fixed the     *)
(* suite (HelloIsLast).                                                     *)
(***************************************************************************)
EXTENDS ClientSession, TLAPS

-----------------------------------------------------------------------------
(* Logs and transcripts.  Nothing is assumed of what they hold. *)

IsSeq(s) == s \in Seq({s[i] : i \in DOMAIN s})

\* A sequence over any set is one over its own elements.
LEMMA SeqFacts ==
    ASSUME NEW S, NEW s \in Seq(S)
    PROVE  IsSeq(s) /\ Len(s) \in Nat /\ DOMAIN s = 1 .. Len(s)
<1>1. Len(s) \in Nat /\ DOMAIN s = 1 .. Len(s) /\ s \in [1 .. Len(s) -> S]
  OBVIOUS
<1> DEFINE T == {s[i] : i \in DOMAIN s}
<1>2. s \in [1 .. Len(s) -> T]
  BY <1>1, Zenon
<1>3. IsSeq(s) <=> s \in Seq(T)
  BY Zenon DEF IsSeq
<1> HIDE DEF T
<1>4. s \in Seq(T)
  BY <1>1, <1>2
<1> QED
  BY <1>1, <1>3, <1>4, Zenon

\* One element more.
LEMMA AppendFacts ==
    ASSUME NEW s, IsSeq(s), NEW e, NEW t, t = Append(s, e)
    PROVE  /\ IsSeq(t) /\ Len(s) \in Nat /\ Len(t) = Len(s) + 1
           /\ DOMAIN s = 1 .. Len(s) /\ DOMAIN t = 1 .. Len(s) + 1
           /\ \A i \in 1 .. Len(s) : t[i] = s[i]
           /\ t[Len(s) + 1] = e
<1> DEFINE S == {s[i] : i \in DOMAIN s} \cup {e}
<1>1. s \in Seq(S) /\ e \in S
  BY DEF IsSeq
<1> HIDE DEF S
<1>2. /\ t \in Seq(S) /\ Len(s) \in Nat /\ Len(t) = Len(s) + 1
      /\ \A i \in 1 .. Len(s) : t[i] = s[i]
      /\ t[Len(s) + 1] = e
  BY <1>1
<1> QED
  BY <1>1, <1>2, SeqFacts, Zenon

\* One sequence after another.
LEMMA ConcatFacts ==
    ASSUME NEW s, IsSeq(s), NEW u, IsSeq(u), NEW t, t = s \o u
    PROVE  /\ IsSeq(t) /\ Len(s) \in Nat /\ Len(u) \in Nat /\ Len(t) = Len(s) + Len(u)
           /\ DOMAIN s = 1 .. Len(s) /\ DOMAIN u = 1 .. Len(u)
           /\ DOMAIN t = 1 .. Len(s) + Len(u)
           /\ \A i \in 1 .. Len(s) : t[i] = s[i]
           /\ \A i \in 1 .. Len(u) : t[Len(s) + i] = u[i]
<1> DEFINE S == {s[i] : i \in DOMAIN s} \cup {u[i] : i \in DOMAIN u}
<1>1. s \in Seq(S) /\ u \in Seq(S)
  BY DEF IsSeq
<1> HIDE DEF S
<1>2. /\ t \in Seq(S) /\ Len(s) \in Nat /\ Len(u) \in Nat /\ Len(t) = Len(s) + Len(u)
      /\ \A i \in 1 .. Len(s) : t[i] = s[i]
      /\ \A i \in 1 .. Len(u) : t[Len(s) + i] = u[i]
  BY <1>1
<1> QED
  BY <1>1, <1>2, SeqFacts, Zenon

\* The first elements.
LEMMA PrefixFacts ==
    ASSUME NEW s, IsSeq(s), NEW k \in 0 .. Len(s), NEW t, t = SubSeq(s, 1, k)
    PROVE  /\ IsSeq(t) /\ Len(t) = k /\ DOMAIN t = 1 .. k
           /\ \A i \in 1 .. k : t[i] = s[i]
<1> DEFINE S == {s[i] : i \in DOMAIN s}
<1>1. s \in Seq(S)
  BY Zenon DEF IsSeq
<1> HIDE DEF S
<1>2. /\ t \in Seq(S) /\ Len(t) = k
      /\ \A i \in 1 .. k : t[i] = s[i]
  BY <1>1
<1> QED
  BY <1>2, SeqFacts, Zenon

\* What comes later does not change the first elements.
LEMMA PrefixKept ==
    ASSUME NEW s, IsSeq(s), NEW t, IsSeq(t), NEW k \in 0 .. Len(s), k <= Len(t),
           \A i \in 1 .. k : t[i] = s[i]
    PROVE  SubSeq(t, 1, k) = SubSeq(s, 1, k)
<1> DEFINE S == {s[i] : i \in DOMAIN s} \cup {t[i] : i \in DOMAIN t}
<1>1. s \in Seq(S) /\ t \in Seq(S)
  BY DEF IsSeq
<1> HIDE DEF S
<1>2. k \in 0 .. Len(t)
  BY <1>1
<1>3. /\ SubSeq(s, 1, k) \in Seq(S) /\ Len(SubSeq(s, 1, k)) = k
      /\ \A i \in 1 .. k : SubSeq(s, 1, k)[i] = s[i]
  BY <1>1
<1>4. /\ SubSeq(t, 1, k) \in Seq(S) /\ Len(SubSeq(t, 1, k)) = k
      /\ \A i \in 1 .. k : SubSeq(t, 1, k)[i] = t[i]
  BY <1>1, <1>2
<1>5. \A a, b \in Seq(S) : Len(a) = Len(b) /\ (\A i \in 1 .. Len(a) : a[i] = b[i]) => a = b
  OBVIOUS
<1> QED
  BY <1>3, <1>4, <1>5, Zenon

\* The log of messages carries one of the type.
Carried(log, type) ==
    \E i \in DOMAIN log : \E j \in DOMAIN log[i].msgs : log[i].msgs[j].type = type

\* What SentOf collects is there when it is carried.
LEMMA SentIsCarried ==
    ASSUME NEW log, NEW type
    PROVE  SentOf(log, type) # {} <=> Carried(log, type)
<1> DEFINE Of(i) == {log[i].msgs[j] : j \in {k \in DOMAIN log[i].msgs : log[i].msgs[k].type = type}}
<1>1. SentOf(log, type) = UNION {Of(i) : i \in DOMAIN log}
  BY Zenon DEF SentOf
<1>2. \A i : Of(i) # {} <=> \E j \in DOMAIN log[i].msgs : log[i].msgs[j].type = type
  BY Zenon
<1> HIDE DEF Of
<1>3. UNION {Of(i) : i \in DOMAIN log} # {} <=> \E i \in DOMAIN log : Of(i) # {}
  BY Zenon
<1> QED
  BY <1>1, <1>2, <1>3, Zenon DEF Carried

\* An event is in a log when it is in one of its parts.
LEMMA LogGrows ==
    ASSUME NEW log, IsSeq(log), NEW u, IsSeq(u), NEW new, new = log \o u
    PROVE  /\ IsSeq(new)
           /\ \A e : Emitted(new, e) <=> Emitted(log, e) \/ Emitted(u, e)
           /\ \A t : Carried(new, t) <=> Carried(log, t) \/ Carried(u, t)
<1>0. IsSeq(new)
  BY ConcatFacts, Zenon
<1>1. /\ Len(log) \in Nat /\ Len(u) \in Nat
      /\ DOMAIN log = 1 .. Len(log) /\ DOMAIN u = 1 .. Len(u)
      /\ DOMAIN new = 1 .. Len(log) + Len(u)
      /\ \A i \in 1 .. Len(log) : new[i] = log[i]
      /\ \A i \in 1 .. Len(u) : new[Len(log) + i] = u[i]
  BY ConcatFacts, SMT
<1>2. \A i \in DOMAIN log : i \in DOMAIN new /\ new[i] = log[i]
  BY <1>1
<1>3. \A i \in DOMAIN u : Len(log) + i \in DOMAIN new /\ new[Len(log) + i] = u[i]
  BY <1>1
<1>4. ASSUME NEW i \in DOMAIN new
      PROVE  \/ i \in DOMAIN log /\ new[i] = log[i]
             \/ \E j \in DOMAIN u : new[i] = u[j]
  <2>1. CASE i <= Len(log)
    BY <1>1, <2>1
  <2>2. CASE ~(i <= Len(log))
    <3>1. i - Len(log) \in 1 .. Len(u) /\ Len(log) + (i - Len(log)) = i
      BY <1>1, <2>2
    <3> QED
      BY <1>1, <3>1, ZenonT(40)
  <2> QED
    BY <2>1, <2>2, Zenon
<1> DEFINE Elems(l) == {l[i] : i \in DOMAIN l}
<1>5. Elems(new) = Elems(log) \cup Elems(u)
  <2>1. \A x \in Elems(log) : x \in Elems(new)
    BY <1>2, Zenon
  <2>2. \A x \in Elems(u) : x \in Elems(new)
    BY <1>3, Zenon
  <2>3. \A x \in Elems(new) : x \in Elems(log) \cup Elems(u)
    BY <1>4, Zenon
  <2> QED
    BY <2>1, <2>2, <2>3, Zenon
<1>6. \A l, e : Emitted(l, e) <=> e \in Elems(l)
  BY Zenon DEF Emitted
<1>7. ASSUME NEW t PROVE Carried(new, t) <=> Carried(log, t) \/ Carried(u, t)
  <2> DEFINE Has(e) == \E j \in DOMAIN e.msgs : e.msgs[j].type = t
  <2>1. \A l : Carried(l, t) <=> \E e \in Elems(l) : Has(e)
    BY Zenon DEF Carried
  <2> HIDE DEF Has, Elems
  <2> QED
    BY <1>5, <2>1, Zenon
<1> HIDE DEF Elems
<1>8. \A e : Emitted(new, e) <=> Emitted(log, e) \/ Emitted(u, e)
  BY <1>5, <1>6, Zenon
<1> QED
  BY <1>0, <1>7, <1>8, Zenon

\* A list has no event of the type, or just one.
Lacks(log, t) == \A i \in DOMAIN log : log[i].type # t

HasOne(log, t) == \E k \in DOMAIN log : \A i \in DOMAIN log : log[i].type = t <=> i = k

-----------------------------------------------------------------------------
(* The invariants. *)

\* Before the ServerHello is settled, before EncryptedExtensions settle the
\* offer of early data, between them and Finished, and after it.
Offering == {"ExpectServerHello", "ExpectEncryptedExtensions"}

Settling == {"ExpectCertificate", "ExpectCertificateVerify", "ExpectServerFinished"}

Finishing == {"Done", "QuicPostHandshake"}

\* The shape of what the handlers look at.  A session that has not started has
\* emitted and hashed nothing.
Shape ==
    /\ state \in States
    /\ config \in ClientConfig
    /\ certResponse \in {None, "Empty", "Identity"}
    /\ hrrDone \in BOOLEAN
    /\ pskUsed \in BOOLEAN
    /\ IsSeq(events)
    /\ IsSeq(transcript)
    /\ state = "Initial" => events = <<>> /\ transcript = <<>> /\ ~hrrDone /\ ~pskUsed /\ suite = None

\* What the server has proved by the time a state is reached.
Authenticated ==
    /\ state \in {"Initial"} \cup Offering \cup Settling => ~Emitted(events, KeysReady("Application"))
    /\ state \in {"ExpectServerFinished"} \cup Finishing => pskUsed \/ Proved("CertificateVerify")
    /\ state \in Finishing => Proved("Finished")

-----------------------------------------------------------------------------
(* The ways a call can end, as far as the invariants can tell.  Each lists    *)
(* what the call delivered to the sink (u) and what it left behind.           *)

\* The sink took u.
Grows(u) == IsSeq(u) /\ events' = events \o u

\* The transcript goes on with m, then with messages of the client's own.
Hashes(m) ==
    /\ IsSeq(transcript')
    /\ Len(transcript) + 1 <= Len(transcript')
    /\ \A i \in 1 .. Len(transcript) : transcript'[i] = transcript[i]
    /\ transcript'[Len(transcript) + 1] = m
    /\ \A i \in (Len(transcript) + 2) .. Len(transcript') :
         transcript'[i].type \notin {"ServerHello", "HelloRetryRequest"}

\* A setter changed the configuration.
Tunes ==
    /\ state = "Initial"
    /\ config' \in ClientConfig
    /\ UNCHANGED Untuned

\* Session::poison, after some events or none.
Dies ==
    /\ state # "Failed" /\ state' = "Failed"
    /\ UNCHANGED <<config, hrrDone, pskUsed, certResponse, transcript>>

DiesQuietly(u) == Grows(u) /\ Dies /\ \A i \in DOMAIN u : u[i] = Signal("PeerExtension")

DiesStarting(u, hello) ==
    Grows(u) /\ Dies /\ state = "Initial" /\ DOMAIN u = 1 .. 1 /\ u[1] = Send("Plaintext", <<hello>>)

DiesFinishing(u) ==
    /\ Grows(u) /\ Dies /\ state = "ExpectServerFinished"
    /\ \A i \in DOMAIN u : \/ u[i] = KeysReady("Application")
                           \/ u[i].type = "Send" /\ u[i].epoch = "Handshake"

\* start_into sent the hello.
Starts(u, hello) ==
    /\ state = "Initial" /\ state' = "ExpectServerHello"
    /\ Grows(u)
    /\ DOMAIN u = IF hello.early THEN 1 .. 2 ELSE 1 .. 1
    /\ u[1] = Send("Plaintext", <<hello>>)
    /\ hello.early => u[2] = Signal("ZeroRttKeysReady")
    /\ hello.type = "ClientHello" /\ hello.shares = <<pendingGroup'>> /\ hello.ticket = resumption'
    /\ earlyData' = IF hello.early THEN "Offered" ELSE "NotOffered"
    /\ hello.early => earlyBound' = hello.ticket
    /\ transcript' = <<hello>>
    /\ UNCHANGED <<config, hrrDone, pskUsed, certResponse, suite>>

\* handle_server_hello took the answer.
Greets(u, m) ==
    /\ state = "ExpectServerHello" /\ state' = "ExpectEncryptedExtensions"
    /\ Grows(u) /\ DOMAIN u = 1 .. 1 /\ u[1] = KeysReady("Handshake")
    /\ m.type = "ServerHello" /\ SuiteAcceptable(m) /\ m.group = pendingGroup
    /\ pskUsed' \in BOOLEAN
    /\ pskUsed' => resumption # NoTicket
    /\ suite' = m.suite
    /\ Hashes(m)
    /\ UNCHANGED <<config, hrrDone, earlyData, earlyBound, certResponse>>

\* finish_hello_retry_request sent the second hello.
Retries(u, m, hello) ==
    /\ state = "ExpectServerHello" /\ state' = "ExpectServerHello"
    /\ ~hrrDone /\ hrrDone' = TRUE
    /\ Grows(u) /\ DOMAIN u = 1 .. 1 /\ u[1] = Send("Plaintext", <<hello>>)
    /\ hello.type = "ClientHello" /\ ~hello.early
    /\ hello.shares = <<pendingGroup'>> /\ hello.ticket = resumption'
    /\ m.type = "HelloRetryRequest" /\ SuiteAcceptable(m) /\ suite' = m.suite
    /\ transcript' = <<MessageHash(transcript), m, hello>>
    /\ UNCHANGED <<config, pskUsed, earlyData, earlyBound, certResponse>>

\* handle_encrypted_extensions took the answer.
Settles(u, m) ==
    /\ state = "ExpectEncryptedExtensions" /\ state' = AfterExtensions
    /\ Grows(u)
    /\ m.type = "EncryptedExtensions" /\ EarlyAcceptable(m)
    /\ earlyData = "Offered" =>
         \E k \in DOMAIN u :
            /\ u[k] = Signal(IF m.early THEN "EarlyDataAccepted" ELSE "EarlyDataRejected")
            /\ \A i \in DOMAIN u : i # k => u[i] = Signal("PeerExtension")
    /\ earlyData # "Offered" => \A i \in DOMAIN u : u[i] = Signal("PeerExtension")
    /\ selectedAlpn' = m.alpn
    /\ earlyData' = IF m.early THEN "Accepted" ELSE "NotOffered"
    /\ Hashes(m)
    /\ UNCHANGED <<config, hrrDone, pskUsed, suite, certResponse>>

\* A message of the server's authentication was taken.
Proceeds(m) ==
    /\ <<state, m.type, state'>> \in
         {<<"ExpectCertificate", "CertificateRequest", "ExpectCertificate">>,
          <<"ExpectCertificate", "Certificate", "ExpectCertificateVerify">>,
          <<"ExpectCertificateVerify", "CertificateVerify", "ExpectServerFinished">>}
    /\ m.type = "CertificateVerify" => Verifies(m)
    /\ certResponse' \in {None, "Empty", "Identity"}
    /\ Hashes(m)
    /\ UNCHANGED <<config, hrrDone, pskUsed, earlyData, selectedAlpn, suite, events>>

\* handle_server_finished sent the client's flight.
Finishes(u, m) ==
    /\ state = "ExpectServerFinished" /\ state' = "Done"
    /\ m.type = "Finished" /\ Verifies(m)
    /\ Grows(u)
    /\ \A i \in DOMAIN u : \/ u[i] \in {KeysReady("Application"), Signal("Done")}
                           \/ u[i].type = "Send" /\ u[i].epoch = "Handshake"
    /\ Carried(u, "EndOfEarlyData") <=> EndsEarlyData
    /\ certResponse' = None
    /\ Hashes(m)
    /\ UNCHANGED <<config, hrrDone, pskUsed, earlyData, selectedAlpn, suite>>

\* A call after the handshake.
Reports(u) ==
    /\ state \in Finishing /\ state' \in Finishing
    /\ Grows(u)
    /\ \A i \in DOMAIN u : u[i] \in {Signal("NewSessionTicket"), Signal("KeyUpdate")}
    /\ UNCHANGED <<config, hrrDone, pskUsed, earlyData, selectedAlpn, suite, certResponse, transcript>>

Ends ==
    \/ Tunes
    \/ \E u : DiesQuietly(u) \/ DiesFinishing(u) \/ Reports(u)
    \/ \E u, hello : DiesStarting(u, hello) \/ Starts(u, hello)
    \/ \E u, m : Greets(u, m) \/ Settles(u, m) \/ Finishes(u, m)
    \/ \E u, m, hello : Retries(u, m, hello)
    \/ \E m : Proceeds(m)

\* Accepts delivers a prefix.
LEMMA AcceptsPrefix ==
    ASSUME NEW evs, IsSeq(evs), NEW k \in 0 .. Len(evs), Accepts(evs, k)
    PROVE  \E u : Grows(u) /\ DOMAIN u = 1 .. k /\ \A i \in 1 .. k : u[i] = evs[i]
<1> DEFINE u == SubSeq(evs, 1, k)
<1>1. IsSeq(u)
  BY PrefixFacts, Zenon
<1>2. DOMAIN u = 1 .. k /\ \A i \in 1 .. k : u[i] = evs[i]
  BY PrefixFacts, Zenon
<1>3. events' = events \o u
  BY Zenon DEF Accepts
<1> QED
  BY <1>1, <1>2, <1>3, Zenon DEF Grows

\* Tuples of events are sequences.
LEMMA TupleFacts ==
    ASSUME NEW a, NEW b, NEW c, NEW d
    PROVE  /\ IsSeq(<<>>) /\ Len(<<>>) = 0 /\ DOMAIN <<>> = {}
           /\ IsSeq(<<a>>) /\ Len(<<a>>) = 1 /\ DOMAIN <<a>> = 1 .. 1
           /\ IsSeq(<<a, b>>) /\ Len(<<a, b>>) = 2
           /\ IsSeq(<<a, b, c>>) /\ Len(<<a, b, c>>) = 3 /\ DOMAIN <<a, b, c>> = 1 .. 3
           /\ IsSeq(<<a, b, c, d>>) /\ Len(<<a, b, c, d>>) = 4
<1> DEFINE S == {a, b, c, d}
<1>1. /\ <<>> \in Seq(S) /\ <<a>> \in Seq(S) /\ <<a, b>> \in Seq(S) /\ <<a, b, c>> \in Seq(S)
      /\ <<a, b, c, d>> \in Seq(S)
  OBVIOUS
<1> HIDE DEF S
<1>2. /\ IsSeq(<<>>) /\ IsSeq(<<a>>) /\ IsSeq(<<a, b>>) /\ IsSeq(<<a, b, c>>)
      /\ IsSeq(<<a, b, c, d>>)
  BY <1>1, SeqFacts, Zenon
<1> QED
  BY <1>2

\* Lists of events put together.
LEMMA TupleConcat ==
    ASSUME NEW a, NEW b, NEW c, NEW d
    PROVE  /\ <<>> \o <<>> = <<>> /\ <<a>> \o <<>> = <<a>> /\ <<>> \o <<a>> = <<a>>
           /\ <<a>> \o <<b>> = <<a, b>>
           /\ <<a>> \o <<b>> \o <<c, d>> = <<a, b, c, d>>
           /\ <<a>> \o <<>> \o <<c, d>> = <<a, c, d>>
<1> DEFINE S == {a, b, c, d}
<1>1. a \in S /\ b \in S /\ c \in S /\ d \in S
  BY Zenon
<1> HIDE DEF S
<1>0. \A s, t \in Seq(S) : Len(s) = Len(t) /\ (\A i \in 1 .. Len(s) : s[i] = t[i]) => s = t
  OBVIOUS
<1>2. <<>> \o <<>> = <<>> /\ <<a>> \o <<>> = <<a>> /\ <<>> \o <<a>> = <<a>>
  BY <1>1
<1>3. <<a>> \o <<b>> = <<a, b>>
  <2> DEFINE s == <<a>> \o <<b>>
             t == <<a, b>>
  <2>1. <<a>> \in Seq(S) /\ <<b>> \in Seq(S) /\ t \in Seq(S) /\ Len(t) = 2 /\ t[1] = a /\ t[2] = b
    BY <1>1
  <2>2. s \in Seq(S) /\ Len(s) = 2 /\ s[1] = a /\ s[2] = b
    BY <1>1, <2>1
  <2> HIDE DEF s, t
  <2>3. s = t
    BY <1>0, <2>1, <2>2
  <2> QED
    BY <2>3, Zenon DEF s, t
<1>4. <<a, b>> \o <<c, d>> = <<a, b, c, d>>
  <2> DEFINE s == <<a, b>> \o <<c, d>>
             t == <<a, b, c, d>>
  <2>1. /\ <<a, b>> \in Seq(S) /\ <<c, d>> \in Seq(S) /\ t \in Seq(S) /\ Len(t) = 4
        /\ t[1] = a /\ t[2] = b /\ t[3] = c /\ t[4] = d
    BY <1>1
  <2>2. s \in Seq(S) /\ Len(s) = 4 /\ s[1] = a /\ s[2] = b /\ s[3] = c /\ s[4] = d
    BY <1>1, <2>1
  <2> HIDE DEF s, t
  <2>3. s = t
    BY <1>0, <2>1, <2>2, SMTT(30)
  <2> QED
    BY <2>3, Zenon DEF s, t
<1>5. <<a>> \o <<c, d>> = <<a, c, d>>
  <2> DEFINE s == <<a>> \o <<c, d>>
             t == <<a, c, d>>
  <2>1. /\ <<a>> \in Seq(S) /\ <<c, d>> \in Seq(S) /\ t \in Seq(S) /\ Len(t) = 3
        /\ t[1] = a /\ t[2] = c /\ t[3] = d
    BY <1>1
  <2>2. s \in Seq(S) /\ Len(s) = 3 /\ s[1] = a /\ s[2] = c /\ s[3] = d
    BY <1>1, <2>1
  <2> HIDE DEF s, t
  <2>3. s = t
    BY <1>0, <2>1, <2>2
  <2> QED
    BY <2>3, Zenon DEF s, t
<1> QED
  BY <1>2, <1>3, <1>4, <1>5, Zenon

\* The final flight, with and without EndOfEarlyData.
LEMMA FinalTuples ==
    ASSUME NEW a, NEW b, NEW c, NEW d
    PROVE  /\ <<a>> \o <<b>> \o <<c, d>> = <<a, b, c, d>> /\ IsSeq(<<a, b, c, d>>)
           /\ <<a>> \o <<>> \o <<c, d>> = <<a, c, d>> /\ IsSeq(<<a, c, d>>)
<1>1. <<a>> \o <<b>> \o <<c, d>> = <<a, b, c, d>> /\ <<a>> \o <<>> \o <<c, d>> = <<a, c, d>>
  BY TupleConcat
<1>2. IsSeq(<<a, b, c, d>>)
  BY TupleFacts, Zenon
<1>3. IsSeq(<<a, c, d>>)
  BY TupleFacts, Zenon
<1> QED
  BY <1>1, <1>2, <1>3, Zenon

\* One message more is hashed.
LEMMA AppendHashes ==
    ASSUME NEW m, IsSeq(transcript), transcript' = Append(transcript, m)
    PROVE  Hashes(m)
<1>1. IsSeq(transcript')
  BY AppendFacts, Zenon
<1>2. /\ Len(transcript) \in Nat /\ Len(transcript') = Len(transcript) + 1
      /\ \A i \in 1 .. Len(transcript) : transcript'[i] = transcript[i]
      /\ transcript'[Len(transcript) + 1] = m
  BY AppendFacts
<1> QED
  BY <1>1, <1>2 DEF Hashes

\* A call that fails before any event.
LEMMA FailDies ==
    ASSUME IsSeq(events), state # "Failed", Fail
    PROVE  \E u : DiesQuietly(u)
<1>1. IsSeq(<<>>) /\ DOMAIN <<>> = {}
  BY TupleFacts, Zenon
<1>2. events \o <<>> = events
  <2> DEFINE S == {events[i] : i \in DOMAIN events}
  <2>1. events \in Seq(S)
    BY Zenon DEF IsSeq
  <2> HIDE DEF S
  <2> QED
    BY <2>1
<1>3. DiesQuietly(<<>>)
  BY <1>1, <1>2, Zenon DEF DiesQuietly, Grows, Dies, Fail, Poison
<1> QED
  BY <1>3, Zenon

\* start_into: the hello, and the keys of early data if it is offered.
LEMMA StartEnds ==
    ASSUME Shape, NEW fresh, Start(fresh)
    PROVE  Ends
<1> DEFINE ticket == OfferedTicket(fresh)
           early == EarlyDataOffer(ticket)
           hello == Hello(config.group, ticket, early)
           more == IF early THEN <<Signal("ZeroRttKeysReady")>> ELSE <<>>
           evs == <<Send("Plaintext", <<hello>>)>> \o more
<1>0. state = "Initial" /\ IsSeq(events)
  BY Zenon DEF Start, Shape
<1>1. /\ hello.type = "ClientHello" /\ hello.shares = <<config.group>> /\ hello.ticket = ticket
      /\ hello.early = early
  BY Zenon DEF Hello, ClientHello
<1>2. early \in BOOLEAN
  BY Zenon DEF EarlyDataOffer
<1>3. /\ early => evs = <<Send("Plaintext", <<hello>>), Signal("ZeroRttKeysReady")>>
      /\ ~early => evs = <<Send("Plaintext", <<hello>>)>>
  <2> HIDE DEF hello, early
  <2> QED
    BY TupleConcat, Zenon
<1>4. CASE Fail
  BY <1>0, <1>4, FailDies, Zenon DEF Ends
<1>5. CASE ~Fail
  <2>1. PICK k \in 0 .. Len(evs) :
          /\ Accepts(evs, k)
          /\ \/ Refused(evs, k)
             \/ /\ k = Len(evs)
                /\ state' = "ExpectServerHello"
                /\ resumption' = ticket
                /\ earlyData' = IF early THEN "Offered" ELSE "NotOffered"
                /\ earlyBound' = IF early THEN ticket ELSE NoTicket
                /\ pendingGroup' = config.group
                /\ transcript' = <<hello>>
                /\ UNCHANGED <<config, given, hrrDone, pskUsed, suite, active, certResponse>>
    BY <1>5, Zenon DEF Start
  <2> HIDE DEF hello, early, ticket, evs
  <2>2. IsSeq(evs) /\ Len(evs) = (IF early THEN 2 ELSE 1)
    BY <1>2, <1>3, TupleFacts, ZenonT(40)
  <2>3. evs[1] = Send("Plaintext", <<hello>>) /\ (early => evs[2] = Signal("ZeroRttKeysReady"))
    BY <1>2, <1>3
  <2>4. PICK u : Grows(u) /\ DOMAIN u = 1 .. k /\ \A i \in 1 .. k : u[i] = evs[i]
    BY <2>1, <2>2, AcceptsPrefix, Zenon
  <2>5. CASE Refused(evs, k)
    <3>1. Dies
      BY <1>0, <2>5, Zenon DEF Refused, Poison, Dies
    <3>2. k = 0 \/ k = 1
      BY <2>2, <2>5 DEF Refused
    <3>3. CASE k = 0
      <4>1. DiesQuietly(u)
        BY <2>4, <3>1, <3>3 DEF DiesQuietly
      <4> QED
        BY <4>1, Zenon DEF Ends
    <3>4. CASE k = 1
      <4>1. DiesStarting(u, hello)
        BY <1>0, <2>3, <2>4, <3>1, <3>4 DEF DiesStarting
      <4> QED
        BY <4>1, Zenon DEF Ends
    <3> QED
      BY <3>2, <3>3, <3>4, Zenon
  <2>6. CASE ~Refused(evs, k)
    <3>1. k = IF early THEN 2 ELSE 1
      BY <2>1, <2>2, <2>6, Zenon
    <3>2. DOMAIN u = IF early THEN 1 .. 2 ELSE 1 .. 1
      BY <1>2, <2>4, <3>1, Zenon
    <3>3. u[1] = Send("Plaintext", <<hello>>) /\ (early => u[2] = Signal("ZeroRttKeysReady"))
      BY <1>2, <2>3, <2>4, <3>1
    <3>4. Starts(u, hello)
      BY <1>0, <1>1, <1>2, <2>1, <2>4, <2>6, <3>2, <3>3, Zenon DEF Starts
    <3> QED
      BY <3>4, Zenon DEF Ends
  <2> QED
    BY <2>5, <2>6, Zenon
<1> QED
  BY <1>4, <1>5, Zenon

\* handle_server_hello: one event, or none.
LEMMA ServerHelloEnds ==
    ASSUME Shape, NEW m, HandleServerHello(m)
    PROVE  Ends
<1>0. IsSeq(events) /\ IsSeq(transcript) /\ state = "ExpectServerHello"
  BY Zenon DEF Shape, HandleServerHello
<1>1. CASE Fail
  BY <1>0, <1>1, FailDies, Zenon DEF Ends
<1>2. CASE ~Fail
  <2> DEFINE evs == <<KeysReady("Handshake")>>
  <2>1. PICK k \in 0 .. Len(evs) :
          /\ Accepts(evs, k)
          /\ \/ Refused(evs, k)
             \/ /\ k = Len(evs)
                /\ state' = "ExpectEncryptedExtensions"
                /\ suite' = m.suite
                /\ pskUsed' = (m.psk # None)
                /\ transcript' = Append(transcript, m)
                /\ UNCHANGED <<config, hrrDone, earlyData, earlyBound, certResponse>>
    BY <1>2, Zenon DEF HandleServerHello, HandshakeKeys
  <2>2. /\ state = "ExpectServerHello" /\ m.type = "ServerHello" /\ SuiteAcceptable(m)
        /\ PskAcceptable(m) /\ m.group = pendingGroup
    BY <1>2, Zenon DEF HandleServerHello
  <2>3. IsSeq(evs) /\ Len(evs) = 1 /\ evs[1] = KeysReady("Handshake")
    BY TupleFacts, Zenon
  <2> HIDE DEF evs
  <2>4. PICK u : Grows(u) /\ DOMAIN u = 1 .. k /\ \A i \in 1 .. k : u[i] = evs[i]
    BY <2>1, <2>3, AcceptsPrefix, Zenon
  <2>5. CASE Refused(evs, k)
    <3>1. Dies /\ k = 0
      BY <1>0, <2>3, <2>5 DEF Refused, Poison, Dies
    <3>2. DiesQuietly(u)
      BY <2>4, <3>1 DEF DiesQuietly
    <3> QED
      BY <3>2, Zenon DEF Ends
  <2>6. CASE ~Refused(evs, k)
    <3>1. k = 1
      BY <2>1, <2>3, <2>6, Zenon
    <3>2. Hashes(m)
      BY <1>0, <2>1, <2>6, AppendHashes, Zenon
    <3>3. pskUsed' \in BOOLEAN /\ (pskUsed' => resumption # NoTicket)
      BY <2>1, <2>2, <2>6, Zenon DEF PskAcceptable
    <3>4. Greets(u, m)
      BY <2>1, <2>2, <2>3, <2>4, <2>6, <3>1, <3>2, <3>3, SMTT(30) DEF Greets
    <3> QED
      BY <3>4, Zenon DEF Ends
  <2> QED
    BY <2>5, <2>6, Zenon
<1> QED
  BY <1>1, <1>2, Zenon

\* handle_hello_retry_request: the second hello, or nothing.
LEMMA RetryEnds ==
    ASSUME Shape, NEW m, NEW fresh, HandleHelloRetryRequest(m, fresh)
    PROVE  Ends
<1> DEFINE ticket == IF fresh THEN resumption ELSE NoTicket
           first == Hello(m.group, ticket, FALSE)
           hello == [first EXCEPT !.cookie = m.cookie]
           evs == <<Send("Plaintext", <<hello>>)>>
<1>0. IsSeq(events) /\ state = "ExpectServerHello" /\ m.type = "HelloRetryRequest"
  BY Zenon DEF Shape, HandleHelloRetryRequest
<1>1. /\ hello.type = "ClientHello" /\ hello.shares = <<m.group>> /\ hello.ticket = ticket
      /\ hello.early = FALSE
  BY Zenon DEF Hello, ClientHello
<1>2. CASE Fail
  BY <1>0, <1>2, FailDies, Zenon DEF Ends
<1>3. CASE ~Fail
  <2>1. PICK k \in 0 .. Len(evs) :
          /\ Accepts(evs, k)
          /\ \/ Refused(evs, k)
             \/ /\ k = Len(evs)
                /\ suite' = m.suite
                /\ hrrDone' = TRUE
                /\ resumption' = ticket
                /\ pendingGroup' = m.group
                /\ transcript' = <<MessageHash(transcript), m, hello>>
                /\ UNCHANGED <<config, state, pskUsed, earlyData, earlyBound, certResponse>>
    BY <1>3, Zenon DEF HandleHelloRetryRequest
  <2>2. SuiteAcceptable(m) /\ ~hrrDone
    BY <1>3, Zenon DEF HandleHelloRetryRequest, RetryAcceptable
  <2> HIDE DEF hello, ticket, first
  <2>3. IsSeq(evs) /\ Len(evs) = 1 /\ evs[1] = Send("Plaintext", <<hello>>)
    BY TupleFacts, Zenon
  <2> HIDE DEF evs
  <2>4. PICK u : Grows(u) /\ DOMAIN u = 1 .. k /\ \A i \in 1 .. k : u[i] = evs[i]
    BY <2>1, <2>3, AcceptsPrefix, Zenon
  <2>5. CASE Refused(evs, k)
    <3>1. Dies /\ k = 0
      BY <1>0, <2>3, <2>5 DEF Refused, Poison, Dies
    <3>2. DiesQuietly(u)
      BY <2>4, <3>1 DEF DiesQuietly
    <3> QED
      BY <3>2, Zenon DEF Ends
  <2>6. CASE ~Refused(evs, k)
    <3>1. k = 1
      BY <2>1, <2>3, <2>6, Zenon
    <3>2. Retries(u, m, hello)
      BY <1>0, <1>1, <2>1, <2>2, <2>3, <2>4, <2>6, <3>1 DEF Retries
    <3> QED
      BY <3>2, Zenon DEF Ends
  <2> QED
    BY <2>5, <2>6, Zenon
<1> QED
  BY <1>2, <1>3, Zenon

\* handle_encrypted_extensions: the transport parameters, then the outcome of
\* the offer; a sink that refuses an event has not taken the outcome.
LEMMA ExtensionsEnd ==
    ASSUME Shape, NEW m, HandleEncryptedExtensions(m)
    PROVE  Ends
<1>0. IsSeq(events) /\ IsSeq(transcript) /\ state = "ExpectEncryptedExtensions" /\ m.type = "EncryptedExtensions"
  BY Zenon DEF Shape, HandleEncryptedExtensions
<1> DEFINE params == IF m.quicParams THEN <<Signal("PeerExtension")>> ELSE <<>>
           evs == params \o EarlyOutcome(m)
           outcome == Signal(IF m.early THEN "EarlyDataAccepted" ELSE "EarlyDataRejected")
<1>1. CASE Fail
  BY <1>0, <1>1, FailDies, Zenon DEF Ends
<1>2. CASE ~Fail
  <2>1. PICK k \in 0 .. Len(evs) :
          /\ Accepts(evs, k)
          /\ \/ Refused(evs, k)
             \/ /\ k = Len(evs)
                /\ state' = AfterExtensions
                /\ earlyData' = IF m.early THEN "Accepted" ELSE "NotOffered"
                /\ transcript' = Append(transcript, m)
                /\ UNCHANGED <<config, hrrDone, pskUsed, suite, certResponse>>
    BY <1>2, Zenon DEF HandleEncryptedExtensions
  <2>2. EarlyAcceptable(m) /\ selectedAlpn' = m.alpn
    BY <1>2, Zenon DEF HandleEncryptedExtensions
  <2>3. EarlyOutcome(m) = IF earlyData # "Offered" THEN <<>> ELSE <<outcome>>
    BY Zenon DEF EarlyOutcome
  <2> HIDE DEF outcome
  <2>4. evs = IF earlyData # "Offered"
              THEN IF m.quicParams THEN <<Signal("PeerExtension")>> ELSE <<>>
              ELSE IF m.quicParams THEN <<Signal("PeerExtension"), outcome>> ELSE <<outcome>>
    BY <2>3, TupleConcat, Zenon
  <2> HIDE DEF evs
  <2>5. /\ IsSeq(evs)
        /\ Len(evs) \in Nat
        /\ \A i \in 1 .. Len(evs) : i < Len(evs) => evs[i] = Signal("PeerExtension")
        /\ Len(evs) > 0 /\ earlyData # "Offered" => evs[Len(evs)] = Signal("PeerExtension")
        /\ earlyData = "Offered" => Len(evs) > 0 /\ evs[Len(evs)] = outcome
    <3>1. CASE earlyData # "Offered" /\ m.quicParams
      <4>1. evs = <<Signal("PeerExtension")>>
        BY <2>4, <3>1, Zenon
      <4>2. IsSeq(evs)
        BY <4>1, TupleFacts, Zenon
      <4> QED
        BY <3>1, <4>1, <4>2
    <3>2. CASE earlyData # "Offered" /\ ~m.quicParams
      <4>1. evs = <<>>
        BY <2>4, <3>2, Zenon
      <4>2. IsSeq(evs)
        BY <4>1, TupleFacts, Zenon
      <4> QED
        BY <3>2, <4>1, <4>2
    <3>3. CASE earlyData = "Offered" /\ m.quicParams
      <4>1. evs = <<Signal("PeerExtension"), outcome>>
        BY <2>4, <3>3, Zenon
      <4>2. IsSeq(evs)
        BY <4>1, TupleFacts, Zenon
      <4> QED
        BY <3>3, <4>1, <4>2
    <3>4. CASE earlyData = "Offered" /\ ~m.quicParams
      <4>1. evs = <<outcome>>
        BY <2>4, <3>4, Zenon
      <4>2. IsSeq(evs)
        BY <4>1, TupleFacts, Zenon
      <4> QED
        BY <3>4, <4>1, <4>2
    <3> QED
      BY <3>1, <3>2, <3>3, <3>4, Zenon
  <2>6. PICK u : Grows(u) /\ DOMAIN u = 1 .. k /\ \A i \in 1 .. k : u[i] = evs[i]
    BY <2>1, <2>5, AcceptsPrefix, Zenon
  <2>7. CASE Refused(evs, k)
    <3>1. Dies /\ k < Len(evs)
      BY <1>0, <2>7, Zenon DEF Refused, Poison, Dies
    <3>2. \A i \in DOMAIN u : u[i] = Signal("PeerExtension")
      BY <2>5, <2>6, <3>1
    <3>3. DiesQuietly(u)
      BY <2>6, <3>1, <3>2, Zenon DEF DiesQuietly
    <3> QED
      BY <3>3, Zenon DEF Ends
  <2>8. CASE ~Refused(evs, k)
    <3>1. k = Len(evs)
      BY <2>1, <2>8, Zenon
    <3>2. Hashes(m)
      BY <1>0, <2>1, <2>8, AppendHashes, Zenon
    <3>3. earlyData # "Offered" => \A i \in DOMAIN u : u[i] = Signal("PeerExtension")
      BY <2>5, <2>6, <3>1
    <3>4. ASSUME earlyData = "Offered"
          PROVE  /\ k \in DOMAIN u /\ u[k] = outcome
                 /\ \A i \in DOMAIN u : i # k => u[i] = Signal("PeerExtension")
      BY <2>5, <2>6, <3>1, <3>4
    <3>5. Settles(u, m)
      BY <1>0, <2>1, <2>2, <2>6, <2>8, <3>2, <3>3, <3>4, Zenon DEF Settles, outcome
    <3> QED
      BY <3>5, Zenon DEF Ends
  <2> QED
    BY <2>7, <2>8, Zenon
<1> QED
  BY <1>1, <1>2, Zenon

\* handle_certificate_request, handle_certificate, handle_certificate_verify.
LEMMA AuthenticationEnds ==
    ASSUME Shape, NEW m,
           HandleCertificateRequest(m) \/ HandleCertificate(m) \/ HandleCertificateVerify(m)
    PROVE  Ends
<1>0. /\ IsSeq(events) /\ IsSeq(transcript) /\ certResponse \in {None, "Empty", "Identity"}
      /\ state # "Failed"
  BY Zenon DEF Shape, HandleCertificateRequest, HandleCertificate, HandleCertificateVerify
<1>1. CASE Fail
  BY <1>0, <1>1, FailDies, Zenon DEF Ends
<1>2. CASE ~Fail
  <2>1. transcript' = Append(transcript, m)
    BY <1>2, Zenon DEF HandleCertificateRequest, HandleCertificate, HandleCertificateVerify, Advance
  <2>2. Hashes(m)
    BY <1>0, <2>1, AppendHashes, Zenon
  <2>3. Proceeds(m)
    BY <1>0, <1>2, <2>2, Zenon
    DEF HandleCertificateRequest, HandleCertificate, HandleCertificateVerify, Advance, Proceeds
  <2> QED
    BY <2>3, Zenon DEF Ends
<1> QED
  BY <1>1, <1>2, Zenon

\* append_flight: what the client says about itself.
LEMMA FlightFacts ==
    ASSUME NEW base, certResponse \in {None, "Empty", "Identity"}
    PROVE  /\ IsSeq(CertificateFlight(base))
           /\ \A i \in DOMAIN CertificateFlight(base) :
                CertificateFlight(base)[i].type \in {"Certificate", "CertificateVerify"}
<1> DEFINE cert == Certificate("Valid")
           verify == CertificateVerify(Mac("client", Append(base, cert)))
<1>1. CASE certResponse = None
  <2>1. CertificateFlight(base) = <<>>
    BY <1>1, Zenon DEF CertificateFlight, None
  <2> QED
    BY <2>1, TupleFacts, Zenon
<1>2. CASE certResponse = "Empty"
  <2>1. CertificateFlight(base) = <<Certificate("Empty")>>
    BY <1>2, Zenon DEF CertificateFlight, None
  <2>2. IsSeq(CertificateFlight(base))
    BY <2>1, TupleFacts, Zenon
  <2> QED
    BY <2>1, <2>2 DEF Certificate
<1>3. CASE certResponse = "Identity"
  <2>1. CertificateFlight(base) = <<cert, verify>>
    BY <1>3, Zenon DEF CertificateFlight, None
  <2>2. cert.type = "Certificate" /\ verify.type = "CertificateVerify"
    BY Zenon DEF Certificate, CertificateVerify
  <2> HIDE DEF cert, verify
  <2>3. IsSeq(CertificateFlight(base))
    BY <2>1, TupleFacts, Zenon
  <2> QED
    BY <2>1, <2>2, <2>3
<1> QED
  BY <1>1, <1>2, <1>3, Zenon

\* What handle_server_finished hashes goes on from the server's Finished.
LEMMA FinishedHashes ==
    ASSUME IsSeq(transcript), NEW m, NEW received, received = Append(transcript, m),
           NEW base, base = received \/ base = Append(received, EndOfEarlyData),
           NEW auth, IsSeq(auth),
           \A i \in DOMAIN auth : auth[i].type \in {"Certificate", "CertificateVerify"},
           NEW signed, signed = base \o auth,
           NEW fin, fin.type = "Finished", transcript' = Append(signed, fin)
    PROVE  Hashes(m)
<1>1. IsSeq(received)
  BY AppendFacts, Zenon
<1>2. IsSeq(base)
  <2>1. CASE base = received
    BY <1>1, <2>1, Zenon
  <2>2. CASE base = Append(received, EndOfEarlyData)
    BY <1>1, <2>2, AppendFacts, Zenon
  <2> QED
    BY <2>1, <2>2, Zenon
<1>3. IsSeq(signed)
  BY <1>2, ConcatFacts, Zenon
<1>4. IsSeq(transcript')
  BY <1>3, AppendFacts, Zenon
<1>5. /\ Len(transcript) \in Nat /\ Len(received) = Len(transcript) + 1
      /\ \A i \in 1 .. Len(transcript) : received[i] = transcript[i]
      /\ received[Len(transcript) + 1] = m
  BY AppendFacts
<1>6. /\ Len(base) \in Nat /\ Len(base) \in {Len(received), Len(received) + 1}
      /\ \A i \in 1 .. Len(received) : base[i] = received[i]
      /\ \A i \in 1 .. Len(base) : i > Len(received) => base[i] = EndOfEarlyData
  <2>1. CASE base = received
    BY <1>5, <2>1
  <2>2. CASE base = Append(received, EndOfEarlyData)
    <3>1. /\ Len(base) = Len(received) + 1
          /\ \A i \in 1 .. Len(received) : base[i] = received[i]
          /\ base[Len(received) + 1] = EndOfEarlyData
      BY <1>1, <2>2, AppendFacts
    <3> QED
      BY <1>5, <3>1
  <2> QED
    BY <2>1, <2>2, Zenon
<1>7. /\ Len(auth) \in Nat /\ Len(signed) = Len(base) + Len(auth) /\ DOMAIN auth = 1 .. Len(auth)
      /\ \A i \in 1 .. Len(base) : signed[i] = base[i]
      /\ \A i \in 1 .. Len(auth) : signed[Len(base) + i] = auth[i]
  BY <1>2, ConcatFacts
<1>8. /\ Len(transcript') = Len(signed) + 1
      /\ \A i \in 1 .. Len(signed) : transcript'[i] = signed[i]
      /\ transcript'[Len(signed) + 1] = fin
  BY <1>3, AppendFacts, SMTT(30)
<1>9. \A i \in 1 .. Len(received) : transcript'[i] = received[i]
  BY <1>5, <1>6, <1>7, <1>8
<1>10. ASSUME NEW i \in (Len(transcript) + 2) .. Len(transcript')
       PROVE  transcript'[i].type \notin {"ServerHello", "HelloRetryRequest"}
  <2>0. /\ Len(base) \in Nat /\ Len(signed) \in Nat /\ Len(transcript') = Len(signed) + 1
        /\ i \in Nat /\ i <= Len(transcript')
    BY <1>5, <1>6, <1>7, <1>8
  <2>1. CASE i <= Len(base)
    <3>1. transcript'[i] = EndOfEarlyData
      BY <1>5, <1>6, <1>7, <1>8, <2>1
    <3> QED
      BY <3>1 DEF EndOfEarlyData
  <2>2. CASE i > Len(base) /\ i <= Len(signed)
    <3>1. i - Len(base) \in 1 .. Len(auth) /\ Len(base) + (i - Len(base)) = i
      BY <1>5, <1>6, <1>7, <2>2, SMTT(30)
    <3>2. transcript'[i] = signed[i] /\ signed[i] = auth[i - Len(base)]
      BY <1>5, <1>6, <1>7, <1>8, <2>2, <3>1
    <3> QED
      BY <1>7, <3>1, <3>2, Zenon
  <2>3. CASE i > Len(signed)
    <3>1. i = Len(signed) + 1
      <4>1. PICK n \in Nat : n = Len(signed)
        BY <2>0, Zenon
      <4>2. PICK j \in Nat : j = i
        BY <2>0, Zenon
      <4>3. j <= n + 1 /\ j > n
        BY <2>0, <2>3, <4>1, <4>2, Zenon
      <4>4. j = n + 1
        BY <4>3
      <4> QED
        BY <4>1, <4>2, <4>4, Zenon
    <3> QED
      BY <1>8, <3>1, Zenon
  <2>4. i <= Len(base) \/ (i > Len(base) /\ i <= Len(signed)) \/ i > Len(signed)
    <3>1. PICK n \in Nat, b \in Nat, j \in Nat : n = Len(signed) /\ b = Len(base) /\ j = i
      BY <2>0, Zenon
    <3> QED
      BY <3>1
  <2> QED
    BY <2>1, <2>2, <2>3, <2>4, Zenon
<1>11. /\ Len(transcript) + 1 <= Len(transcript')
       /\ \A i \in 1 .. Len(transcript) : transcript'[i] = transcript[i]
       /\ transcript'[Len(transcript) + 1] = m
  BY <1>5, <1>6, <1>7, <1>8, <1>9
<1> QED
  BY <1>4, <1>10, <1>11, Zenon DEF Hashes

\* What handle_server_finished emits: Done comes last, and EndOfEarlyData is
\* sent when early data was accepted on TLS.
LEMMA FinalEventsFacts ==
    ASSUME NEW auth, IsSeq(auth),
           \A i \in DOMAIN auth : auth[i].type \in {"Certificate", "CertificateVerify"},
           NEW fin, fin.type = "Finished",
           NEW evs, evs = FinalEvents(auth, fin)
    PROVE  /\ IsSeq(evs) /\ Len(evs) \in Nat /\ DOMAIN evs = 1 .. Len(evs)
           /\ \A i \in 1 .. Len(evs) :
                \/ evs[i] = KeysReady("Application")
                \/ evs[i].type = "Send" /\ evs[i].epoch = "Handshake"
                \/ evs[i] = Signal("Done") /\ i = Len(evs)
           /\ Carried(evs, "EndOfEarlyData") <=> EndsEarlyData
<1> DEFINE keys == KeysReady("Application")
           end == Send("Handshake", <<EndOfEarlyData>>)
           flight == Append(auth, fin)
           send == Send("Handshake", flight)
           done == Signal("Done")
<1>1. /\ EndsEarlyData => evs = <<keys, end, send, done>>
      /\ ~EndsEarlyData => evs = <<keys, send, done>>
  <2> HIDE DEF keys, end, flight, send, done
  <2>1. evs = <<keys>> \o (IF EndsEarlyData THEN <<end>> ELSE <<>>) \o <<send, done>>
    BY Zenon DEF FinalEvents, keys, end, flight, send, done
  <2>2. CASE EndsEarlyData
    <3>1. evs = <<keys>> \o <<end>> \o <<send, done>>
      BY <2>1, <2>2, Zenon
    <3> QED
      BY <2>2, <3>1, FinalTuples, ZenonT(40)
  <2>3. CASE ~EndsEarlyData
    <3>1. evs = <<keys>> \o <<>> \o <<send, done>>
      BY <2>1, <2>3, Zenon
    <3> QED
      BY <2>3, <3>1, FinalTuples, Zenon
  <2> QED
    BY <2>2, <2>3, Zenon
<1>2. /\ keys.msgs = <<>> /\ done.msgs = <<>>
      /\ end.type = "Send" /\ end.epoch = "Handshake" /\ end.msgs = <<EndOfEarlyData>>
      /\ send.type = "Send" /\ send.epoch = "Handshake" /\ send.msgs = flight
  BY Zenon DEF KeysReady, Signal, Send, Event
<1>3. \A j \in DOMAIN flight : flight[j].type # "EndOfEarlyData"
  <2> HIDE DEF flight
  <2>1. /\ Len(auth) \in Nat /\ DOMAIN auth = 1 .. Len(auth) /\ DOMAIN flight = 1 .. Len(auth) + 1
        /\ \A i \in 1 .. Len(auth) : flight[i] = auth[i]
        /\ flight[Len(auth) + 1] = fin
    BY AppendFacts DEF flight
  <2>2. ASSUME NEW j \in 1 .. Len(auth) + 1 PROVE j \in 1 .. Len(auth) \/ j = Len(auth) + 1
    BY <2>1
  <2> QED
    BY <2>1, <2>2, Zenon
<1>4. <<EndOfEarlyData>>[1].type = "EndOfEarlyData" /\ 1 \in DOMAIN <<EndOfEarlyData>>
  BY DEF EndOfEarlyData
<1>5. \A j \in DOMAIN <<>> : FALSE
  OBVIOUS
<1> HIDE DEF keys, end, flight, send, done
<1>6. CASE EndsEarlyData
  <2>1. IsSeq(evs)
    <3>1. evs = <<keys, end, send, done>>
      BY <1>1, <1>6, Zenon
    <3> QED
      BY <3>1, FinalTuples, ZenonT(40)
  <2>2. Len(evs) = 4 /\ DOMAIN evs = 1 .. 4 /\ evs[1] = keys /\ evs[2] = end /\ evs[3] = send /\ evs[4] = done
    BY <1>1, <1>6
  <2>3. Carried(evs, "EndOfEarlyData")
    BY <1>2, <1>4, <2>2 DEF Carried
  <2> QED
    BY <1>2, <1>6, <2>1, <2>2, <2>3 DEF keys, done
<1>7. CASE ~EndsEarlyData
  <2>1. IsSeq(evs)
    <3>1. evs = <<keys, send, done>>
      BY <1>1, <1>7, Zenon
    <3> QED
      BY <3>1, FinalTuples, Zenon
  <2>2. Len(evs) = 3 /\ DOMAIN evs = 1 .. 3 /\ evs[1] = keys /\ evs[2] = send /\ evs[3] = done
    BY <1>1, <1>7
  <2>3. ~Carried(evs, "EndOfEarlyData")
    BY <1>2, <1>3, <1>5, <2>2 DEF Carried
  <2> QED
    BY <1>2, <1>7, <2>1, <2>2, <2>3 DEF keys, done
<1> QED
  BY <1>6, <1>7, Zenon

\* handle_server_finished: Done is the last event, so a sink that refuses one
\* has not taken it.
LEMMA FinishedEnds ==
    ASSUME Shape, NEW m, HandleServerFinished(m)
    PROVE  Ends
<1>0. /\ IsSeq(events) /\ IsSeq(transcript) /\ certResponse \in {None, "Empty", "Identity"}
      /\ state = "ExpectServerFinished" /\ m.type = "Finished"
  BY Zenon DEF Shape, HandleServerFinished
<1> DEFINE received == Append(transcript, m)
           base == IF EndsEarlyData THEN Append(received, EndOfEarlyData) ELSE received
           auth == CertificateFlight(base)
           signed == base \o auth
           fin == Finished(Mac("client", signed))
           evs == FinalEvents(auth, fin)
<1>1. CASE Fail
  BY <1>0, <1>1, FailDies, Zenon DEF Ends
<1>2. CASE ~Fail
  <2>1. PICK k \in 0 .. Len(evs) :
          /\ Accepts(evs, k)
          /\ \/ Refused(evs, k)
             \/ /\ k = Len(evs)
                /\ state' = "Done"
                /\ certResponse' = None
                /\ transcript' = Append(signed, fin)
                /\ UNCHANGED <<config, hrrDone, pskUsed, earlyData, suite>>
    BY <1>2, Zenon DEF HandleServerFinished
  <2>2. Verifies(m) /\ selectedAlpn' = selectedAlpn
    BY <1>2, Zenon DEF HandleServerFinished
  <2>3. fin.type = "Finished"
    BY Zenon DEF Finished
  <2>4. base = received \/ base = Append(received, EndOfEarlyData)
    BY Zenon
  <2> HIDE DEF received, base, auth, signed, fin, evs
  <2>5. IsSeq(auth) /\ \A i \in DOMAIN auth : auth[i].type \in {"Certificate", "CertificateVerify"}
    BY <1>0, FlightFacts DEF auth
  <2>6. /\ IsSeq(evs) /\ Len(evs) \in Nat /\ DOMAIN evs = 1 .. Len(evs)
        /\ \A i \in 1 .. Len(evs) :
             \/ evs[i] = KeysReady("Application")
             \/ evs[i].type = "Send" /\ evs[i].epoch = "Handshake"
             \/ evs[i] = Signal("Done") /\ i = Len(evs)
        /\ Carried(evs, "EndOfEarlyData") <=> EndsEarlyData
    BY <2>3, <2>5, FinalEventsFacts, Zenon DEF evs
  <2>7. PICK u : Grows(u) /\ DOMAIN u = 1 .. k /\ \A i \in 1 .. k : u[i] = evs[i]
    BY <2>1, <2>6, AcceptsPrefix, Zenon
  <2>8. CASE Refused(evs, k)
    <3>1. Dies /\ k < Len(evs)
      BY <1>0, <2>8, Zenon DEF Refused, Poison, Dies
    <3>2. ASSUME NEW i \in DOMAIN u
          PROVE  u[i] = KeysReady("Application") \/ (u[i].type = "Send" /\ u[i].epoch = "Handshake")
      <4>1. PICK n \in Nat : n = Len(evs)
        BY <2>6, Zenon
      <4>2. k \in 0 .. n /\ k < n /\ i \in 1 .. k
        BY <2>7, <3>1, <4>1, Zenon
      <4>3. i \in 1 .. n /\ i # n
        BY <4>2
      <4>4. i \in 1 .. Len(evs) /\ u[i] = evs[i] /\ i # Len(evs)
        BY <2>7, <4>1, <4>2, <4>3, Zenon
      <4> QED
        BY <2>6, <4>4, Zenon
    <3>3. DiesFinishing(u)
      BY <1>0, <2>7, <3>1, <3>2, Zenon DEF DiesFinishing
    <3> QED
      BY <3>3, Zenon DEF Ends
  <2>9. CASE ~Refused(evs, k)
    <3>1. k = Len(evs)
      BY <2>1, <2>9, Zenon
    <3>2. Hashes(m)
      <4>1. transcript' = Append(signed, fin)
        BY <2>1, <2>9, Zenon
      <4> QED
        BY <1>0, <2>3, <2>4, <2>5, <4>1, FinishedHashes, Zenon DEF received, signed
    <3>3. Carried(u, "EndOfEarlyData") <=> EndsEarlyData
      <4>1. DOMAIN u = DOMAIN evs /\ \A i \in DOMAIN u : u[i] = evs[i]
        BY <2>6, <2>7, <3>1, Zenon
      <4>2. Carried(u, "EndOfEarlyData") <=> Carried(evs, "EndOfEarlyData")
        BY <4>1, Zenon DEF Carried
      <4> QED
        BY <2>6, <4>2, Zenon
    <3>4. ASSUME NEW i \in DOMAIN u
          PROVE  \/ u[i] \in {KeysReady("Application"), Signal("Done")}
                 \/ u[i].type = "Send" /\ u[i].epoch = "Handshake"
      <4>1. i \in 1 .. Len(evs) /\ u[i] = evs[i]
        BY <2>7, <3>1, Zenon
      <4>2. \/ evs[i] = KeysReady("Application")
            \/ evs[i].type = "Send" /\ evs[i].epoch = "Handshake"
            \/ evs[i] = Signal("Done")
        BY <2>6, <4>1, Zenon
      <4> QED
        BY <4>1, <4>2, Zenon
    <3>5. Finishes(u, m)
      BY <1>0, <2>1, <2>2, <2>7, <2>9, <3>2, <3>3, <3>4, Zenon DEF Finishes
    <3> QED
      BY <3>5, Zenon DEF Ends
  <2> QED
    BY <2>8, <2>9, Zenon
<1> QED
  BY <1>1, <1>2, Zenon

\* A post-handshake message is reported or refused.
LEMMA ReportEnds ==
    ASSUME IsSeq(events), state \in Finishing, NEW evs, IsSeq(evs), Report(evs),
           Len(evs) \in {0, 1},
           \A i \in 1 .. Len(evs) : evs[i] \in {Signal("NewSessionTicket"), Signal("KeyUpdate")}
    PROVE  Ends
<1>1. PICK k \in 0 .. Len(evs) :
        /\ Accepts(evs, k)
        /\ UNCHANGED selectedAlpn
        /\ \/ Refused(evs, k)
           \/ /\ k = Len(evs)
              /\ UNCHANGED <<config, state, hrrDone, pskUsed, earlyData, suite, certResponse, transcript>>
  BY Zenon DEF Report
<1>2. PICK u : Grows(u) /\ DOMAIN u = 1 .. k /\ \A i \in 1 .. k : u[i] = evs[i]
  BY <1>1, AcceptsPrefix, Zenon
<1>3. CASE Refused(evs, k)
  <2>1. Dies /\ k = 0
    BY <1>3 DEF Refused, Poison, Dies, Finishing
  <2>2. DiesQuietly(u)
    BY <1>2, <2>1 DEF DiesQuietly
  <2> QED
    BY <2>2, Zenon DEF Ends
<1>4. CASE ~Refused(evs, k)
  <2>1. k = Len(evs)
    BY <1>1, <1>4, Zenon
  <2>2. \A i \in DOMAIN u : u[i] \in {Signal("NewSessionTicket"), Signal("KeyUpdate")}
    BY <1>2, <2>1, Zenon
  <2>3. Reports(u)
    BY <1>1, <1>2, <1>4, <2>2, Zenon DEF Reports
  <2> QED
    BY <2>3, Zenon DEF Ends
<1> QED
  BY <1>3, <1>4, Zenon

\* handle_new_session_ticket, handle_key_update, QuicPostHandshake and
\* into_quic_post_handshake.
LEMMA PostHandshakeEnds ==
    ASSUME Shape, NEW m, NEW withinBudget,
           \/ HandleNewSessionTicket(m) \/ HandleKeyUpdate(m, withinBudget)
           \/ ReceiveTicket(m) \/ IntoQuicPostHandshake
    PROVE  Ends
<1>0. IsSeq(events) /\ state # "Failed"
  BY Zenon DEF Shape, HandleNewSessionTicket, HandleKeyUpdate, ReceiveTicket, IntoQuicPostHandshake
<1> DEFINE ticket == Signal("NewSessionTicket")
           update == Signal("KeyUpdate")
<1>1. CASE Fail
  BY <1>0, <1>1, FailDies, Zenon DEF Ends
<1>2. CASE ~Fail /\ HandleNewSessionTicket(m)
  <2> DEFINE evs == IF TicketUsable(m) THEN <<ticket>> ELSE <<>>
  <2>1. state \in Finishing /\ Report(evs)
    BY <1>2, Zenon DEF HandleNewSessionTicket, Finishing
  <2>2. evs = <<ticket>> \/ evs = <<>>
    BY Zenon
  <2> HIDE DEF evs, ticket
  <2>3. IsSeq(evs)
    BY <2>2, TupleFacts, Zenon
  <2>4. Len(evs) \in {0, 1} /\ \A i \in 1 .. Len(evs) : evs[i] = ticket
    BY <2>2
  <2>5. \A i \in 1 .. Len(evs) : evs[i] \in {Signal("NewSessionTicket"), Signal("KeyUpdate")}
    BY <2>4, Zenon DEF ticket
  <2> QED
    BY <1>0, <2>1, <2>3, <2>4, <2>5, ReportEnds, Zenon
<1>3. CASE ~Fail /\ HandleKeyUpdate(m, withinBudget)
  <2> DEFINE evs == <<update>>
  <2>1. state \in Finishing /\ Report(evs)
    BY <1>3, Zenon DEF HandleKeyUpdate, Finishing
  <2> HIDE DEF update
  <2>2. IsSeq(evs)
    BY TupleFacts, Zenon
  <2>3. Len(evs) \in {0, 1} /\ \A i \in 1 .. Len(evs) : evs[i] = update
    OBVIOUS
  <2> HIDE DEF evs
  <2>4. \A i \in 1 .. Len(evs) : evs[i] \in {Signal("NewSessionTicket"), Signal("KeyUpdate")}
    BY <2>3, Zenon DEF update
  <2> QED
    BY <1>0, <2>1, <2>2, <2>3, <2>4, ReportEnds, Zenon
<1>4. CASE ReceiveTicket(m)
  <2> DEFINE u == <<ticket>>
  <2>1. events' = events \o u
    <3> DEFINE S == {events[i] : i \in DOMAIN events} \cup {ticket}
    <3>1. events \in Seq(S) /\ ticket \in S
      BY <1>0 DEF IsSeq
    <3>2. events' = Append(events, ticket)
      BY <1>4, Zenon DEF ReceiveTicket
    <3> HIDE DEF S, ticket
    <3>3. Append(events, ticket) = events \o u
      BY <3>1
    <3> QED
      BY <3>2, <3>3, Zenon
  <2>2. IsSeq(u)
    BY TupleFacts, Zenon
  <2>3. \A i \in DOMAIN u : u[i] \in {Signal("NewSessionTicket"), Signal("KeyUpdate")}
    OBVIOUS
  <2> HIDE DEF u
  <2>4. Reports(u)
    BY <1>4, <2>1, <2>2, <2>3, Zenon DEF ReceiveTicket, Reports, Grows, Finishing
  <2> QED
    BY <2>4, Zenon DEF Ends
<1>5. CASE ~Fail /\ IntoQuicPostHandshake
  <2>1. IsSeq(<<>>) /\ DOMAIN <<>> = {}
    BY TupleFacts, Zenon
  <2>2. events \o <<>> = events
    <3> DEFINE S == {events[i] : i \in DOMAIN events}
    <3>1. events \in Seq(S)
      BY <1>0, Zenon DEF IsSeq
    <3> HIDE DEF S
    <3> QED
      BY <3>1
  <2>3. Reports(<<>>)
    BY <1>5, <2>1, <2>2, Zenon DEF IntoQuicPostHandshake, Reports, Grows, Finishing
  <2> QED
    BY <2>3, Zenon DEF Ends
<1> QED
  BY <1>1, <1>2, <1>3, <1>4, <1>5, Zenon

\* The setters.
LEMMA TuneEnds ==
    ASSUME Shape, Tune
    PROVE  Ends
<1>0. config \in ClientConfig
  BY Zenon DEF Shape
<1>1. ASSUME NEW group \in Groups, SetKexGroup(group)
      PROVE  Tunes
  <2>1. [config EXCEPT !.group = group] \in ClientConfig
    BY <1>0, Zenon DEF ClientConfig
  <2> QED
    BY <1>1, <2>1, Zenon DEF SetKexGroup, Tunes
<1>2. ASSUME NEW list, SetCipherSuites(list)
      PROVE  Tunes
  <2>1. [config EXCEPT !.suites = list \cap Suites] \in ClientConfig
    BY <1>0, Zenon DEF ClientConfig
  <2> QED
    BY <1>2, <2>1, Zenon DEF SetCipherSuites, Tunes
<1>3. "X25519Mlkem768" \in Groups
  BY DEF Groups, SupportedGroups
<1>4. Tunes
  BY <1>1, <1>2, <1>3, Zenon DEF Tune, FromClient
<1> QED
  BY <1>4, Zenon DEF Ends

\* Every call of the connection ends in one of the ways.
LEMMA NextEnds ==
    ASSUME Shape, Next
    PROVE  Ends
<1>1. CASE Tune
  BY <1>1, TuneEnds, Zenon
<1>2. CASE \E fresh \in BOOLEAN : Start(fresh)
  BY <1>2, StartEnds, Zenon
<1>3. CASE IntoQuicPostHandshake
  BY <1>3, PostHandshakeEnds, Zenon
<1>4. ASSUME NEW m, NEW epoch, NEW fresh, Read(m, epoch, fresh)
      PROVE  Ends
  <2>1. CASE Unexpected(m, epoch)
    <3>1. IsSeq(events) /\ state # "Failed" /\ Fail
      BY <2>1, Zenon DEF Unexpected, Shape
    <3> QED
      BY <3>1, FailDies, Zenon DEF Ends
  <2>2. CASE Handle(m, fresh)
    BY <2>2, ServerHelloEnds, RetryEnds, ExtensionsEnd, AuthenticationEnds, FinishedEnds,
       PostHandshakeEnds, Zenon DEF Handle
  <2> QED
    BY <1>4, <2>1, <2>2, Zenon DEF Read
<1>5. CASE AnyRead \/ HonestRead
  BY <1>4, <1>5, Zenon DEF AnyRead, HonestRead
<1> QED
  BY <1>1, <1>2, <1>3, <1>5, Zenon DEF Next

-----------------------------------------------------------------------------
(* The shape of the state. *)

\* The sink's log stays a sequence.
LEMMA GrowsIsSeq ==
    ASSUME IsSeq(events), NEW u, Grows(u)
    PROVE  IsSeq(events')
BY ConcatFacts, Zenon DEF Grows

\* A connection starts in shape.
LEMMA ShapeInit == Init => Shape
<1> SUFFICES ASSUME Init PROVE Shape
  BY Zenon
<1>1. IsSeq(<<>>)
  BY TupleFacts, Zenon
<1>2. config \in ClientConfig
  BY ClientAssumption, Zenon DEF Init
<1> QED
  BY <1>1, <1>2, Zenon DEF Init, Shape, States

\* Every call keeps it.
LEMMA ShapeStep ==
    ASSUME Shape, Ends
    PROVE  Shape'
<1>0. /\ state \in States /\ config \in ClientConfig /\ certResponse \in {None, "Empty", "Identity"}
      /\ hrrDone \in BOOLEAN /\ pskUsed \in BOOLEAN /\ IsSeq(events) /\ IsSeq(transcript)
  BY Zenon DEF Shape
<1>1. CASE Tunes
  BY <1>1, Zenon DEF Shape, Tunes, Untuned
<1>2. ASSUME NEW u, DiesQuietly(u) \/ DiesFinishing(u)
      PROVE  Shape'
  <2>1. IsSeq(events')
    BY <1>0, <1>2, GrowsIsSeq, Zenon DEF DiesQuietly, DiesFinishing
  <2> QED
    BY <1>0, <1>2, <2>1, Zenon DEF DiesQuietly, DiesFinishing, Dies, Shape, States
<1>3. ASSUME NEW u, Reports(u)
      PROVE  Shape'
  <2>1. IsSeq(events')
    BY <1>0, <1>3, GrowsIsSeq, Zenon DEF Reports
  <2> QED
    BY <1>0, <1>3, <2>1, Zenon DEF Reports, Shape, States, Finishing
<1>4. ASSUME NEW u, NEW hello, DiesStarting(u, hello)
      PROVE  Shape'
  <2>1. IsSeq(events')
    BY <1>0, <1>4, GrowsIsSeq, Zenon DEF DiesStarting
  <2> QED
    BY <1>0, <1>4, <2>1, Zenon DEF DiesStarting, Dies, Shape, States
<1>5. ASSUME NEW u, NEW hello, Starts(u, hello)
      PROVE  Shape'
  <2>1. IsSeq(events')
    BY <1>0, <1>5, GrowsIsSeq, Zenon DEF Starts
  <2>2. IsSeq(transcript')
    BY <1>5, TupleFacts, Zenon DEF Starts
  <2> QED
    BY <1>0, <1>5, <2>1, <2>2, Zenon DEF Starts, Shape, States
<1>6. ASSUME NEW u, NEW m, Greets(u, m)
      PROVE  Shape'
  <2>1. IsSeq(events')
    BY <1>0, <1>6, GrowsIsSeq, Zenon DEF Greets
  <2> QED
    BY <1>0, <1>6, <2>1, Zenon DEF Greets, Hashes, Shape, States
<1>7. ASSUME NEW u, NEW m, Settles(u, m)
      PROVE  Shape'
  <2>1. IsSeq(events')
    BY <1>0, <1>7, GrowsIsSeq, Zenon DEF Settles
  <2> QED
    BY <1>0, <1>7, <2>1, Zenon DEF Settles, AfterExtensions, Hashes, Shape, States
<1>8. ASSUME NEW u, NEW m, Finishes(u, m)
      PROVE  Shape'
  <2>1. IsSeq(events')
    BY <1>0, <1>8, GrowsIsSeq, Zenon DEF Finishes
  <2> QED
    BY <1>0, <1>8, <2>1, Zenon DEF Finishes, Hashes, Shape, States
<1>9. ASSUME NEW u, NEW m, NEW hello, Retries(u, m, hello)
      PROVE  Shape'
  <2>1. IsSeq(events')
    BY <1>0, <1>9, GrowsIsSeq, Zenon DEF Retries
  <2>2. IsSeq(transcript')
    <3> DEFINE hash == MessageHash(transcript)
    <3>1. transcript' = <<hash, m, hello>>
      BY <1>9, Zenon DEF Retries
    <3> HIDE DEF hash
    <3> QED
      BY <3>1, TupleFacts, Zenon
  <2> QED
    BY <1>0, <1>9, <2>1, <2>2, Zenon DEF Retries, Shape, States
<1>10. ASSUME NEW m, Proceeds(m)
       PROVE  Shape'
  BY <1>0, <1>10, Zenon DEF Proceeds, Hashes, Shape, States
<1> QED
  BY <1>1, <1>2, <1>3, <1>4, <1>5, <1>6, <1>7, <1>8, <1>9, <1>10, Zenon DEF Ends

\* Always in shape, so every call ends in one of the ways.
THEOREM AlwaysInShape == Spec => []Shape
<1>1. Shape /\ [Next]_vars => Shape'
  <2>1. ASSUME Shape, Next PROVE Shape'
    BY <2>1, NextEnds, ShapeStep, Zenon
  <2>2. ASSUME Shape, UNCHANGED vars PROVE Shape'
    BY <2>2, Zenon DEF vars, Shape
  <2> QED
    BY <2>1, <2>2, Zenon
<1> QED
  BY <1>1, ShapeInit, PTL DEF Spec

-----------------------------------------------------------------------------
(* DoneIsAuthenticated. *)

\* A proof stays one when the transcript goes on, and a message that verifies
\* becomes one.
LEMMA ProvedGrows ==
    ASSUME IsSeq(transcript), NEW m, Hashes(m), NEW type
    PROVE  /\ Proved(type) => Proved(type)'
           /\ m.type = type /\ Verifies(m) => Proved(type)'
<1>1. /\ IsSeq(transcript') /\ Len(transcript) + 1 <= Len(transcript')
      /\ \A i \in 1 .. Len(transcript) : transcript'[i] = transcript[i]
      /\ transcript'[Len(transcript) + 1] = m
  BY Zenon DEF Hashes
<1>2. /\ Len(transcript) \in Nat /\ DOMAIN transcript = 1 .. Len(transcript)
      /\ Len(transcript') \in Nat /\ DOMAIN transcript' = 1 .. Len(transcript')
  BY <1>1, SeqFacts, Zenon DEF IsSeq
<1>3. ASSUME NEW k \in 0 .. Len(transcript)
      PROVE  SubSeq(transcript', 1, k) = SubSeq(transcript, 1, k)
  <2>1. k <= Len(transcript') /\ \A i \in 1 .. k : transcript'[i] = transcript[i]
    BY <1>1, <1>2
  <2> QED
    BY <1>1, <2>1, PrefixKept, Zenon
<1>4. ASSUME Proved(type) PROVE Proved(type)'
  <2>1. PICK i \in DOMAIN transcript :
          /\ transcript[i].type = type
          /\ transcript[i].mac = Mac("server", SubSeq(transcript, 1, i - 1))
    BY <1>4, Zenon DEF Proved
  <2>2. i \in DOMAIN transcript' /\ i - 1 \in 0 .. Len(transcript) /\ transcript'[i] = transcript[i]
    BY <1>1, <1>2
  <2>3. SubSeq(transcript', 1, i - 1) = SubSeq(transcript, 1, i - 1)
    BY <1>3, <2>2, Zenon
  <2> QED
    BY <2>1, <2>2, <2>3, Zenon DEF Proved
<1>5. ASSUME m.type = type, Verifies(m) PROVE Proved(type)'
  <2> DEFINE n == Len(transcript)
  <2>1. SubSeq(transcript, 1, n) = transcript
    <3> DEFINE S == {transcript[i] : i \in DOMAIN transcript}
    <3>1. transcript \in Seq(S)
      BY Zenon DEF IsSeq
    <3> HIDE DEF S
    <3> QED
      BY <3>1
  <2>2. n \in 0 .. n /\ n + 1 \in DOMAIN transcript' /\ (n + 1) - 1 = n
    BY <1>1, <1>2
  <2>3. SubSeq(transcript', 1, (n + 1) - 1) = transcript
    BY <1>3, <2>1, <2>2, Zenon
  <2>4. transcript'[n + 1].type = type
    BY <1>1, <1>5, Zenon
  <2>5. transcript'[n + 1].mac = Mac("server", SubSeq(transcript', 1, (n + 1) - 1))
    BY <1>1, <1>5, <2>3, Zenon DEF Verifies
  <2> HIDE DEF n
  <2> QED
    BY <2>2, <2>4, <2>5, Zenon DEF Proved
<1> QED
  BY <1>4, <1>5, Zenon

\* A list of other events does not hold this one.
LEMMA NotEmitted ==
    ASSUME IsSeq(events), NEW u, Grows(u), NEW e, \A i \in DOMAIN u : u[i] # e
    PROVE  Emitted(events', e) <=> Emitted(events, e)
<1>1. Emitted(events', e) <=> Emitted(events, e) \/ Emitted(u, e)
  BY LogGrows, Zenon DEF Grows
<1>2. ~Emitted(u, e)
  BY Zenon DEF Emitted
<1> QED
  BY <1>1, <1>2, Zenon

\* The events the invariants tell apart.
LEMMA EventsDiffer ==
    /\ \A type : /\ Signal(type).type = type /\ Signal(type).epoch = None /\ Signal(type).msgs = <<>>
    /\ \A epoch : /\ KeysReady(epoch).type = "KeysReady" /\ KeysReady(epoch).epoch = epoch
                  /\ KeysReady(epoch).msgs = <<>>
    /\ \A epoch, msgs : /\ Send(epoch, msgs).type = "Send" /\ Send(epoch, msgs).epoch = epoch
                        /\ Send(epoch, msgs).msgs = msgs
BY Zenon DEF Signal, KeysReady, Send, Event

\* Only handle_server_finished releases application keys, after it has checked
\* the server's Finished.
LEMMA AuthenticatedStep ==
    ASSUME Shape, Authenticated, Ends
    PROVE  Authenticated'
<1>0. state \in States /\ IsSeq(events) /\ IsSeq(transcript)
  BY Zenon DEF Shape
<1> DEFINE keys == KeysReady("Application")
<1>01. keys.type = "KeysReady" /\ keys.epoch = "Application"
  BY EventsDiffer, Zenon
<1> HIDE DEF keys
<1>1. CASE Tunes
  BY <1>1, Zenon DEF Authenticated, Tunes, Untuned, Proved
<1>2. CASE Dies
  BY <1>2, Zenon DEF Dies, Authenticated, Offering, Settling, Finishing
<1>3. ASSUME NEW u, Reports(u)
      PROVE  Authenticated'
  BY <1>3, Zenon DEF Reports, Authenticated, Offering, Settling, Finishing, Proved
<1>4. ASSUME NEW u, NEW hello, Starts(u, hello)
      PROVE  Authenticated'
  <2>1. \A i \in DOMAIN u : u[i].type # "KeysReady"
    BY <1>4, EventsDiffer DEF Starts
  <2>2. Emitted(events', keys) <=> Emitted(events, keys)
    BY <1>0, <1>4, <1>01, <2>1, NotEmitted, Zenon DEF Starts
  <2> QED
    BY <1>4, <2>2, Zenon DEF Starts, Authenticated, Offering, Settling, Finishing, keys
<1>5. ASSUME NEW u, NEW m, Greets(u, m)
      PROVE  Authenticated'
  <2>1. \A i \in DOMAIN u : u[i].epoch = "Handshake"
    BY <1>5, EventsDiffer DEF Greets
  <2>2. Emitted(events', keys) <=> Emitted(events, keys)
    BY <1>0, <1>5, <1>01, <2>1, NotEmitted, Zenon DEF Greets
  <2> QED
    BY <1>5, <2>2, Zenon DEF Greets, Authenticated, Offering, Settling, Finishing, keys
<1>6. ASSUME NEW u, NEW m, Settles(u, m)
      PROVE  Authenticated'
  <2>1. \A i \in DOMAIN u : u[i].type # "KeysReady"
    BY <1>6, EventsDiffer DEF Settles
  <2>2. Emitted(events', keys) <=> Emitted(events, keys)
    BY <1>0, <1>6, <1>01, <2>1, NotEmitted, ZenonT(40) DEF Settles
  <2>3. state' \in Settling /\ (state' = "ExpectServerFinished" => pskUsed) /\ pskUsed' = pskUsed
        /\ state \in Offering
    BY <1>6, Zenon DEF Settles, AfterExtensions, Settling, Offering
  <2> QED
    BY <2>2, <2>3, Zenon DEF Authenticated, Offering, Settling, Finishing, keys
<1>7. ASSUME NEW u, NEW m, NEW hello, Retries(u, m, hello)
      PROVE  Authenticated'
  <2>1. \A i \in DOMAIN u : u[i].type = "Send"
    BY <1>7, EventsDiffer DEF Retries
  <2>2. Emitted(events', keys) <=> Emitted(events, keys)
    BY <1>0, <1>7, <1>01, <2>1, NotEmitted, Zenon DEF Retries
  <2> QED
    BY <1>7, <2>2, Zenon DEF Retries, Authenticated, Offering, Settling, Finishing, keys
<1>8. ASSUME NEW m, Proceeds(m)
      PROVE  Authenticated'
  <2>1. events' = events /\ state \in Settling /\ state' \in Settling /\ state # "ExpectServerFinished"
    BY <1>8, Zenon DEF Proceeds, Settling
  <2>2. state' = "ExpectServerFinished" => m.type = "CertificateVerify" /\ Verifies(m)
    BY <1>8, Zenon DEF Proceeds
  <2>3. Hashes(m)
    BY <1>8, Zenon DEF Proceeds
  <2>4. state' = "ExpectServerFinished" => Proved("CertificateVerify")'
    BY <1>0, <2>2, <2>3, ProvedGrows, Zenon
  <2> QED
    BY <2>1, <2>4, Zenon DEF Authenticated, Offering, Settling, Finishing
<1>9. ASSUME NEW u, NEW m, Finishes(u, m)
      PROVE  Authenticated'
  <2>1. state = "ExpectServerFinished" /\ state' = "Done" /\ pskUsed' = pskUsed /\ Hashes(m)
        /\ m.type = "Finished" /\ Verifies(m)
    BY <1>9, Zenon DEF Finishes
  <2>2. Proved("Finished")' /\ (Proved("CertificateVerify") => Proved("CertificateVerify")')
    BY <1>0, <2>1, ProvedGrows, Zenon
  <2> QED
    BY <2>1, <2>2, Zenon DEF Authenticated, Offering, Settling, Finishing
<1> QED
  BY <1>1, <1>2, <1>3, <1>4, <1>5, <1>6, <1>7, <1>8, <1>9, ZenonT(40)
  DEF Ends, DiesQuietly, DiesFinishing, DiesStarting

\* A client reports Done, and releases application keys, only to a server that
\* has proved its Finished and its certificate or the PSK
\* (handle_certificate_verify, handle_server_finished).
THEOREM DoneIsAlwaysAuthenticated == Spec => []DoneIsAuthenticated
<1>1. Init => Authenticated
  <2> SUFFICES ASSUME Init PROVE Authenticated
    BY Zenon
  <2>1. ~Emitted(<<>>, KeysReady("Application"))
    BY DEF Emitted
  <2> QED
    BY <2>1, Zenon DEF Init, Authenticated, Offering, Settling, Finishing
<1>2. Shape /\ Authenticated /\ [Next]_vars => Authenticated'
  <2>1. ASSUME Shape, Authenticated, Next PROVE Authenticated'
    BY <2>1, NextEnds, AuthenticatedStep, Zenon
  <2>2. ASSUME Authenticated, UNCHANGED vars PROVE Authenticated'
    BY <2>2, Zenon DEF vars, Authenticated, Proved
  <2> QED
    BY <2>1, <2>2, Zenon
<1>3. Shape /\ Authenticated => DoneIsAuthenticated
  BY Zenon DEF Shape, States, Authenticated, DoneIsAuthenticated, Offering, Settling, Finishing
<1> QED
  BY <1>1, <1>2, <1>3, AlwaysInShape, PTL DEF Spec

-----------------------------------------------------------------------------
(* What the client offered, and how the answer settled it. *)

\* Where the sink was told of the offer, and of its outcome.
Offers == EventsAt(events, "ZeroRttKeysReady")

Acceptances == EventsAt(events, "EarlyDataAccepted")

Rejections == EventsAt(events, "EarlyDataRejected")

Verdicts == Acceptances \cup Rejections

\* How far the offer of early data is settled when a state is reached.
EarlyDataSettled ==
    /\ state \in Offering =>
         /\ Verdicts = {} /\ (Offers # {} <=> earlyData = "Offered")
         /\ ~Emitted(events, Signal("EarlyDataAccepted"))
    /\ state \in Settling \cup Finishing =>
         /\ Verdicts = {} <=> Offers = {}
         /\ Emitted(events, Signal("EarlyDataAccepted")) <=> earlyData = "Accepted"
    /\ state \in {"Initial"} \cup Offering \cup Settling =>
         ~Emitted(events, Signal("Done")) /\ ~Carried(events, "EndOfEarlyData")

\* The last hello is the one the handshake state is about.
HelloIsLast ==
    /\ state \notin {"Initial", "Failed"} => \E n \in HelloAt : \A k \in HelloAt : k <= n
    /\ state = "ExpectServerHello" =>
         /\ hrrDone \/ AtMostOne(HelloAt)
         /\ LastHello.shares = <<pendingGroup>>
         /\ LastHello.ticket = resumption
         /\ ~pskUsed
         /\ \A i \in DOMAIN transcript :
              /\ transcript[i].type # "ServerHello"
              /\ transcript[i].type = "HelloRetryRequest" => transcript[i].suite = suite /\ suite # None
    /\ state \in Offering /\ earlyData = "Offered" /\ ~hrrDone =>
         LastHello.early /\ LastHello.ticket = earlyBound

-----------------------------------------------------------------------------
(* The events of a log. *)

\* Where a type occurs in a longer log.
LEMMA EventsGrow ==
    ASSUME NEW log, IsSeq(log), NEW u, IsSeq(u), NEW t
    PROVE  /\ \A i \in EventsAt(log, t) : i \in 1 .. Len(log)
           /\ Lacks(u, t) => EventsAt(log \o u, t) = EventsAt(log, t)
           /\ HasOne(u, t) => \E k \in Nat : /\ k > Len(log)
                                             /\ EventsAt(log \o u, t) = EventsAt(log, t) \cup {k}
<1>01. PICK new : new = log \o u
  BY Zenon
<1>1. /\ Len(log) \in Nat /\ Len(u) \in Nat
      /\ DOMAIN log = 1 .. Len(log) /\ DOMAIN u = 1 .. Len(u)
      /\ DOMAIN new = 1 .. Len(log) + Len(u)
      /\ \A i \in 1 .. Len(log) : new[i] = log[i]
      /\ \A i \in 1 .. Len(u) : new[Len(log) + i] = u[i]
  BY <1>01, ConcatFacts, SMT
<1> DEFINE Old == EventsAt(log, t)
           New == EventsAt(new, t)
<1>2. \A i \in Old : i \in 1 .. Len(log)
  BY <1>1, Zenon DEF EventsAt
<1>3. \A i \in 1 .. Len(log) : i \in New <=> i \in Old
  BY <1>1 DEF EventsAt
<1>4. \A i \in 1 .. Len(u) : Len(log) + i \in New <=> u[i].type = t
  BY <1>1 DEF EventsAt
<1>5. \A i \in New : i \in 1 .. Len(log) \/ \E j \in 1 .. Len(u) : i = Len(log) + j
  <2> SUFFICES ASSUME NEW i \in 1 .. Len(log) + Len(u), i \notin 1 .. Len(log)
               PROVE  \E j \in 1 .. Len(u) : i = Len(log) + j
    BY <1>1, Zenon DEF EventsAt
  <2>1. i - Len(log) \in 1 .. Len(u) /\ i = Len(log) + (i - Len(log))
    BY <1>1
  <2> QED
    BY <2>1, Zenon
<1> HIDE DEF Old, New
<1>6. ASSUME \A i \in DOMAIN u : u[i].type # t
      PROVE  New = Old
  BY <1>1, <1>2, <1>3, <1>4, <1>5, <1>6, ZenonT(40)
<1>7. ASSUME NEW k \in DOMAIN u, \A i \in DOMAIN u : u[i].type = t <=> i = k
      PROVE  New = Old \cup {Len(log) + k}
  <2>1. Len(log) + k \in New
    BY <1>1, <1>4, <1>7, Zenon
  <2>2. ASSUME NEW i \in New
        PROVE  i \in Old \/ i = Len(log) + k
    <3>1. CASE i \in 1 .. Len(log)
      BY <1>3, <3>1, Zenon
    <3>2. CASE i \notin 1 .. Len(log)
      <4>1. PICK j \in 1 .. Len(u) : i = Len(log) + j
        BY <1>5, <3>2, Zenon
      <4>2. u[j].type = t
        BY <1>4, <4>1, Zenon
      <4>3. j = k
        BY <1>1, <1>7, <4>2, SMTT(20)
      <4> QED
        BY <4>1, <4>3, Zenon
    <3> QED
      BY <3>1, <3>2, Zenon
  <2>3. \A i \in Old : i \in New
    BY <1>2, <1>3, Zenon
  <2> QED
    BY <2>1, <2>2, <2>3, Zenon
<1>8. ASSUME NEW k \in DOMAIN u, \A i \in DOMAIN u : u[i].type = t <=> i = k
      PROVE  \E n \in Nat : n > Len(log) /\ New = Old \cup {n}
  <2>1. Len(log) + k \in Nat /\ Len(log) + k > Len(log)
    BY <1>1
  <2> QED
    BY <1>7, <1>8, <2>1, Zenon
<1>9. Lacks(u, t) => New = Old
  BY <1>6, Zenon DEF Lacks
<1>10. HasOne(u, t) => \E n \in Nat : n > Len(log) /\ New = Old \cup {n}
  BY <1>8, Zenon DEF HasOne
<1> QED
  BY <1>01, <1>2, <1>9, <1>10, Zenon DEF Old, New

-----------------------------------------------------------------------------
(* EarlyDataOutcome. *)

\* SettledOnce and EndOfEarlyDataSentWhenDue, with what the states say of them.
EarlyInv == EarlyDataSettled /\ SettledOnce /\ EndOfEarlyDataSentWhenDue

\* SettledOnce without its last clause.
SettledInOrder ==
    /\ AtMostOne(Offers) /\ AtMostOne(Verdicts)
    /\ \A i \in Verdicts : \E j \in Offers : j < i

\* The clauses of SettledOnce.
LEMMA SettledClauses ==
    SettledOnce <=> /\ SettledInOrder
                    /\ Emitted(events, Signal("Done")) /\ Offers # {} => Verdicts # {}
  BY Zenon DEF SettledOnce, SettledInOrder, Offers, Verdicts, Acceptances, Rejections

\* Events of a type that is not among the new ones.
LEMMA NotOccurring ==
    ASSUME IsSeq(events), NEW u, Grows(u), NEW t, Lacks(u, t)
    PROVE  EventsAt(events', t) = EventsAt(events, t)
<1>1. IsSeq(u) /\ events' = events \o u
  BY Zenon DEF Grows
<1> QED
  BY <1>1, EventsGrow, Zenon

\* Events that say nothing of early data.
LEMMA OtherEvents ==
    ASSUME IsSeq(events), NEW u, Grows(u),
           \A i \in DOMAIN u :
             u[i].type \notin {"ZeroRttKeysReady", "EarlyDataAccepted", "EarlyDataRejected"}
    PROVE  /\ Offers' = Offers /\ Verdicts' = Verdicts
           /\ SettledInOrder => SettledInOrder'
           /\ Emitted(events', Signal("EarlyDataAccepted")) <=> Emitted(events, Signal("EarlyDataAccepted"))
<1>1. Offers' = Offers
  BY NotOccurring, Zenon DEF Offers, Lacks
<1>2. Acceptances' = Acceptances
  BY NotOccurring, Zenon DEF Acceptances, Lacks
<1>3. Rejections' = Rejections
  BY NotOccurring, Zenon DEF Rejections, Lacks
<1>4. \A i \in DOMAIN u : u[i] # Signal("EarlyDataAccepted")
  BY EventsDiffer, ZenonT(40)
<1>5. Emitted(events', Signal("EarlyDataAccepted")) <=> Emitted(events, Signal("EarlyDataAccepted"))
  BY <1>4, NotEmitted, Zenon
<1>6. Verdicts' = Verdicts
  BY <1>2, <1>3, Zenon DEF Verdicts
<1>7. SettledInOrder => SettledInOrder'
  BY <1>1, <1>6, Zenon DEF SettledInOrder
<1> QED
  BY <1>1, <1>5, <1>6, <1>7, Zenon

\* Events that carry no message.
LEMMA NothingCarried ==
    ASSUME IsSeq(events), NEW u, Grows(u), NEW t, ~Carried(u, t)
    PROVE  Carried(events', t) <=> Carried(events, t)
BY LogGrows, Zenon DEF Grows

\* Signals carry nothing.
LEMMA SignalsCarryNothing ==
    ASSUME NEW u, \A i \in DOMAIN u : u[i].msgs = <<>>, NEW t
    PROVE  ~Carried(u, t)
<1>1. \A j \in DOMAIN <<>> : FALSE
  OBVIOUS
<1> QED
  BY <1>1, Zenon DEF Carried

\* A call that fails with nothing said of early data, or of the end.
LEMMA EarlyDies ==
    ASSUME IsSeq(events), EarlyInv, Dies, NEW u, Grows(u),
           \A i \in DOMAIN u :
             u[i].type \notin {"ZeroRttKeysReady", "EarlyDataAccepted", "EarlyDataRejected", "Done"},
           ~Emitted(events, Signal("Done")) \/ ~Carried(u, "EndOfEarlyData")
    PROVE  EarlyInv'
<1>1. /\ Offers' = Offers /\ Verdicts' = Verdicts /\ (SettledInOrder => SettledInOrder')
      /\ Emitted(events', Signal("EarlyDataAccepted")) <=> Emitted(events, Signal("EarlyDataAccepted"))
  BY OtherEvents, Zenon
<1>2. Emitted(events', Signal("Done")) <=> Emitted(events, Signal("Done"))
  BY NotEmitted, EventsDiffer
<1>3. EarlyDataSettled'
  BY Zenon DEF Dies, EarlyDataSettled, Offering, Settling, Finishing
<1>4. SettledOnce'
  <2>1. (SettledOnce <=> /\ SettledInOrder
                         /\ Emitted(events, Signal("Done")) /\ Offers # {} => Verdicts # {})'
    BY SettledClauses, PTL
  <2> QED
    BY <1>1, <1>2, <2>1, SettledClauses, Zenon DEF EarlyInv
<1>5. EndOfEarlyDataSentWhenDue'
  <2>1. CASE ~Emitted(events, Signal("Done"))
    BY <1>2, <2>1, Zenon DEF EndOfEarlyDataSentWhenDue
  <2>2. CASE ~Carried(u, "EndOfEarlyData")
    <3>1. Carried(events', "EndOfEarlyData") <=> Carried(events, "EndOfEarlyData")
      BY <2>2, NothingCarried, Zenon
    <3>2. config' = config
      BY Zenon DEF Dies
    <3> QED
      BY <1>1, <1>2, <3>1, <3>2, SentIsCarried, Zenon DEF EarlyInv, EndOfEarlyDataSentWhenDue
  <2> QED
    BY <2>1, <2>2, Zenon
<1> QED
  BY <1>3, <1>4, <1>5, Zenon DEF EarlyInv

\* EncryptedExtensions settle an offer once, as the server says; without an
\* offer nothing is settled.
LEMMA SettlesOnce ==
    ASSUME IsSeq(events), EarlyInv, NEW u, NEW m, Settles(u, m)
    PROVE  /\ SettledInOrder' /\ (Verdicts' = {} <=> Offers' = {})
           /\ Emitted(events', Signal("EarlyDataAccepted")) <=> earlyData' = "Accepted"
<1> DEFINE yes == Signal("EarlyDataAccepted")
           no == Signal("EarlyDataRejected")
           other == Signal("PeerExtension")
<1>0. IsSeq(u) /\ events' = events \o u
  BY Zenon DEF Settles, Grows
<1>1. /\ Verdicts = {} /\ ~Emitted(events, yes) /\ (Offers # {} <=> earlyData = "Offered")
      /\ SettledInOrder
  BY SettledClauses, Zenon DEF Settles, EarlyInv, EarlyDataSettled, Offering
<1>01. Acceptances = {} /\ Rejections = {}
  BY <1>1, Zenon DEF Verdicts
<1>02. AtMostOne(Offers) /\ \A i \in Offers : i \in 1 .. Len(events)
  BY <1>0, <1>1, EventsGrow, Zenon DEF SettledInOrder, Offers
<1>2. /\ yes.type = "EarlyDataAccepted" /\ no.type = "EarlyDataRejected" /\ other.type = "PeerExtension"
  BY EventsDiffer, Zenon
<1> HIDE DEF yes, no, other
<1>3. /\ Lacks(u, "ZeroRttKeysReady") => Offers' = Offers
      /\ Lacks(u, "EarlyDataAccepted") => Acceptances' = {}
      /\ Lacks(u, "EarlyDataRejected") => Rejections' = {}
      /\ HasOne(u, "EarlyDataAccepted") => \E n \in Nat : n > Len(events) /\ Acceptances' = {n}
      /\ HasOne(u, "EarlyDataRejected") => \E n \in Nat : n > Len(events) /\ Rejections' = {n}
  <2>1. /\ Lacks(u, "ZeroRttKeysReady") => Offers' = Offers
        /\ Lacks(u, "EarlyDataAccepted") => Acceptances' = Acceptances
        /\ Lacks(u, "EarlyDataRejected") => Rejections' = Rejections
    BY <1>0, NotOccurring, Zenon DEF Grows, Offers, Acceptances, Rejections
  <2>2. HasOne(u, "EarlyDataAccepted") =>
          \E n \in Nat : n > Len(events) /\ Acceptances' = Acceptances \cup {n}
    BY <1>0, EventsGrow DEF Acceptances
  <2>3. HasOne(u, "EarlyDataRejected") =>
          \E n \in Nat : n > Len(events) /\ Rejections' = Rejections \cup {n}
    BY <1>0, EventsGrow DEF Rejections
  <2> QED
    BY <1>01, <2>1, <2>2, <2>3, Zenon
<1>4. Emitted(events', yes) <=> Emitted(events, yes) \/ Emitted(u, yes)
  BY <1>0, LogGrows, Zenon
<1>5. earlyData' = "Accepted" <=> m.early
  BY Zenon DEF Settles
<1>05. ASSUME Offers' = Offers, Verdicts' = {}
       PROVE  SettledInOrder'
  BY <1>02, <1>05, Zenon DEF SettledInOrder, AtMostOne
<1>06. ASSUME Offers' = Offers, earlyData = "Offered", NEW n \in Nat, n > Len(events), Verdicts' = {n}
       PROVE  SettledInOrder'
  <2>1. PICK j \in Offers : j \in 1 .. Len(events)
    BY <1>1, <1>02, <1>06, Zenon
  <2>2. j < n /\ j \in Offers'
    <3>1. Len(events) \in Nat
      BY SeqFacts, Zenon DEF IsSeq
    <3> QED
      BY <1>06, <2>1, <3>1
  <2>3. AtMostOne(Offers') /\ AtMostOne(Verdicts')
    BY <1>02, <1>06, Zenon DEF AtMostOne
  <2>4. \A i \in Verdicts' : i = n
    BY <1>06, Zenon
  <2> QED
    BY <2>2, <2>3, <2>4, Zenon DEF SettledInOrder
<1>6. CASE earlyData # "Offered"
  <2>1. \A i \in DOMAIN u : u[i] = other
    BY <1>6, Zenon DEF Settles, other
  <2>2. ~m.early
    BY <1>6, Zenon DEF Settles, EarlyAcceptable
  <2>3. Lacks(u, "ZeroRttKeysReady") /\ Lacks(u, "EarlyDataAccepted") /\ Lacks(u, "EarlyDataRejected")
    BY <1>2, <2>1, Zenon DEF Lacks
  <2>4. ~Emitted(u, yes)
    BY <1>2, <2>1, Zenon DEF Emitted
  <2>5. Offers' = Offers /\ Verdicts' = {}
    BY <1>3, <2>3, Zenon DEF Verdicts
  <2> QED
    BY <1>1, <1>4, <1>5, <1>05, <1>6, <2>2, <2>4, <2>5, Zenon DEF yes
<1>7. CASE earlyData = "Offered" /\ m.early
  <2>1. PICK k \in DOMAIN u : u[k] = yes /\ \A i \in DOMAIN u : i # k => u[i] = other
    BY <1>7, Zenon DEF Settles, yes, other
  <2>2. Lacks(u, "ZeroRttKeysReady") /\ Lacks(u, "EarlyDataRejected")
    BY <1>2, <2>1, Zenon DEF Lacks
  <2>3. HasOne(u, "EarlyDataAccepted")
    BY <1>2, <2>1, Zenon DEF HasOne
  <2>4. Emitted(u, yes)
    BY <2>1, Zenon DEF Emitted
  <2>5. PICK n \in Nat : n > Len(events) /\ Acceptances' = {n}
    BY <1>3, <2>3, Zenon
  <2>6. Offers' = Offers /\ Verdicts' = {n}
    BY <1>3, <2>2, <2>5, Zenon DEF Verdicts
  <2> QED
    BY <1>1, <1>4, <1>5, <1>06, <1>7, <2>4, <2>5, <2>6, Zenon DEF yes
<1>8. CASE earlyData = "Offered" /\ ~m.early
  <2>1. PICK k \in DOMAIN u : u[k] = no /\ \A i \in DOMAIN u : i # k => u[i] = other
    BY <1>8, Zenon DEF Settles, no, other
  <2>2. Lacks(u, "ZeroRttKeysReady") /\ Lacks(u, "EarlyDataAccepted")
    BY <1>2, <2>1, Zenon DEF Lacks
  <2>3. HasOne(u, "EarlyDataRejected")
    BY <1>2, <2>1, Zenon DEF HasOne
  <2>4. ~Emitted(u, yes)
    BY <1>2, <2>1, Zenon DEF Emitted
  <2>5. PICK n \in Nat : n > Len(events) /\ Rejections' = {n}
    BY <1>3, <2>3, Zenon
  <2>6. Offers' = Offers /\ Verdicts' = {n}
    BY <1>3, <2>2, <2>5, Zenon DEF Verdicts
  <2> QED
    BY <1>1, <1>4, <1>5, <1>06, <1>8, <2>4, <2>5, <2>6, Zenon DEF yes
<1> QED
  BY <1>6, <1>7, <1>8, Zenon

\* start_into announces an offer once.
LEMMA StartsOffer ==
    ASSUME Shape, NEW u, NEW hello, Starts(u, hello)
    PROVE  /\ Verdicts' = {} /\ (Offers' # {} <=> hello.early) /\ SettledInOrder'
           /\ ~Emitted(events', Signal("EarlyDataAccepted"))
           /\ ~Emitted(events', Signal("Done"))
           /\ ~Carried(events', "EndOfEarlyData")
<1> DEFINE send == Send("Plaintext", <<hello>>)
           ready == Signal("ZeroRttKeysReady")
<1>0. IsSeq(u) /\ events' = events \o u /\ events = <<>> /\ IsSeq(events)
  BY Zenon DEF Starts, Grows, Shape
<1>1. /\ DOMAIN u = IF hello.early THEN 1 .. 2 ELSE 1 .. 1
      /\ u[1] = send
      /\ hello.early => u[2] = ready
      /\ hello.type = "ClientHello"
  BY Zenon DEF Starts
<1>2. send.type = "Send" /\ send.msgs = <<hello>> /\ ready.type = "ZeroRttKeysReady" /\ ready.msgs = <<>>
  BY EventsDiffer, ZenonT(40)
<1> HIDE DEF send, ready
<1>3. Acceptances = {} /\ Rejections = {} /\ Offers = {}
  <2>1. \A t : EventsAt(<<>>, t) = {}
    BY DEF EventsAt
  <2> QED
    BY <1>0, <2>1, Zenon DEF Acceptances, Rejections, Offers
<1>4. \A i \in DOMAIN u : u[i].type \in {"Send", "ZeroRttKeysReady"}
  BY <1>1, <1>2
<1>5. /\ Verdicts' = {}
      /\ HasOne(u, "ZeroRttKeysReady") => \E n \in Nat : Offers' = {n}
      /\ Lacks(u, "ZeroRttKeysReady") => Offers' = {}
  <2>1. Lacks(u, "EarlyDataAccepted") /\ Lacks(u, "EarlyDataRejected")
    BY <1>4, Zenon DEF Lacks
  <2>2. IsSeq(events) /\ IsSeq(u) /\ events' = events \o u
    BY <1>0, Zenon
  <2>3. Acceptances' = Acceptances /\ Rejections' = Rejections
    BY <2>1, <2>2, EventsGrow, ZenonT(40) DEF Acceptances, Rejections
  <2>4. /\ HasOne(u, "ZeroRttKeysReady") => \E n \in Nat : Offers' = Offers \cup {n}
        /\ Lacks(u, "ZeroRttKeysReady") => Offers' = Offers
    BY <2>2, EventsGrow DEF Offers
  <2> QED
    BY <1>3, <2>3, <2>4, Zenon DEF Verdicts
<1>6. ASSUME hello.early PROVE HasOne(u, "ZeroRttKeysReady")
  <2>1. 2 \in DOMAIN u /\ \A i \in DOMAIN u : i = 1 \/ i = 2
    BY <1>1, <1>6
  <2>2. u[1].type # "ZeroRttKeysReady" /\ u[2].type = "ZeroRttKeysReady"
    BY <1>1, <1>2, <1>6, Zenon
  <2> QED
    BY <2>1, <2>2, Zenon DEF HasOne
<1>7. ~hello.early => Lacks(u, "ZeroRttKeysReady")
  BY <1>1, <1>2 DEF Lacks
<1>8. ASSUME NEW e, e.type \notin {"Send", "ZeroRttKeysReady"}
      PROVE  ~Emitted(events', e)
  <2>1. \A i \in DOMAIN u : u[i] # e
    BY <1>4, <1>8, Zenon
  <2>2. Emitted(events', e) <=> Emitted(events, e)
    BY <1>0, <2>1, NotEmitted, Zenon DEF Grows
  <2>3. ~Emitted(<<>>, e)
    BY DEF Emitted
  <2> QED
    BY <1>0, <2>2, <2>3, Zenon
<1>9. ~Emitted(events', Signal("EarlyDataAccepted")) /\ ~Emitted(events', Signal("Done"))
  BY <1>8, EventsDiffer, ZenonT(40)
<1>10. ~Carried(events', "EndOfEarlyData")
  <2>1. ~Carried(<<>>, "EndOfEarlyData")
    BY DEF Carried
  <2>2. \A i \in DOMAIN u : \A j \in DOMAIN u[i].msgs : u[i].msgs[j].type # "EndOfEarlyData"
    BY <1>1, <1>2
  <2>3. ~Carried(u, "EndOfEarlyData")
    BY <2>2, Zenon DEF Carried
  <2> QED
    BY <1>0, <2>1, <2>3, NothingCarried, Zenon DEF Grows
<1>11. AtMostOne(Offers') /\ (Offers' # {} <=> hello.early)
  <2>1. CASE hello.early
    <3>1. PICK n \in Nat : Offers' = {n}
      BY <1>5, <1>6, <2>1, Zenon
    <3> QED
      BY <2>1, <3>1, Zenon DEF AtMostOne
  <2>2. CASE ~hello.early
    BY <1>5, <1>7, <2>2, Zenon DEF AtMostOne
  <2> QED
    BY <2>1, <2>2, Zenon
<1>12. SettledInOrder'
  BY <1>5, <1>11, Zenon DEF SettledInOrder, AtMostOne
<1> QED
  BY <1>5, <1>9, <1>10, <1>11, <1>12, Zenon

\* No call says of early data what the invariant forbids.
LEMMA EarlyStep ==
    ASSUME Shape, EarlyInv, Ends
    PROVE  EarlyInv'
<1> DEFINE yes == Signal("EarlyDataAccepted")
           done == Signal("Done")
<1>0. state \in States /\ IsSeq(events)
  BY Zenon DEF Shape
<1>01. EarlyDataSettled /\ SettledOnce /\ EndOfEarlyDataSentWhenDue
  BY Zenon DEF EarlyInv
<1>02. /\ SettledInOrder
       /\ (SettledOnce <=> /\ SettledInOrder
                           /\ Emitted(events, Signal("Done")) /\ Offers # {} => Verdicts # {})'
  <2>1. (SettledOnce <=> /\ SettledInOrder
                         /\ Emitted(events, Signal("Done")) /\ Offers # {} => Verdicts # {})'
    BY SettledClauses, PTL
  <2> QED
    BY <1>01, <2>1, SettledClauses, Zenon
<1>03. yes.type = "EarlyDataAccepted" /\ done.type = "Done"
  BY EventsDiffer, Zenon
<1>04. ASSUME EarlyDataSettled', ~Emitted(events', done), SettledInOrder'
       PROVE  EarlyInv'
  <2>1. EndOfEarlyDataSentWhenDue'
    BY <1>04, Zenon DEF EndOfEarlyDataSentWhenDue
  <2> QED
    BY <1>02, <1>04, <2>1, Zenon DEF EarlyInv
<1> HIDE DEF yes, done
<1>1. CASE Tunes
  <2>1. state = "Initial" /\ state' = state /\ earlyData' = earlyData /\ events' = events
    BY <1>1, Zenon DEF Tunes, Untuned
  <2>2. ~Emitted(events, Signal("Done"))
    BY <1>01, <2>1, Zenon DEF EarlyDataSettled
  <2>3. EarlyDataSettled'
    BY <2>1, <1>01, Zenon DEF EarlyDataSettled, Offering, Settling, Finishing
  <2>4. SettledInOrder'
    BY <1>02, <2>1, Zenon DEF SettledInOrder, Offers, Verdicts, Acceptances, Rejections
  <2> QED
    BY <1>04, <2>1, <2>2, <2>3, <2>4, Zenon DEF done
<1>2. ASSUME NEW u, DiesQuietly(u)
      PROVE  EarlyInv'
  <2>1. \A i \in DOMAIN u : u[i].type = "PeerExtension" /\ u[i].msgs = <<>>
    BY <1>2, EventsDiffer, Zenon DEF DiesQuietly
  <2>2. ~Carried(u, "EndOfEarlyData")
    BY <2>1, SignalsCarryNothing, Zenon
  <2> QED
    BY <1>0, <1>2, <2>1, <2>2, EarlyDies, Zenon DEF DiesQuietly
<1>3. ASSUME NEW u, NEW hello, DiesStarting(u, hello)
      PROVE  EarlyInv'
  <2>1. \A i \in DOMAIN u : u[i].type = "Send"
    BY <1>3, EventsDiffer DEF DiesStarting
  <2>2. ~Emitted(events, Signal("Done"))
    BY <1>01, <1>3, Zenon DEF DiesStarting, EarlyDataSettled
  <2> QED
    BY <1>0, <1>3, <2>1, <2>2, EarlyDies, Zenon DEF DiesStarting
<1>4. ASSUME NEW u, DiesFinishing(u)
      PROVE  EarlyInv'
  <2>1. \A i \in DOMAIN u : u[i].type \in {"KeysReady", "Send"}
    BY <1>4, EventsDiffer DEF DiesFinishing
  <2>2. ~Emitted(events, Signal("Done"))
    BY <1>01, <1>4, Zenon DEF DiesFinishing, EarlyDataSettled, Settling
  <2> QED
    BY <1>0, <1>4, <2>1, <2>2, EarlyDies, Zenon DEF DiesFinishing
<1>5. ASSUME NEW u, Reports(u)
      PROVE  EarlyInv'
  <2>1. \A i \in DOMAIN u : u[i].type \in {"NewSessionTicket", "KeyUpdate"} /\ u[i].msgs = <<>>
    BY <1>5, EventsDiffer DEF Reports
  <2>2. Grows(u) /\ config' = config /\ earlyData' = earlyData /\ state \in Finishing /\ state' \in Finishing
    BY <1>5, Zenon DEF Reports
  <2>3. Carried(events', "EndOfEarlyData") <=> Carried(events, "EndOfEarlyData")
    BY <1>0, <2>1, <2>2, SignalsCarryNothing, NothingCarried, Zenon
  <2>4. /\ Offers' = Offers /\ Verdicts' = Verdicts /\ SettledInOrder'
        /\ Emitted(events', yes) <=> Emitted(events, yes)
    BY <1>0, <1>02, <2>1, <2>2, OtherEvents, Zenon DEF yes
  <2>5. Emitted(events', done) <=> Emitted(events, done)
    BY <1>0, <1>03, <2>1, <2>2, NotEmitted, Zenon
  <2>6. EarlyDataSettled'
    BY <1>01, <2>2, <2>4, Zenon DEF EarlyDataSettled, Offering, Settling, Finishing, yes
  <2>7. SettledOnce'
    BY <1>01, <1>02, <2>4, <2>5, SettledClauses, Zenon DEF done
  <2>8. EndOfEarlyDataSentWhenDue'
    BY <1>01, <2>2, <2>3, <2>4, <2>5, SentIsCarried, Zenon DEF EndOfEarlyDataSentWhenDue, yes, done
  <2> QED
    BY <2>6, <2>7, <2>8, Zenon DEF EarlyInv
<1>6. ASSUME NEW u, NEW hello, Starts(u, hello)
      PROVE  EarlyInv'
  <2>1. /\ Verdicts' = {} /\ (Offers' # {} <=> hello.early) /\ SettledInOrder'
        /\ ~Emitted(events', yes) /\ ~Emitted(events', done) /\ ~Carried(events', "EndOfEarlyData")
    BY <1>6, StartsOffer, Zenon DEF yes, done
  <2>2. state' = "ExpectServerHello" /\ earlyData' = IF hello.early THEN "Offered" ELSE "NotOffered"
    BY <1>6, Zenon DEF Starts
  <2>3. Offers' # {} <=> earlyData' = "Offered"
    BY <2>1, <2>2, Zenon
  <2>4. EarlyDataSettled'
    BY <2>1, <2>2, <2>3, Zenon DEF EarlyDataSettled, Offering, Settling, Finishing, yes, done
  <2> QED
    BY <1>04, <2>1, <2>4, Zenon
<1>7. ASSUME NEW u, Grows(u), state \in Offering, state' \in Offering, earlyData' = earlyData,
             \A i \in DOMAIN u : u[i].type \in {"KeysReady", "Send"}, ~Carried(u, "EndOfEarlyData")
      PROVE  EarlyInv'
  <2>1. /\ Offers' = Offers /\ Verdicts' = Verdicts /\ SettledInOrder'
        /\ Emitted(events', yes) <=> Emitted(events, yes)
    BY <1>0, <1>02, <1>7, OtherEvents, Zenon DEF yes
  <2>2. Emitted(events', done) <=> Emitted(events, done)
    BY <1>0, <1>03, <1>7, NotEmitted, Zenon
  <2>3. Carried(events', "EndOfEarlyData") <=> Carried(events, "EndOfEarlyData")
    BY <1>0, <1>7, NothingCarried, Zenon
  <2>4. EarlyDataSettled' /\ ~Emitted(events, done)
    BY <1>01, <1>7, <2>1, <2>2, <2>3, Zenon
    DEF EarlyDataSettled, Offering, Settling, Finishing, yes, done
  <2> QED
    BY <1>04, <2>1, <2>2, <2>4, Zenon
<1>8. ASSUME NEW u, NEW m, Greets(u, m)
      PROVE  EarlyInv'
  <2>1. \A i \in DOMAIN u : u[i].type = "KeysReady" /\ u[i].msgs = <<>>
    BY <1>8, EventsDiffer DEF Greets
  <2>2. ~Carried(u, "EndOfEarlyData")
    BY <2>1, SignalsCarryNothing, Zenon
  <2> QED
    BY <1>7, <1>8, <2>1, <2>2, Zenon DEF Greets, Offering
<1>9. ASSUME NEW u, NEW m, NEW hello, Retries(u, m, hello)
      PROVE  EarlyInv'
  <2>1. \A i \in DOMAIN u : u[i].type = "Send" /\ u[i].msgs = <<hello>>
    BY <1>9, EventsDiffer DEF Retries
  <2>2. hello.type = "ClientHello"
    BY <1>9, Zenon DEF Retries
  <2>3. \A j \in DOMAIN <<hello>> : <<hello>>[j].type # "EndOfEarlyData"
    BY <2>2
  <2>4. ~Carried(u, "EndOfEarlyData")
    BY <2>1, <2>3, Zenon DEF Carried
  <2> QED
    BY <1>7, <1>9, <2>1, <2>4, Zenon DEF Retries, Offering
<1>10. ASSUME NEW u, NEW m, Settles(u, m)
       PROVE  EarlyInv'
  <2>1. /\ SettledInOrder' /\ (Verdicts' = {} <=> Offers' = {})
        /\ Emitted(events', yes) <=> earlyData' = "Accepted"
    BY <1>0, <1>10, SettlesOnce, Zenon DEF yes
  <2>2. state \in Offering /\ state' \in Settling /\ Grows(u)
    BY <1>10, Zenon DEF Settles, AfterExtensions, Offering, Settling
  <2>3. \A i \in DOMAIN u : u[i].type # "Done" /\ u[i].msgs = <<>>
    BY <1>10, EventsDiffer DEF Settles
  <2>4. Emitted(events', done) <=> Emitted(events, done)
    BY <1>0, <1>03, <2>2, <2>3, NotEmitted, Zenon
  <2>5. Carried(events', "EndOfEarlyData") <=> Carried(events, "EndOfEarlyData")
    BY <1>0, <2>2, <2>3, SignalsCarryNothing, NothingCarried, Zenon
  <2>6. ~Emitted(events, done) /\ ~Carried(events, "EndOfEarlyData")
    BY <1>01, <2>2, Zenon DEF EarlyDataSettled, done
  <2>7. EarlyDataSettled'
    BY <2>1, <2>2, <2>4, <2>5, <2>6, Zenon
    DEF EarlyDataSettled, Offering, Settling, Finishing, yes, done
  <2> QED
    BY <1>04, <2>1, <2>4, <2>6, <2>7, Zenon
<1>11. ASSUME NEW m, Proceeds(m)
       PROVE  EarlyInv'
  <2>1. /\ state \in Settling /\ state' \in Settling /\ events' = events /\ earlyData' = earlyData
        /\ config' = config
    BY <1>11, Zenon DEF Proceeds, Settling
  <2>2. Offers' = Offers /\ Verdicts' = Verdicts
    BY <2>1, Zenon DEF Offers, Verdicts, Acceptances, Rejections
  <2>3. EarlyDataSettled' /\ ~Emitted(events', done)
    BY <1>01, <2>1, <2>2, Zenon DEF EarlyDataSettled, Offering, Settling, Finishing, done
  <2>4. SettledInOrder'
    BY <1>02, <2>2, Zenon DEF SettledInOrder
  <2> QED
    BY <1>04, <2>3, <2>4, Zenon
<1>12. ASSUME NEW u, NEW m, Finishes(u, m)
       PROVE  EarlyInv'
  <2>1. /\ state \in Settling /\ state' = "Done" /\ Grows(u) /\ earlyData' = earlyData /\ config' = config
        /\ Carried(u, "EndOfEarlyData") <=> EndsEarlyData
    BY <1>12, Zenon DEF Finishes, Settling
  <2>2. \A i \in DOMAIN u : u[i].type \in {"KeysReady", "Send", "Done"}
    BY <1>12, EventsDiffer DEF Finishes
  <2>3. /\ Offers' = Offers /\ Verdicts' = Verdicts /\ SettledInOrder'
        /\ Emitted(events', yes) <=> Emitted(events, yes)
    BY <1>0, <1>02, <2>1, <2>2, OtherEvents, Zenon DEF yes
  <2>4. /\ Verdicts = {} <=> Offers = {}
        /\ Emitted(events, yes) <=> earlyData = "Accepted"
        /\ ~Carried(events, "EndOfEarlyData")
    BY <1>01, <2>1, Zenon DEF EarlyDataSettled, yes
  <2>5. Carried(events', "EndOfEarlyData") <=> EndsEarlyData
    BY <1>0, <2>1, <2>4, LogGrows, Zenon DEF Grows
  <2>6. EarlyDataSettled'
    BY <2>1, <2>3, <2>4, Zenon DEF EarlyDataSettled, Offering, Settling, Finishing, yes
  <2>7. SettledOnce'
    BY <1>02, <2>3, <2>4, Zenon
  <2>8. EndOfEarlyDataSentWhenDue'
    BY <2>1, <2>3, <2>4, <2>5, SentIsCarried, Zenon
    DEF EndOfEarlyDataSentWhenDue, EndsEarlyData, UsesEndOfEarlyData, yes
  <2> QED
    BY <2>6, <2>7, <2>8, Zenon DEF EarlyInv
<1> QED
  BY <1>1, <1>2, <1>3, <1>4, <1>5, <1>6, <1>8, <1>9, <1>10, <1>11, <1>12, ZenonT(40) DEF Ends

-----------------------------------------------------------------------------
(* AnswerFitsLastHello and AcceptedOnTicketTerms. *)

\* The largest number of a set.
LEMMA LargestChosen ==
    ASSUME NEW S, S \subseteq Nat, NEW n \in S, \A j \in S : j <= n
    PROVE  (CHOOSE i \in S : \A j \in S : j <= i) = n
<1> DEFINE c == CHOOSE i \in S : \A j \in S : j <= i
<1>1. c \in S /\ \A j \in S : j <= c
  BY Zenon
<1> HIDE DEF c
<1>2. c <= n /\ n <= c /\ c \in Nat /\ n \in Nat
  BY <1>1, Zenon
<1>3. c = n
  BY <1>2
<1> QED
  BY <1>3, Zenon DEF c

\* A ClientHello is what the client sends in the clear.
IsHello(e) == e.type = "Send" /\ e.epoch = "Plaintext"

\* The hellos lie in the log.
LEMMA HelloFacts ==
    ASSUME IsSeq(events)
    PROVE  /\ Len(events) \in Nat /\ DOMAIN events = 1 .. Len(events)
           /\ HelloAt \subseteq 1 .. Len(events)
<1>1. Len(events) \in Nat /\ DOMAIN events = 1 .. Len(events)
  BY SeqFacts, Zenon DEF IsSeq
<1>2. HelloAt \subseteq 1 .. Len(events)
  BY <1>1, Zenon DEF HelloAt
<1> QED
  BY <1>1, <1>2, Zenon

\* The last hello stays the last when none is sent.
LEMMA HelloKept ==
    ASSUME IsSeq(events), NEW u, Grows(u), \A i \in DOMAIN u : ~IsHello(u[i])
    PROVE  /\ HelloAt' = HelloAt
           /\ (\E n \in HelloAt : \A k \in HelloAt : k <= n) => LastHello' = LastHello
<1>0. IsSeq(u) /\ events' = events \o u
  BY Zenon DEF Grows
<1>1. /\ Len(events) \in Nat /\ Len(u) \in Nat
      /\ DOMAIN events = 1 .. Len(events) /\ DOMAIN u = 1 .. Len(u)
      /\ DOMAIN events' = 1 .. Len(events) + Len(u)
      /\ \A i \in 1 .. Len(events) : events'[i] = events[i]
      /\ \A i \in 1 .. Len(u) : events'[Len(events) + i] = u[i]
  BY <1>0, ConcatFacts, SMT
<1>2. HelloAt' = HelloAt
  <2>1. ASSUME NEW i \in HelloAt PROVE i \in HelloAt'
    BY <1>1 DEF HelloAt
  <2>2. ASSUME NEW i \in HelloAt' PROVE i \in HelloAt
    <3>1. i \in 1 .. Len(events) + Len(u) /\ IsHello(events'[i])
      BY <1>1, Zenon DEF HelloAt, IsHello
    <3>2. CASE i <= Len(events)
      BY <1>1, <3>1, <3>2 DEF HelloAt, IsHello
    <3>3. CASE ~(i <= Len(events))
      <4>1. i - Len(events) \in 1 .. Len(u) /\ Len(events) + (i - Len(events)) = i
        BY <1>1, <3>1, <3>3
      <4>2. events'[i] = u[i - Len(events)]
        BY <1>1, <4>1, Zenon
      <4> QED
        BY <1>1, <3>1, <4>1, <4>2, Zenon
    <3> QED
      BY <3>2, <3>3, Zenon
  <2> QED
    BY <2>1, <2>2, Zenon
<1>3. ASSUME NEW n \in HelloAt, \A k \in HelloAt : k <= n
      PROVE  LastHello' = LastHello
  <2>1. HelloAt \subseteq Nat
    BY HelloFacts
  <2>2. (CHOOSE i \in HelloAt : \A j \in HelloAt : j <= i) = n
    BY <1>3, <2>1, LargestChosen, Zenon
  <2>3. LastHello = events[n].msgs[1]
    BY <2>2, Zenon DEF LastHello
  <2>4. LastHello' = events'[n].msgs[1]
    BY <1>2, <2>2, ZenonT(40) DEF LastHello
  <2>5. events'[n] = events[n]
    BY <1>1, Zenon DEF HelloAt
  <2> QED
    BY <2>3, <2>4, <2>5, Zenon
<1> QED
  BY <1>2, <1>3, Zenon

\* A new hello is the last.
LEMMA HelloNew ==
    ASSUME IsSeq(events), NEW u, Grows(u), NEW hello,
           1 \in DOMAIN u, u[1] = Send("Plaintext", <<hello>>),
           \A i \in DOMAIN u : i # 1 => ~IsHello(u[i])
    PROVE  /\ HelloAt = {} => AtMostOne(HelloAt')
           /\ AtMostOne(HelloAt) => AtMostTwo(HelloAt')
           /\ \E n \in HelloAt' : \A k \in HelloAt' : k <= n
           /\ LastHello' = hello
<1>0. IsSeq(u) /\ events' = events \o u
  BY Zenon DEF Grows
<1>1. /\ Len(events) \in Nat /\ Len(u) \in Nat
      /\ DOMAIN events = 1 .. Len(events) /\ DOMAIN u = 1 .. Len(u)
      /\ DOMAIN events' = 1 .. Len(events) + Len(u)
      /\ \A i \in 1 .. Len(events) : events'[i] = events[i]
      /\ \A i \in 1 .. Len(u) : events'[Len(events) + i] = u[i]
  BY <1>0, ConcatFacts, SMT
<1> DEFINE last == Len(events) + 1
<1>2. IsHello(u[1]) /\ u[1].msgs[1] = hello
  BY EventsDiffer DEF IsHello
<1>3. last \in DOMAIN events' /\ events'[last] = u[1]
  BY <1>1
<1>4. HelloAt' = HelloAt \cup {last} /\ last \notin HelloAt
  <2>1. ASSUME NEW i \in HelloAt PROVE i \in HelloAt' /\ i # last
    BY <1>1 DEF HelloAt
  <2>2. last \in HelloAt'
    BY <1>2, <1>3, Zenon DEF HelloAt, IsHello
  <2>3. ASSUME NEW i \in HelloAt' PROVE i \in HelloAt \/ i = last
    <3>1. i \in 1 .. Len(events) + Len(u) /\ IsHello(events'[i])
      BY <1>1, Zenon DEF HelloAt, IsHello
    <3>2. CASE i <= Len(events)
      BY <1>1, <3>1, <3>2 DEF HelloAt, IsHello
    <3>3. CASE ~(i <= Len(events))
      <4>1. i - Len(events) \in 1 .. Len(u) /\ Len(events) + (i - Len(events)) = i
        BY <1>1, <3>1, <3>3
      <4>2. events'[i] = u[i - Len(events)]
        BY <1>1, <4>1, Zenon
      <4>3. i - Len(events) = 1
        BY <1>1, <3>1, <4>1, <4>2, Zenon
      <4> QED
        BY <4>1, <4>3, Zenon
    <3> QED
      BY <3>2, <3>3, Zenon
  <2> QED
    BY <2>1, <2>2, <2>3, Zenon
<1>5. HelloAt \subseteq 1 .. Len(events)
  BY HelloFacts, Zenon
<1>6. HelloAt' \subseteq Nat /\ \A k \in HelloAt' : k <= last
  <2>1. \A k \in HelloAt : k \in Nat /\ k <= last
    BY <1>1, <1>5
  <2>2. last \in Nat /\ last <= last
    BY <1>1
  <2> HIDE DEF last
  <2> QED
    BY <1>4, <2>1, <2>2, Zenon
<1>7. (HelloAt = {} => AtMostOne(HelloAt')) /\ (AtMostOne(HelloAt) => AtMostTwo(HelloAt'))
  <2> HIDE DEF last
  <2>1. \A i \in HelloAt' : i \in HelloAt \/ i = last
    BY <1>4, Zenon
  <2> QED
    BY <2>1, Zenon DEF AtMostOne, AtMostTwo
<1>8. (CHOOSE i \in HelloAt' : \A j \in HelloAt' : j <= i) = last
  <2> HIDE DEF last
  <2>1. last \in HelloAt'
    BY <1>4, Zenon
  <2> QED
    BY <1>6, <2>1, LargestChosen, Zenon
<1>9. LastHello' = events'[last].msgs[1]
  BY <1>8, ZenonT(40) DEF LastHello
<1> QED
  BY <1>2, <1>3, <1>4, <1>6, <1>7, <1>9, Zenon

\* Both properties of the last hello, with what the states say of it.
HelloInv == HelloIsLast /\ AnswerFitsLastHello /\ AcceptedOnTicketTerms

\* The server's choices as they lie in the transcript.
ChoicesFit ==
    \A i, j \in DOMAIN transcript :
        transcript[i].type = "HelloRetryRequest" /\ transcript[j].type = "ServerHello" =>
            /\ transcript[j].suite = transcript[i].suite
            /\ <<transcript[j].group>> = LastHello.shares

\* Messages other than the two hellos of a server change none of its choices.
LEMMA ChoicesKept ==
    ASSUME IsSeq(transcript), NEW m, Hashes(m), m.type \notin {"ServerHello", "HelloRetryRequest"},
           LastHello' = LastHello, ChoicesFit
    PROVE  ChoicesFit'
<1>1. /\ IsSeq(transcript')
      /\ \A i \in 1 .. Len(transcript) : transcript'[i] = transcript[i]
      /\ transcript'[Len(transcript) + 1] = m
      /\ \A i \in (Len(transcript) + 2) .. Len(transcript') :
           transcript'[i].type \notin {"ServerHello", "HelloRetryRequest"}
  BY Zenon DEF Hashes
<1>2. /\ Len(transcript) \in Nat /\ DOMAIN transcript = 1 .. Len(transcript)
      /\ Len(transcript') \in Nat /\ DOMAIN transcript' = 1 .. Len(transcript')
  BY <1>1, SeqFacts, Zenon DEF IsSeq
<1>3. ASSUME NEW i \in DOMAIN transcript', transcript'[i].type \in {"ServerHello", "HelloRetryRequest"}
      PROVE  i \in DOMAIN transcript /\ transcript'[i] = transcript[i]
  <2>1. PICK n \in Nat, k \in Nat : n = Len(transcript) /\ k = Len(transcript')
    BY <1>2, Zenon
  <2>2. i \in 1 .. k /\ i # n + 1 /\ i \notin (n + 2) .. k
    BY <1>1, <1>2, <1>3, <2>1, Zenon
  <2>3. i \in 1 .. n
    BY <2>2
  <2> QED
    BY <1>1, <1>2, <2>1, <2>3, Zenon
<1> QED
  BY <1>3 DEF ChoicesFit

\* A ServerHello keeps to the suite of the retry request and to the last share.
LEMMA ChoicesGreeted ==
    ASSUME IsSeq(transcript), HelloIsLast, NEW u, NEW m, Greets(u, m), LastHello' = LastHello
    PROVE  ChoicesFit'
<1>1. /\ state = "ExpectServerHello" /\ m.type = "ServerHello" /\ SuiteAcceptable(m) /\ m.group = pendingGroup
      /\ Hashes(m)
  BY Zenon DEF Greets
<1>2. /\ IsSeq(transcript')
      /\ \A i \in 1 .. Len(transcript) : transcript'[i] = transcript[i]
      /\ transcript'[Len(transcript) + 1] = m
      /\ \A i \in (Len(transcript) + 2) .. Len(transcript') :
           transcript'[i].type \notin {"ServerHello", "HelloRetryRequest"}
  BY <1>1, Zenon DEF Hashes
<1>3. /\ Len(transcript) \in Nat /\ DOMAIN transcript = 1 .. Len(transcript)
      /\ Len(transcript') \in Nat /\ DOMAIN transcript' = 1 .. Len(transcript')
  BY <1>2, SeqFacts, Zenon DEF IsSeq
<1>4. /\ LastHello.shares = <<pendingGroup>>
      /\ \A i \in DOMAIN transcript :
           /\ transcript[i].type # "ServerHello"
           /\ transcript[i].type = "HelloRetryRequest" => transcript[i].suite = suite /\ suite # None
  BY <1>1, Zenon DEF HelloIsLast
<1>5. ASSUME NEW i \in DOMAIN transcript', transcript'[i].type \in {"ServerHello", "HelloRetryRequest"}
      PROVE  transcript'[i] = m \/ (i \in DOMAIN transcript /\ transcript'[i] = transcript[i])
  <2>1. PICK n \in Nat, k \in Nat : n = Len(transcript) /\ k = Len(transcript')
    BY <1>3, Zenon
  <2>2. i \in 1 .. k /\ i \notin (n + 2) .. k
    BY <1>2, <1>3, <1>5, <2>1, Zenon
  <2>3. i \in 1 .. n \/ i = n + 1
    BY <2>2
  <2> QED
    BY <1>2, <1>3, <2>1, <2>3, Zenon
<1>6. ASSUME NEW i \in DOMAIN transcript', transcript'[i].type = "ServerHello"
      PROVE  transcript'[i] = m
  BY <1>4, <1>5, <1>6, Zenon
<1>7. ASSUME NEW i \in DOMAIN transcript', transcript'[i].type = "HelloRetryRequest"
      PROVE  transcript'[i].suite = m.suite
  <2>1. i \in DOMAIN transcript /\ transcript'[i] = transcript[i]
    BY <1>1, <1>5, <1>7, Zenon
  <2>2. transcript'[i].suite = suite /\ suite # None
    BY <1>4, <1>7, <2>1, Zenon
  <2> QED
    BY <1>1, <2>2, Zenon DEF SuiteAcceptable
<1>8. <<m.group>> = LastHello'.shares
  BY <1>1, <1>4, Zenon
<1> QED
  BY <1>6, <1>7, <1>8, Zenon DEF ChoicesFit

\* A call that sends no hello and changes none of the server's choices.
LEMMA HelloSame ==
    ASSUME IsSeq(events), HelloInv, NEW u, Grows(u), \A i \in DOMAIN u : ~IsHello(u[i]),
           state \notin {"Initial", "Failed"}
    PROVE  /\ HelloAt' = HelloAt /\ LastHello' = LastHello
           /\ \E n \in HelloAt' : \A k \in HelloAt' : k <= n
<1>1. \E n \in HelloAt : \A k \in HelloAt : k <= n
  BY Zenon DEF HelloInv, HelloIsLast
<1>2. HelloAt' = HelloAt /\ LastHello' = LastHello
  BY <1>1, HelloKept, Zenon
<1> QED
  BY <1>1, <1>2, Zenon

\* No call leaves the last hello behind what the state says of it.
LEMMA HelloStep ==
    ASSUME Shape, EarlyDataSettled, EarlyDataSettled', HelloInv, Ends
    PROVE  HelloInv'
<1> DEFINE yes == Signal("EarlyDataAccepted")
<1>0. state \in States /\ IsSeq(events) /\ IsSeq(transcript) /\ pskUsed \in BOOLEAN /\ hrrDone \in BOOLEAN
  BY Zenon DEF Shape
<1>01. HelloIsLast /\ AnswerFitsLastHello /\ AcceptedOnTicketTerms
  BY Zenon DEF HelloInv
<1>02. /\ AtMostTwo(HelloAt) /\ ChoicesFit
       /\ (~AtMostOne(HelloAt) => ~LastHello.early)
       /\ (pskUsed => LastHello.ticket # NoTicket)
  BY <1>01, Zenon DEF AnswerFitsLastHello, ChoicesFit
<1>03. ASSUME HelloIsLast', AcceptedOnTicketTerms', AtMostTwo(HelloAt'), ChoicesFit',
              ~AtMostOne(HelloAt') => ~LastHello'.early, pskUsed' => LastHello'.ticket # NoTicket
       PROVE  HelloInv'
  BY <1>03, Zenon DEF HelloInv, AnswerFitsLastHello, ChoicesFit
<1>04. ASSUME state' = "Failed"
       PROVE  HelloIsLast' /\ AcceptedOnTicketTerms'
  BY <1>04, Zenon DEF HelloIsLast, AcceptedOnTicketTerms, Offering
<1>05. ASSUME state = "Initial"
       PROVE  HelloAt = {} /\ ~pskUsed /\ ~hrrDone /\ transcript = <<>>
  <2>1. events = <<>> /\ ~pskUsed /\ ~hrrDone /\ transcript = <<>>
    BY <1>05, Zenon DEF Shape
  <2>2. HelloAt = {}
    BY <2>1 DEF HelloAt
  <2> QED
    BY <2>1, <2>2, Zenon
<1>06. ASSUME NEW S, AtMostOne(S)
       PROVE  AtMostTwo(S)
  BY <1>06, Zenon DEF AtMostOne, AtMostTwo
<1> HIDE DEF yes
<1>1. CASE Tunes
  <2>1. /\ state = "Initial" /\ state' = state /\ events' = events /\ transcript' = transcript
        /\ pskUsed' = pskUsed /\ hrrDone' = hrrDone /\ suite' = suite /\ selectedAlpn' = selectedAlpn
    BY <1>1, Zenon DEF Tunes, Untuned
  <2>2. HelloIsLast'
    BY <2>1, Zenon DEF HelloIsLast, Offering
  <2>3. HelloAt' = HelloAt /\ LastHello' = LastHello
    BY <2>1, Zenon DEF HelloAt, LastHello
  <2>4. AcceptedOnTicketTerms'
    BY <1>01, <2>1, <2>3, Zenon DEF AcceptedOnTicketTerms
  <2>5. ChoicesFit'
    BY <1>02, <2>1, <2>3 DEF ChoicesFit
  <2> QED
    BY <1>02, <1>03, <2>1, <2>2, <2>3, <2>4, <2>5, Zenon
<1>2. ASSUME NEW u, Grows(u), Dies, \A i \in DOMAIN u : ~IsHello(u[i])
      PROVE  HelloInv'
  <2>1. /\ state # "Failed" /\ state' = "Failed" /\ pskUsed' = pskUsed /\ transcript' = transcript
    BY <1>2, Zenon DEF Dies
  <2>2. CASE state = "Initial"
    <3>1. HelloAt' = HelloAt
      BY <1>0, <1>2, HelloKept, Zenon
    <3>2. ChoicesFit'
      BY <1>05, <2>1, <2>2 DEF ChoicesFit
    <3>3. AtMostOne(HelloAt') /\ ~pskUsed'
      BY <1>05, <2>1, <2>2, <3>1, Zenon DEF AtMostOne
    <3> QED
      BY <1>03, <1>04, <1>06, <2>1, <3>2, <3>3, Zenon
  <2>3. CASE state # "Initial"
    <3>1. HelloAt' = HelloAt /\ LastHello' = LastHello
      BY <1>0, <1>2, <2>1, <2>3, HelloSame, Zenon
    <3>2. ChoicesFit'
      BY <1>02, <2>1, <3>1 DEF ChoicesFit
    <3> QED
      BY <1>02, <1>03, <1>04, <2>1, <3>1, <3>2, Zenon
  <2> QED
    BY <2>2, <2>3, Zenon
<1>3. ASSUME NEW u, DiesQuietly(u) \/ DiesFinishing(u)
      PROVE  HelloInv'
  <2>1. \A i \in DOMAIN u : ~IsHello(u[i])
    BY <1>3, EventsDiffer, ZenonT(40) DEF DiesQuietly, DiesFinishing, IsHello
  <2> QED
    BY <1>2, <1>3, <2>1, Zenon DEF DiesQuietly, DiesFinishing
<1>4. ASSUME NEW u, NEW hello, DiesStarting(u, hello)
      PROVE  HelloInv'
  <2>1. /\ state = "Initial" /\ state' = "Failed" /\ pskUsed' = pskUsed /\ transcript' = transcript
        /\ Grows(u) /\ DOMAIN u = 1 .. 1 /\ u[1] = Send("Plaintext", <<hello>>)
    BY <1>4, Zenon DEF DiesStarting, Dies
  <2>2. 1 \in DOMAIN u /\ \A i \in DOMAIN u : i # 1 => ~IsHello(u[i])
    BY <2>1
  <2>3. HelloAt = {} => AtMostOne(HelloAt')
    BY <1>0, <2>1, <2>2, HelloNew, Zenon
  <2>4. ChoicesFit'
    BY <1>05, <2>1 DEF ChoicesFit
  <2>5. AtMostOne(HelloAt') /\ ~pskUsed'
    BY <1>05, <2>1, <2>3, Zenon
  <2> QED
    BY <1>03, <1>04, <1>06, <2>1, <2>4, <2>5, Zenon
<1>5. ASSUME NEW u, Reports(u)
      PROVE  HelloInv'
  <2>1. /\ state \in Finishing /\ state' \in Finishing /\ Grows(u) /\ pskUsed' = pskUsed
        /\ transcript' = transcript /\ hrrDone' = hrrDone /\ suite' = suite /\ selectedAlpn' = selectedAlpn
    BY <1>5, Zenon DEF Reports
  <2>2. \A i \in DOMAIN u : u[i].type \in {"NewSessionTicket", "KeyUpdate"}
    BY <1>5, EventsDiffer, Zenon DEF Reports
  <2>3. \A i \in DOMAIN u : ~IsHello(u[i])
    BY <2>2, Zenon DEF IsHello
  <2>4. /\ HelloAt' = HelloAt /\ LastHello' = LastHello
        /\ \E n \in HelloAt' : \A k \in HelloAt' : k <= n
    BY <1>0, <2>1, <2>3, HelloSame, Zenon DEF Finishing
  <2>5. HelloIsLast'
    BY <2>1, <2>4, Zenon DEF HelloIsLast, Offering, Finishing
  <2>6. Emitted(events', Signal("EarlyDataAccepted")) <=> Emitted(events, Signal("EarlyDataAccepted"))
    BY <1>0, <2>1, <2>2, OtherEvents, Zenon
  <2>7. AcceptedOnTicketTerms'
    BY <1>01, <2>1, <2>4, <2>6, ZenonT(40) DEF AcceptedOnTicketTerms, Finishing
  <2>8. ChoicesFit'
    BY <1>02, <2>1, <2>4 DEF ChoicesFit
  <2> QED
    BY <1>02, <1>03, <2>1, <2>4, <2>5, <2>7, <2>8, Zenon
<1>6. ASSUME NEW u, NEW hello, Starts(u, hello)
      PROVE  HelloInv'
  <2>1. /\ state = "Initial" /\ state' = "ExpectServerHello" /\ Grows(u)
        /\ DOMAIN u = IF hello.early THEN 1 .. 2 ELSE 1 .. 1
        /\ u[1] = Send("Plaintext", <<hello>>)
        /\ hello.early => u[2] = Signal("ZeroRttKeysReady")
        /\ hello.shares = <<pendingGroup'>> /\ hello.ticket = resumption' /\ hello.type = "ClientHello"
        /\ earlyData' = IF hello.early THEN "Offered" ELSE "NotOffered"
        /\ hello.early => earlyBound' = hello.ticket
        /\ transcript' = <<hello>> /\ hrrDone' = hrrDone /\ pskUsed' = pskUsed
    BY <1>6, Zenon DEF Starts
  <2>2. ~IsHello(Signal("ZeroRttKeysReady"))
    BY EventsDiffer, Zenon DEF IsHello
  <2>3. 1 \in DOMAIN u /\ \A i \in DOMAIN u : i # 1 => ~IsHello(u[i])
    BY <2>1, <2>2, SMTT(30)
  <2>4. /\ HelloAt = {} => AtMostOne(HelloAt')
        /\ \E n \in HelloAt' : \A k \in HelloAt' : k <= n
        /\ LastHello' = hello
    BY <1>0, <2>1, <2>3, HelloNew, Zenon
  <2>5. AtMostOne(HelloAt') /\ ~pskUsed' /\ ~hrrDone'
    BY <1>05, <2>1, <2>4, Zenon
  <2>6. \A i \in DOMAIN transcript' : transcript'[i].type = "ClientHello"
    BY <2>1
  <2>7. HelloIsLast'
    BY <2>1, <2>4, <2>5, <2>6, Zenon DEF HelloIsLast, Offering
  <2>8. ~Emitted(events', Signal("EarlyDataAccepted"))
    BY <2>1, Zenon DEF EarlyDataSettled, Offering
  <2>9. AcceptedOnTicketTerms'
    BY <2>8, Zenon DEF AcceptedOnTicketTerms
  <2>10. ChoicesFit'
    BY <2>6, Zenon DEF ChoicesFit
  <2> QED
    BY <1>03, <1>06, <2>5, <2>7, <2>9, <2>10, Zenon
<1>7. ASSUME NEW u, NEW m, NEW hello, Retries(u, m, hello)
      PROVE  HelloInv'
  <2>1. /\ state = "ExpectServerHello" /\ state' = "ExpectServerHello" /\ Grows(u)
        /\ DOMAIN u = 1 .. 1 /\ u[1] = Send("Plaintext", <<hello>>)
        /\ hello.shares = <<pendingGroup'>> /\ hello.ticket = resumption' /\ hello.type = "ClientHello"
        /\ ~hello.early /\ ~hrrDone /\ hrrDone' = TRUE /\ pskUsed' = pskUsed
        /\ m.type = "HelloRetryRequest" /\ suite' = m.suite
        /\ transcript' = <<MessageHash(transcript), m, hello>>
    BY <1>7, Zenon DEF Retries
  <2>2. 1 \in DOMAIN u /\ \A i \in DOMAIN u : i # 1 => ~IsHello(u[i])
    BY <2>1
  <2>3. /\ AtMostOne(HelloAt) => AtMostTwo(HelloAt')
        /\ \E n \in HelloAt' : \A k \in HelloAt' : k <= n
        /\ LastHello' = hello
    BY <1>0, <2>1, <2>2, HelloNew, Zenon
  <2>4. AtMostTwo(HelloAt') /\ ~pskUsed'
    BY <1>01, <2>1, <2>3, Zenon DEF HelloIsLast
  <2>5. m.suite # None
    <3>1. m.suite \in Suites
      BY <1>7, Zenon DEF Retries, SuiteAcceptable, Shape, ClientConfig
    <3> QED
      BY <3>1 DEF Suites, SupportedSuites, None
  <2>6. MessageHash(transcript).type = "MessageHash"
    BY Zenon DEF MessageHash
  <2>7. \A i \in DOMAIN transcript' :
          \/ transcript'[i] = m
          \/ transcript'[i].type \in {"MessageHash", "ClientHello"}
    <3> DEFINE hash == MessageHash(transcript)
    <3>1. transcript' = <<hash, m, hello>> /\ hash.type = "MessageHash"
      BY <2>1, <2>6, Zenon
    <3> HIDE DEF hash
    <3> QED
      BY <2>1, <3>1
  <2>8. HelloIsLast'
    BY <2>1, <2>3, <2>4, <2>5, <2>7, Zenon DEF HelloIsLast, Offering
  <2>9. ~Emitted(events', Signal("EarlyDataAccepted"))
    BY <2>1, Zenon DEF EarlyDataSettled, Offering
  <2>10. AcceptedOnTicketTerms'
    BY <2>9, Zenon DEF AcceptedOnTicketTerms
  <2>11. ChoicesFit'
    BY <2>1, <2>7, Zenon DEF ChoicesFit
  <2> QED
    BY <1>03, <2>1, <2>3, <2>4, <2>8, <2>10, <2>11, Zenon
<1>8. ASSUME NEW u, NEW m, Greets(u, m)
      PROVE  HelloInv'
  <2>1. /\ state = "ExpectServerHello" /\ state' = "ExpectEncryptedExtensions" /\ Grows(u)
        /\ DOMAIN u = 1 .. 1 /\ u[1] = KeysReady("Handshake")
        /\ pskUsed' => resumption # NoTicket
        /\ hrrDone' = hrrDone /\ earlyData' = earlyData /\ earlyBound' = earlyBound
    BY <1>8, Zenon DEF Greets
  <2>2. \A i \in DOMAIN u : ~IsHello(u[i])
    BY <2>1, EventsDiffer DEF IsHello
  <2>3. /\ HelloAt' = HelloAt /\ LastHello' = LastHello
        /\ \E n \in HelloAt' : \A k \in HelloAt' : k <= n
    BY <1>0, <2>1, <2>2, HelloSame, Zenon
  <2>4. ChoicesFit'
    BY <1>0, <1>01, <1>8, <2>3, ChoicesGreeted, Zenon
  <2>5. HelloIsLast'
    BY <1>01, <2>1, <2>3, Zenon DEF HelloIsLast, Offering
  <2>6. ~Emitted(events', Signal("EarlyDataAccepted"))
    BY <2>1, Zenon DEF EarlyDataSettled, Offering
  <2>7. AcceptedOnTicketTerms'
    BY <2>6, Zenon DEF AcceptedOnTicketTerms
  <2>8. pskUsed' => LastHello'.ticket # NoTicket
    BY <1>01, <2>1, <2>3, Zenon DEF HelloIsLast
  <2> QED
    BY <1>02, <1>03, <2>3, <2>4, <2>5, <2>7, <2>8, Zenon
<1>9. ASSUME NEW u, NEW m, Settles(u, m)
      PROVE  HelloInv'
  <2>1. /\ state = "ExpectEncryptedExtensions" /\ state' \in Settling /\ Grows(u) /\ EarlyAcceptable(m)
        /\ selectedAlpn' = m.alpn /\ earlyData' = (IF m.early THEN "Accepted" ELSE "NotOffered")
        /\ Hashes(m) /\ m.type = "EncryptedExtensions"
        /\ hrrDone' = hrrDone /\ pskUsed' = pskUsed /\ suite' = suite
    BY <1>9, Zenon DEF Settles, AfterExtensions, Settling
  <2>2. \A i \in DOMAIN u : u[i].type # "Send"
    BY <1>9, EventsDiffer DEF Settles
  <2>3. /\ HelloAt' = HelloAt /\ LastHello' = LastHello
        /\ \E n \in HelloAt' : \A k \in HelloAt' : k <= n
    BY <1>0, <2>1, <2>2, HelloSame, Zenon DEF IsHello
  <2>4. ChoicesFit'
    BY <1>0, <1>02, <2>1, <2>3, ChoicesKept, Zenon
  <2>5. HelloIsLast'
    BY <2>1, <2>3, Zenon DEF HelloIsLast, Offering, Settling
  <2>6. Emitted(events', Signal("EarlyDataAccepted")) => m.early
    BY <2>1, Zenon DEF EarlyDataSettled, Settling
  <2>7. m.early => /\ ~hrrDone /\ LastHello.early
                   /\ suite = LastHello.ticket.suite /\ m.alpn = LastHello.ticket.alpn
    BY <1>01, <2>1, Zenon DEF EarlyAcceptable, HelloIsLast, Offering
  <2>8. AcceptedOnTicketTerms'
    BY <2>1, <2>3, <2>6, <2>7, Zenon DEF AcceptedOnTicketTerms
  <2> QED
    BY <1>02, <1>03, <2>1, <2>3, <2>4, <2>5, <2>8, ZenonT(40)
<1>10. ASSUME NEW m, Proceeds(m)
       PROVE  HelloInv'
  <2>1. /\ state \in Settling /\ state' \in Settling /\ events' = events /\ Hashes(m)
        /\ m.type \notin {"ServerHello", "HelloRetryRequest"}
        /\ hrrDone' = hrrDone /\ pskUsed' = pskUsed /\ suite' = suite /\ selectedAlpn' = selectedAlpn
    BY <1>10, Zenon DEF Proceeds, Settling
  <2>2. HelloAt' = HelloAt /\ LastHello' = LastHello
    BY <2>1, Zenon DEF HelloAt, LastHello
  <2>3. \E n \in HelloAt' : \A k \in HelloAt' : k <= n
    BY <1>01, <2>1, <2>2, Zenon DEF HelloIsLast, Settling
  <2>4. ChoicesFit'
    BY <1>0, <1>02, <2>1, <2>2, ChoicesKept, Zenon
  <2>5. HelloIsLast'
    BY <2>1, <2>3, Zenon DEF HelloIsLast, Offering, Settling
  <2>6. AcceptedOnTicketTerms'
    BY <1>01, <2>1, <2>2, Zenon DEF AcceptedOnTicketTerms, Settling
  <2> QED
    BY <1>02, <1>03, <2>1, <2>2, <2>4, <2>5, <2>6, Zenon
<1>11. ASSUME NEW u, NEW m, Finishes(u, m)
       PROVE  HelloInv'
  <2>1. /\ state = "ExpectServerFinished" /\ state' = "Done" /\ Grows(u) /\ Hashes(m)
        /\ m.type \notin {"ServerHello", "HelloRetryRequest"}
        /\ hrrDone' = hrrDone /\ pskUsed' = pskUsed /\ suite' = suite /\ selectedAlpn' = selectedAlpn
    BY <1>11, Zenon DEF Finishes
  <2>2. \A i \in DOMAIN u : ~IsHello(u[i]) /\ u[i].type \in {"KeysReady", "Send", "Done"}
    BY <1>11, EventsDiffer DEF Finishes, IsHello
  <2>3. /\ HelloAt' = HelloAt /\ LastHello' = LastHello
        /\ \E n \in HelloAt' : \A k \in HelloAt' : k <= n
    BY <1>0, <2>1, <2>2, HelloSame, Zenon
  <2>4. ChoicesFit'
    BY <1>0, <1>02, <2>1, <2>3, ChoicesKept, Zenon
  <2>5. HelloIsLast'
    BY <2>1, <2>3, Zenon DEF HelloIsLast, Offering
  <2>6. Emitted(events', Signal("EarlyDataAccepted")) <=> Emitted(events, Signal("EarlyDataAccepted"))
    BY <1>0, <2>1, <2>2, OtherEvents, Zenon
  <2>7. AcceptedOnTicketTerms'
    BY <1>01, <2>1, <2>3, <2>6, Zenon DEF AcceptedOnTicketTerms
  <2> QED
    BY <1>02, <1>03, <2>1, <2>3, <2>4, <2>5, <2>7, Zenon
<1> QED
  BY <1>1, <1>3, <1>4, <1>5, <1>6, <1>7, <1>8, <1>9, <1>10, <1>11, ZenonT(40) DEF Ends

\* The invariants of early data and of the last hello, together.
LEMMA AlwaysSettled == Spec => [](EarlyInv /\ HelloInv)
<1>1. Init => EarlyInv /\ HelloInv
  <2> SUFFICES ASSUME Init PROVE EarlyInv /\ HelloInv
    BY Zenon
  <2>1. /\ ~Emitted(<<>>, Signal("Done")) /\ ~Emitted(<<>>, Signal("EarlyDataAccepted"))
        /\ ~Carried(<<>>, "EndOfEarlyData")
    BY DEF Emitted, Carried
  <2>2. \A t : EventsAt(<<>>, t) = {}
    BY DEF EventsAt
  <2>3. state = "Initial" /\ events = <<>> /\ transcript = <<>> /\ ~pskUsed
    BY Zenon DEF Init
  <2>4. EarlyInv
    <3>1. SettledInOrder
      BY <2>2, <2>3, Zenon DEF SettledInOrder, Offers, Verdicts, Acceptances, Rejections, AtMostOne
    <3> QED
      BY <2>1, <2>3, <3>1, SettledClauses, Zenon
      DEF EarlyInv, EarlyDataSettled, EndOfEarlyDataSentWhenDue, Offering, Settling, Finishing
  <2>5. HelloAt = {} /\ AtMostOne(HelloAt) /\ AtMostTwo(HelloAt)
    BY <2>3 DEF HelloAt, AtMostOne, AtMostTwo
  <2>6. HelloInv
    BY <2>1, <2>3, <2>5
    DEF HelloInv, HelloIsLast, AnswerFitsLastHello, AcceptedOnTicketTerms, Offering
  <2> QED
    BY <2>4, <2>6, Zenon
<1>2. Shape /\ EarlyInv /\ HelloInv /\ [Next]_vars => EarlyInv' /\ HelloInv'
  <2>1. ASSUME Shape, EarlyInv, HelloInv, Next PROVE EarlyInv' /\ HelloInv'
    <3>1. Ends
      BY <2>1, NextEnds
    <3>2. EarlyInv'
      BY <2>1, <3>1, EarlyStep
    <3>3. EarlyDataSettled /\ EarlyDataSettled'
      BY <2>1, <3>2 DEF EarlyInv
    <3> QED
      BY <2>1, <3>1, <3>2, <3>3, HelloStep, SMTT(30)
  <2>2. ASSUME EarlyInv, HelloInv, UNCHANGED vars PROVE EarlyInv' /\ HelloInv'
    <3>1. HelloAt' = HelloAt /\ LastHello' = LastHello
      BY <2>2, SMTT(30) DEF vars, HelloAt, LastHello
    <3>2. EarlyInv'
      BY <2>2, SMTT(30) DEF vars, EarlyInv, EarlyDataSettled, SettledOnce, EndOfEarlyDataSentWhenDue,
                  Offers, Verdicts, Acceptances, Rejections
    <3>3. HelloIsLast'
      BY <2>2, <3>1 DEF vars, HelloInv, HelloIsLast
    <3>4. AnswerFitsLastHello'
      <4>1. transcript' = transcript /\ pskUsed' = pskUsed
        BY <2>2 DEF vars
      <4>2. /\ AtMostTwo(HelloAt) /\ (~AtMostOne(HelloAt) => ~LastHello.early)
            /\ (pskUsed => LastHello.ticket # NoTicket) /\ ChoicesFit
        BY <2>2, Zenon DEF HelloInv, AnswerFitsLastHello, ChoicesFit
      <4>3. ChoicesFit'
        BY <3>1, <4>1, <4>2 DEF ChoicesFit
      <4>4. /\ AtMostTwo(HelloAt') /\ (~AtMostOne(HelloAt') => ~LastHello.early')
            /\ (pskUsed' => LastHello.ticket' # NoTicket)
        BY <3>1, <4>1, <4>2, Zenon
      <4> QED
        BY <4>3, <4>4, Zenon DEF AnswerFitsLastHello, ChoicesFit, AtMostOne, AtMostTwo
    <3>5. AcceptedOnTicketTerms'
      BY <2>2, <3>1 DEF vars, HelloInv, AcceptedOnTicketTerms
    <3> QED
      BY <3>2, <3>3, <3>4, <3>5, SMTT(30) DEF HelloInv
  <2> QED
    BY <2>1, <2>2
<1> QED
  BY <1>1, <1>2, AlwaysInShape, PTL DEF Spec

\* An offer of early data is settled exactly once before Done, on the ticket's
\* terms, and ended on the wire when it has to be
\* (handle_encrypted_extensions, handle_server_finished).
THEOREM EarlyDataAlwaysSettled == Spec => []EarlyDataOutcome
<1>1. EarlyInv /\ HelloInv => EarlyDataOutcome
  BY DEF EarlyInv, HelloInv, EarlyDataOutcome
<1> QED
  BY <1>1, AlwaysSettled, PTL

\* What the server chose is always what the hello it answered left open, across
\* a retry too (handle_server_hello, handle_hello_retry_request).
THEOREM AnswerAlwaysFits == Spec => []AnswerFitsLastHello
<1>1. HelloInv => AnswerFitsLastHello
  BY DEF HelloInv
<1> QED
  BY <1>1, AlwaysSettled, PTL

============================================================================
