-------------------------- MODULE EarlyDataProofs --------------------------
(***************************************************************************)
(* Proofs about EarlyData, for every set of shards and stores, every        *)
(* lifetime, skew and drift that the assumption of EarlyData allows, and    *)
(* every number of tickets, hellos, keys and restarts.                      *)
(*                                                                          *)
(* A second acceptance is excluded by two facts.  An accepted hello is      *)
(* registered in every store of its ticket's domain until a ticket's        *)
(* lifetime has passed (Guarded); and nothing is accepted that late, since  *)
(* the age the client claims is the true one, however ticket_age_add wraps  *)
(* (ClaimedAgeIsTrue).                                                      *)
(***************************************************************************)
EXTENDS EarlyData, TLAPS

Ticket == [key : Nat, issuedAt : Nat, domain : Stores \X Nat, ageAdd : AgeAdds,
           issuer : Shards, received : Nat \cup {NotYet}]

Hello == [ticket : Nat, sentAt : Nat, age : Nat]

Acceptance == [hello : Nat, shard : Shards, at : Nat]

Token == [token : Nat, at : Nat]

Types ==
    /\ now \in Nat
    /\ rotator \in [current : Nat, previous : Nat, since : Nat, issued : Nat]
    /\ keys \in [Shards -> [current : Nat, previous : Nat]]
    /\ domain \in [Stores -> Stores \X Nat]
    /\ store \in [Stores -> SUBSET Token]
    /\ resets \in Nat
    /\ tickets \in Seq(Ticket)
    /\ hellos \in Seq(Hello)
    /\ accepted \in Seq(Acceptance)

\* The previous key is the one before the current key, everywhere.
KeysInStep ==
    /\ rotator.current >= 1 /\ rotator.previous = rotator.current - 1
    /\ \A s \in Shards : keys[s] = NoKeys \/ (/\ keys[s].current >= 1
                                              /\ keys[s].previous = keys[s].current - 1)
    /\ \A i \in 1 .. Len(tickets) : tickets[i].key >= 1

\* A ticket was received after it was issued, by true time.
TicketInTime(t) ==
    /\ ClockAhead[t.issuer] <= t.issuedAt
    /\ t.issuedAt <= now + ClockAhead[t.issuer]
    /\ t.received # NotYet => /\ t.issuedAt <= t.received + ClockAhead[t.issuer]
                              /\ t.received <= now

\* A hello was sent after its ticket was received and within its lifetime, and
\* carries that age.
HelloInTime(m) ==
    /\ m.ticket \in 1 .. Len(tickets)
    /\ LET t == tickets[m.ticket]
       IN /\ t.received # NotYet
          /\ t.received <= m.sentAt /\ m.sentAt <= now
          /\ m.sentAt - t.received <= TICKET_LIFETIME_MS
          /\ m.age = ((m.sentAt - t.received) + t.ageAdd) % AgeModulus

InTime ==
    /\ \A i \in 1 .. Len(tickets) : TicketInTime(tickets[i])
    /\ \A h \in 1 .. Len(hellos) : HelloInTime(hellos[h])

\* Acceptances are of hellos that were sent, and soon after.
AcceptedInTime ==
    \A i \in 1 .. Len(accepted) :
        /\ accepted[i].hello \in 1 .. Len(hellos)
        /\ hellos[accepted[i].hello].sentAt <= accepted[i].at
        /\ accepted[i].at <= now
        /\ accepted[i].at - hellos[accepted[i].hello].sentAt <= MAX_TICKET_AGE_SKEW_MS + MaxDrift

\* No two stores have one domain, and no ticket has a domain of the future.
DomainsDistinct ==
    /\ \A g \in Stores : domain[g][1] = g /\ domain[g][2] <= resets
    /\ \A i \in 1 .. Len(tickets) : tickets[i].domain[2] <= resets

\* The ticket of an acceptance.
TicketOf(i) == tickets[hellos[accepted[i].hello].ticket]

TokenOf(i) == [token |-> accepted[i].hello, at |-> accepted[i].at]

\* An accepted hello is registered in every store of its ticket's domain,
\* until a ticket's lifetime has passed.
Guarded ==
    \A i \in 1 .. Len(accepted) : \A g \in Stores :
        TicketOf(i).domain = domain[g] =>
            TokenOf(i) \in store[g] \/ now - accepted[i].at >= TICKET_LIFETIME_MS

\* A store holds only tokens of accepted hellos.
TokensAccepted ==
    \A g \in Stores : \A e \in store[g] :
        \E i \in 1 .. Len(accepted) : accepted[i].hello = e.token

\* AcceptedOnce for the sequence itself.
OnceEach ==
    \A i, j \in 1 .. Len(accepted) : accepted[i].hello = accepted[j].hello => i = j

----------------------------------------------------------------------------
\* A remainder is determined by its quotient.
LEMMA ModUnique ==
    ASSUME NEW m \in Nat \ {0}, NEW q \in Int, NEW r \in 0 .. m - 1
    PROVE  (q * m + r) % m = r
  OBVIOUS

\* Adding and taking away modulo m gives back what was there, wherever the sum
\* wraps (u32::wrapping_add and wrapping_sub).
LEMMA WrapBack ==
    ASSUME NEW m \in Nat \ {0}, NEW x \in 0 .. m - 1, NEW a \in 0 .. m - 1
    PROVE  /\ (x + a) % m \in 0 .. m - 1
           /\ (((x + a) % m) - a) % m = x
  <1>1. CASE x + a < m
    <2>1. (0 * m + (x + a)) % m = x + a
      BY <1>1, ModUnique
    <2>2. (0 * m + x) % m = x
      BY ModUnique
    <2> QED
      BY <1>1, <2>1, <2>2
  <1>2. CASE x + a >= m
    <2>1. (1 * m + (x + a - m)) % m = x + a - m
      BY <1>2, ModUnique
    <2>2. ((-1) * m + x) % m = x
      BY ModUnique
    <2> QED
      BY <1>2, <2>1, <2>2
  <1> QED
    BY <1>1, <1>2

----------------------------------------------------------------------------
(* What the actions do to the sequences. *)

\* The assumption on the constants, part by part.
LEMMA Constants ==
    /\ \A s \in Shards : StoreOf[s] \in Stores /\ ClockAhead[s] \in Nat
    /\ TICKET_LIFETIME_MS \in Nat /\ MAX_TICKET_AGE_SKEW_MS \in Nat /\ MaxDrift \in Nat
    /\ AgeModulus \in Nat \ {0} /\ AgeModulus > TICKET_LIFETIME_MS
    /\ \A a \in AgeAdds : a \in 0 .. AgeModulus - 1
    /\ TICKET_LIFETIME_MS > MAX_TICKET_AGE_SKEW_MS + MaxDrift
    /\ \A s, r \in Shards : ClockAhead[s] - ClockAhead[r] <= MaxDrift
  <1>1. TICKET_LIFETIME_MS \in Nat /\ MAX_TICKET_AGE_SKEW_MS \in Nat
    BY EarlyDataAssumption, Zenon
  <1> QED
    BY <1>1, EarlyDataAssumption

\* The parts of a well-typed state.
LEMMA Parts ==
    ASSUME Types
    PROVE  /\ Len(tickets) \in Nat /\ Len(hellos) \in Nat /\ Len(accepted) \in Nat
           /\ DOMAIN tickets = 1 .. Len(tickets)
           /\ DOMAIN hellos = 1 .. Len(hellos)
           /\ DOMAIN accepted = 1 .. Len(accepted)
           /\ \A i \in 1 .. Len(tickets) : tickets[i] \in Ticket
           /\ \A i \in 1 .. Len(hellos) : hellos[i] \in Hello
           /\ \A i \in 1 .. Len(accepted) : accepted[i] \in Acceptance
  BY SMTT(30) DEF Types

\* The fields of a ticket, a hello and an acceptance.
LEMMA Fields ==
    /\ \A t \in Ticket : /\ t.key \in Nat /\ t.issuedAt \in Nat /\ t.domain \in Stores \X Nat
                         /\ t.ageAdd \in AgeAdds /\ t.issuer \in Shards
                         /\ t.received \in Nat \cup {NotYet}
    /\ \A m \in Hello : m.ticket \in Nat /\ m.sentAt \in Nat /\ m.age \in Nat
    /\ \A a \in Acceptance : a.hello \in Nat /\ a.shard \in Shards /\ a.at \in Nat
    /\ \A e \in Token : e.token \in Nat /\ e.at \in Nat
  BY Zenon DEF Ticket, Hello, Acceptance, Token

\* A shard's clock never runs below zero.
LEMMA SumOfNats ==
    ASSUME NEW a \in Nat, NEW b \in Nat
    PROVE  a + b \in Nat
  OBVIOUS

\* A new ticket is appended.
LEMMA IssueEffect ==
    ASSUME Types, NEW s \in Shards, NEW add \in AgeAdds, IssueTicket(s, add)
    PROVE  LET t == [key |-> keys[s].current, issuedAt |-> ClockOf(s),
                     domain |-> domain[StoreOf[s]], ageAdd |-> add,
                     issuer |-> s, received |-> NotYet]
           IN /\ t \in Ticket
              /\ tickets' \in Seq(Ticket)
              /\ Len(tickets') = Len(tickets) + 1
              /\ \A i \in 1 .. Len(tickets) : tickets'[i] = tickets[i]
              /\ tickets'[Len(tickets) + 1] = t
  <1> DEFINE t == [key |-> keys[s].current, issuedAt |-> ClockOf(s),
                   domain |-> domain[StoreOf[s]], ageAdd |-> add,
                   issuer |-> s, received |-> NotYet]
  <1>1. /\ keys[s].current \in Nat /\ ClockOf(s) \in Nat /\ domain[StoreOf[s]] \in Stores \X Nat
    <2>1. keys[s].current \in Nat
      BY Zenon DEF Types
    <2>2. now + ClockAhead[s] \in Nat
      <3>1. now \in Nat /\ ClockAhead[s] \in Nat
        BY Constants, Zenon DEF Types
      <3> QED
        BY <3>1, SumOfNats, Zenon
    <2>3. domain[StoreOf[s]] \in Stores \X Nat
      BY Constants, Zenon DEF Types
    <2> QED
      BY <2>1, <2>2, <2>3, Zenon DEF ClockOf
  <1>2. t \in Ticket
    BY <1>1, Zenon DEF Ticket
  <1>3. tickets' = Append(tickets, t) /\ tickets \in Seq(Ticket)
    BY Zenon DEF IssueTicket, Types
  <1> HIDE DEF t
  <1> QED
    BY <1>2, <1>3 DEF t

\* A ticket is received: nothing else about it changes.
LEMMA ReceiveEffect ==
    ASSUME Types, NEW i \in 1 .. Len(tickets), ReceiveTicket(i)
    PROVE  /\ tickets' \in Seq(Ticket)
           /\ Len(tickets') = Len(tickets)
           /\ \A j \in 1 .. Len(tickets) : j # i => tickets'[j] = tickets[j]
           /\ tickets[i].received = NotYet /\ tickets'[i].received = now
           /\ tickets'[i].key = tickets[i].key /\ tickets'[i].domain = tickets[i].domain
           /\ tickets'[i].issuedAt = tickets[i].issuedAt
           /\ tickets'[i].ageAdd = tickets[i].ageAdd /\ tickets'[i].issuer = tickets[i].issuer
  <1> DEFINE t == [tickets[i] EXCEPT !.received = now]
  <1>1. tickets[i] \in Ticket /\ now \in Nat /\ tickets \in Seq(Ticket)
    BY Parts, Zenon DEF Types
  <1>2. /\ t \in Ticket
        /\ t.received = now /\ t.key = tickets[i].key /\ t.domain = tickets[i].domain
        /\ t.issuedAt = tickets[i].issuedAt
        /\ t.ageAdd = tickets[i].ageAdd /\ t.issuer = tickets[i].issuer
    BY <1>1, Zenon DEF Ticket
  <1>3. tickets' = [tickets EXCEPT ![i] = t] /\ tickets[i].received = NotYet
    BY Zenon DEF ReceiveTicket
  <1> HIDE DEF t
  <1>4. /\ tickets' \in Seq(Ticket) /\ Len(tickets') = Len(tickets)
        /\ \A j \in 1 .. Len(tickets) : j # i => tickets'[j] = tickets[j]
        /\ tickets'[i] = t
    BY <1>1, <1>2, <1>3
  <1> QED
    BY <1>2, <1>3, <1>4, Zenon

\* The client offers a ticket it has.
LEMMA OfferEffect ==
    ASSUME Types, NEW i \in 1 .. Len(tickets), Offer(i)
    PROVE  LET age == now - tickets[i].received
               m == [ticket |-> i, sentAt |-> now,
                     age |-> (age + tickets[i].ageAdd) % AgeModulus]
           IN /\ m \in Hello
              /\ hellos' \in Seq(Hello)
              /\ Len(hellos') = Len(hellos) + 1
              /\ \A h \in 1 .. Len(hellos) : hellos'[h] = hellos[h]
              /\ hellos'[Len(hellos) + 1] = m
              /\ tickets[i].received # NotYet /\ age <= TICKET_LIFETIME_MS
  <1> DEFINE age == now - tickets[i].received
             m == [ticket |-> i, sentAt |-> now, age |-> (age + tickets[i].ageAdd) % AgeModulus]
  <1>1. /\ tickets[i].received # NotYet /\ age <= TICKET_LIFETIME_MS
        /\ hellos' = Append(hellos, m) /\ hellos \in Seq(Hello)
    BY Zenon DEF Offer, Types
  <1>2. m \in Hello
    <2>1. tickets[i].received \in Nat /\ tickets[i].ageAdd \in Nat /\ now \in Nat
      <3>1. tickets[i] \in Ticket /\ now \in Nat
        BY Parts, Zenon DEF Types
      <3>2. tickets[i].received \in Nat \cup {NotYet} /\ tickets[i].ageAdd \in AgeAdds
        BY <3>1, Fields, Zenon
      <3> QED
        BY <1>1, <3>1, <3>2, Constants
    <2>2. AgeModulus \in Nat \ {0}
      BY Constants, Zenon
    <2>3. (age + tickets[i].ageAdd) % AgeModulus \in Nat
      BY <2>1, <2>2, SMTT(30)
    <2> QED
      BY <2>1, <2>3 DEF Hello
  <1> HIDE DEF m
  <1> QED
    BY <1>1, <1>2 DEF m

\* An accepted hello is registered and recorded.
LEMMA DeliverEffect ==
    ASSUME Types, NEW h \in 1 .. Len(hellos), NEW s \in Shards, Deliver(h, s)
    PROVE  LET a == [hello |-> h, shard |-> s, at |-> now]
           IN /\ accepted' \in Seq(Acceptance)
              /\ Len(accepted') = Len(accepted) + 1
              /\ \A i \in 1 .. Len(accepted) : accepted'[i] = accepted[i]
              /\ accepted'[Len(accepted) + 1] = a
              /\ store' \in [Stores -> SUBSET Token]
              /\ [token |-> h, at |-> now] \in store'[StoreOf[s]]
              /\ \A g \in Stores : store[g] \subseteq store'[g]
              /\ \A g \in Stores : store'[g] \subseteq store[g] \cup {[token |-> h, at |-> now]}
  <1> DEFINE a == [hello |-> h, shard |-> s, at |-> now]
             k == [token |-> h, at |-> now]
  <1>1. a \in Acceptance /\ k \in Token /\ StoreOf[s] \in Stores
    <2>1. now \in Nat /\ h \in Nat /\ StoreOf[s] \in Stores
      BY Constants, Parts DEF Types
    <2> QED
      BY <2>1, Zenon DEF Acceptance, Token
  <1>2. /\ accepted' = Append(accepted, a) /\ accepted \in Seq(Acceptance)
        /\ store' = [store EXCEPT ![StoreOf[s]] = @ \cup {k}]
        /\ store \in [Stores -> SUBSET Token]
    BY Zenon DEF Deliver, Types
  <1> HIDE DEF a, k
  <1>3. /\ accepted' \in Seq(Acceptance)
        /\ Len(accepted') = Len(accepted) + 1
        /\ \A i \in 1 .. Len(accepted) : accepted'[i] = accepted[i]
        /\ accepted'[Len(accepted) + 1] = a
    BY <1>1, <1>2
  <1>4. /\ store' \in [Stores -> SUBSET Token]
        /\ k \in store'[StoreOf[s]]
        /\ \A g \in Stores : store[g] \subseteq store'[g]
        /\ \A g \in Stores : store'[g] \subseteq store[g] \cup {k}
    BY <1>1, <1>2, Zenon
  <1> QED
    BY <1>3, <1>4, Zenon DEF a, k

----------------------------------------------------------------------------
(* Types. *)

\* The servers start with variables of their types.
LEMMA TypesInit == Init => Types
  <1> SUFFICES ASSUME Init PROVE Types
    BY Zenon
  <1>1. NoKeys \in [current : Nat, previous : Nat]
    BY Zenon DEF NoKeys, NoKey
  <1>2. keys \in [Shards -> [current : Nat, previous : Nat]]
    BY <1>1, Zenon DEF Init
  <1>3. domain \in [Stores -> Stores \X Nat] /\ store \in [Stores -> SUBSET Token]
    BY Zenon DEF Init
  <1> QED
    BY <1>2, <1>3 DEF Init, Types, NoKey

\* The rotator's keys and a shard's.
LEMMA KeysTyped ==
    ASSUME Types, NEW s \in Shards, InstallIssuingKeys(s) \/ InstallAcceptingKeys(s)
    PROVE  /\ rotator' \in [current : Nat, previous : Nat, since : Nat, issued : Nat]
           /\ keys' \in [Shards -> [current : Nat, previous : Nat]]
           /\ UNCHANGED <<now, domain, store, resets, tickets, hellos, accepted>>
           /\ keys' = [keys EXCEPT ![s] = [current |-> rotator'.current,
                                            previous |-> rotator'.previous]]
           /\ \/ rotator'.current = rotator.current /\ rotator'.previous = rotator.previous
              \/ rotator'.current = rotator.current + 1 /\ rotator'.previous = rotator.current
  <1> DEFINE Pair == [current : Nat, previous : Nat]
  <1>1. CASE InstallIssuingKeys(s)
    <2> DEFINE r == IF Due(rotator) THEN Rotated(rotator) ELSE rotator
    <2>1. /\ r \in [current : Nat, previous : Nat, since : Nat, issued : Nat]
          /\ \/ r.current = rotator.current /\ r.previous = rotator.previous
             \/ r.current = rotator.current + 1 /\ r.previous = rotator.current
      <3>1. CASE Due(rotator)
        BY <3>1 DEF Types, Rotated
      <3>2. CASE ~Due(rotator)
        BY <3>2, Zenon DEF Types
      <3> QED
        BY <3>1, <3>2, Zenon
    <2>2. /\ rotator' = [r EXCEPT !.issued = r.issued + 1]
          /\ keys' = [keys EXCEPT ![s] = [current |-> r.current, previous |-> r.previous]]
          /\ UNCHANGED <<now, domain, store, resets, tickets, hellos, accepted>>
      BY <1>1, Zenon DEF InstallIssuingKeys
    <2> HIDE DEF r
    <2>3. /\ rotator' \in [current : Nat, previous : Nat, since : Nat, issued : Nat]
          /\ rotator'.current = r.current /\ rotator'.previous = r.previous
      BY <2>1, <2>2
    <2>4. [current |-> r.current, previous |-> r.previous] \in Pair
      BY <2>1, Zenon
    <2>5. keys' \in [Shards -> Pair]
      BY <2>2, <2>4, Zenon DEF Types
    <2> QED
      BY <2>1, <2>2, <2>3, <2>5, Zenon
  <1>2. CASE InstallAcceptingKeys(s)
    <2>1. /\ rotator' = rotator
          /\ keys' = [keys EXCEPT ![s] = [current |-> rotator.current, previous |-> rotator.previous]]
          /\ UNCHANGED <<now, domain, store, resets, tickets, hellos, accepted>>
      BY <1>2, Zenon DEF InstallAcceptingKeys
    <2>2. [current |-> rotator.current, previous |-> rotator.previous] \in Pair
      BY Zenon DEF Types
    <2>3. keys' \in [Shards -> Pair]
      BY <2>1, <2>2, Zenon DEF Types
    <2> QED
      BY <2>1, <2>3, Zenon DEF Types
  <1> QED
    BY <1>1, <1>2, Zenon

\* A store that drops tokens, or is rebuilt in a new domain.
LEMMA ForgetEffect ==
    ASSUME Types, NEW g \in Stores, Forget(g)
    PROVE  /\ store' \in [Stores -> SUBSET Token]
           /\ \A f \in Stores : store'[f] \subseteq store[f]
           /\ \A f \in Stores : \A e \in store[f] :
                 e \in store'[f] \/ now - e.at >= TICKET_LIFETIME_MS
           /\ UNCHANGED <<now, rotator, keys, domain, resets, tickets, hellos, accepted>>
  <1>1. PICK d \in store[g] : /\ now - d.at >= TICKET_LIFETIME_MS
                              /\ store' = [store EXCEPT ![g] = @ \ {d}]
    BY Zenon DEF Forget
  <1>2. store \in [Stores -> SUBSET Token]
    BY Zenon DEF Types
  <1> QED
    BY <1>1, <1>2, Zenon DEF Forget

\* A store that loses its tokens is empty and has a domain of its own.
LEMMA ResetEffect ==
    ASSUME Types, NEW g \in Stores, ResetStore(g)
    PROVE  /\ store' \in [Stores -> SUBSET Token]
           /\ domain' \in [Stores -> Stores \X Nat]
           /\ resets' = resets + 1
           /\ store'[g] = {}
           /\ domain'[g] = <<g, resets + 1>>
           /\ \A f \in Stores \ {g} : store'[f] = store[f] /\ domain'[f] = domain[f]
           /\ UNCHANGED <<now, rotator, keys, tickets, hellos, accepted>>
  <1>1. FreshDomain(g) = <<g, resets + 1>> /\ FreshDomain(g) \in Stores \X Nat
    BY SMTT(30) DEF Types, FreshDomain
  <1>2. store' = [store EXCEPT ![g] = {}] /\ domain' = [domain EXCEPT ![g] = FreshDomain(g)]
    BY Zenon DEF ResetStore
  <1>3. /\ store' \in [Stores -> SUBSET Token] /\ domain' \in [Stores -> Stores \X Nat]
        /\ store'[g] = {} /\ domain'[g] = FreshDomain(g)
        /\ \A f \in Stores \ {g} : store'[f] = store[f] /\ domain'[f] = domain[f]
    BY <1>1, <1>2, Zenon DEF Types
  <1> QED
    BY <1>1, <1>3, Zenon DEF ResetStore

\* The steps, with the indices of tickets and hellos as numbers.
LEMMA StepCases ==
    ASSUME Types, [Next]_vars
    PROVE  \/ Tick
           \/ \E s \in Shards : InstallIssuingKeys(s) \/ InstallAcceptingKeys(s)
           \/ \E s \in Shards, add \in AgeAdds : IssueTicket(s, add)
           \/ \E i \in 1 .. Len(tickets) : ReceiveTicket(i)
           \/ \E i \in 1 .. Len(tickets) : Offer(i)
           \/ \E h \in 1 .. Len(hellos), s \in Shards : Deliver(h, s)
           \/ \E g \in Stores : Forget(g)
           \/ \E g \in Stores : ResetStore(g)
           \/ UNCHANGED vars
  BY Parts, Zenon DEF Next

\* Every step keeps the types.
LEMMA TypesStep == Types /\ [Next]_vars => Types'
  <1> SUFFICES ASSUME Types, [Next]_vars PROVE Types'
    BY Zenon
  <1>1. CASE Tick
    BY <1>1 DEF Types, Tick
  <1>2. ASSUME NEW s \in Shards, InstallIssuingKeys(s) \/ InstallAcceptingKeys(s) PROVE Types'
    BY <1>2, KeysTyped, Zenon DEF Types
  <1>3. ASSUME NEW s \in Shards, NEW add \in AgeAdds, IssueTicket(s, add) PROVE Types'
    BY <1>3, IssueEffect, Zenon DEF Types, IssueTicket
  <1>4. ASSUME NEW i \in 1 .. Len(tickets), ReceiveTicket(i) PROVE Types'
    BY <1>4, ReceiveEffect, Zenon DEF Types, ReceiveTicket
  <1>5. ASSUME NEW i \in 1 .. Len(tickets), Offer(i) PROVE Types'
    BY <1>5, OfferEffect, Zenon DEF Types, Offer
  <1>6. ASSUME NEW h \in 1 .. Len(hellos), NEW s \in Shards, Deliver(h, s) PROVE Types'
    BY <1>6, DeliverEffect, Zenon DEF Types, Deliver
  <1>7. ASSUME NEW g \in Stores, Forget(g) PROVE Types'
    BY <1>7, ForgetEffect, Zenon DEF Types
  <1>8. ASSUME NEW g \in Stores, ResetStore(g) PROVE Types'
    BY <1>8, ResetEffect, SMTT(30) DEF Types
  <1>9. CASE UNCHANGED vars
    BY <1>9, Zenon DEF Types, vars
  <1> QED
    BY StepCases, <1>1, <1>2, <1>3, <1>4, <1>5, <1>6, <1>7, <1>8, <1>9, Zenon

\* Every variable has its type in every state.
LEMMA TypesHold == Spec => []Types
  BY TypesInit, TypesStep, PTL DEF Spec

----------------------------------------------------------------------------
(* Ticket keys. *)

\* The key rings of all shards follow the clock in every state.
LEMMA KeysInStepHolds == Spec => []KeysInStep
  <1>1. Init => KeysInStep
    BY DEF Init, KeysInStep, NoKey
  <1>2. Types /\ KeysInStep /\ [Next]_vars => KeysInStep'
    <2> SUFFICES ASSUME Types, KeysInStep, [Next]_vars PROVE KeysInStep'
      BY Zenon
    <2> DEFINE InStep(k) == k = NoKeys \/ (k.current >= 1 /\ k.previous = k.current - 1)
    <2>1. /\ rotator.current \in Nat /\ rotator.current >= 1
          /\ rotator.previous = rotator.current - 1
          /\ \A s \in Shards : InStep(keys[s])
          /\ \A i \in 1 .. Len(tickets) : tickets[i].key >= 1
      BY Zenon DEF KeysInStep, Types
    <2>2. SUFFICES /\ rotator'.current >= 1 /\ rotator'.previous = rotator'.current - 1
                   /\ \A s \in Shards : InStep(keys'[s])
                   /\ \A i \in 1 .. Len(tickets') : tickets'[i].key >= 1
      BY Zenon DEF KeysInStep
    <2>3. ASSUME NEW s \in Shards, InstallIssuingKeys(s) \/ InstallAcceptingKeys(s)
          PROVE  /\ rotator'.current >= 1 /\ rotator'.previous = rotator'.current - 1
                 /\ \A r \in Shards : InStep(keys'[r])
                 /\ tickets' = tickets
      <3>1. rotator'.current >= 1 /\ rotator'.previous = rotator'.current - 1
        BY <2>1, <2>3, KeysTyped, SMTT(30)
      <3>2. /\ tickets' = tickets
            /\ keys' = [keys EXCEPT ![s] = [current |-> rotator'.current,
                                             previous |-> rotator'.previous]]
            /\ keys \in [Shards -> [current : Nat, previous : Nat]]
        BY <2>3, KeysTyped, Zenon DEF Types
      <3>3. InStep([current |-> rotator'.current, previous |-> rotator'.previous])
        BY <3>1, Zenon
      <3> HIDE DEF InStep
      <3> QED
        BY <3>1, <3>2, <3>3, <2>1, Zenon
    <2>4. ASSUME NEW s \in Shards, NEW add \in AgeAdds, IssueTicket(s, add)
          PROVE  /\ rotator' = rotator /\ keys' = keys
                 /\ \A i \in 1 .. Len(tickets') : tickets'[i].key >= 1
      <3>1. keys[s].current >= 1
        BY <2>1, <2>4, Zenon DEF IssueTicket
      <3>2. /\ Len(tickets') = Len(tickets) + 1
            /\ \A i \in 1 .. Len(tickets) : tickets'[i] = tickets[i]
            /\ tickets'[Len(tickets) + 1] =
                  [key |-> keys[s].current, issuedAt |-> ClockOf(s),
                   domain |-> domain[StoreOf[s]], ageAdd |-> add,
                   issuer |-> s, received |-> NotYet]
        BY <2>4, IssueEffect, Zenon
      <3>3. tickets'[Len(tickets) + 1].key = keys[s].current
        BY <3>2
      <3> QED
        BY <2>1, <2>4, <3>1, <3>2, <3>3, Parts DEF IssueTicket
    <2>5. ASSUME NEW i \in 1 .. Len(tickets), ReceiveTicket(i)
          PROVE  /\ rotator' = rotator /\ keys' = keys
                 /\ \A j \in 1 .. Len(tickets') : tickets'[j].key >= 1
      BY <2>1, <2>5, ReceiveEffect DEF ReceiveTicket
    <2>6. CASE UNCHANGED <<rotator, keys, tickets>>
      BY <2>1, <2>6, Zenon
    <2> HIDE DEF InStep
    <2> QED
      BY StepCases, <2>1, <2>3, <2>4, <2>5, <2>6, Zenon
         DEF Tick, Offer, Deliver, Forget, ResetStore, vars
  <1> QED
    BY <1>1, <1>2, TypesHold, PTL DEF Spec

\* A shard opens the tickets of its key and of the one before it, and no
\* others, whatever order shards fetch keys in and however far a shard lags
\* behind the Rotator (crypto/ticket/keys.rs).
THEOREM AlwaysOpensOneRotationBack == Spec => []OpensOneRotationBack
  <1>1. Types /\ KeysInStep => OpensOneRotationBack
    <2> SUFFICES ASSUME Types, KeysInStep,
                        NEW s \in Shards, NEW i \in DOMAIN tickets, keys[s] # NoKeys
                 PROVE  OpensTicket(s, tickets[i])
                            <=> keys[s].current - tickets[i].key \in {0, 1}
      BY Zenon DEF OpensOneRotationBack
    <2>1. tickets[i].key \in Nat /\ keys[s].current \in Nat /\ keys[s].previous \in Nat
      <3>1. tickets[i] \in Ticket
        BY Parts, Zenon
      <3>2. tickets[i].key \in Nat
        BY <3>1, Fields, Zenon
      <3> QED
        BY <3>2, Zenon DEF Types
    <2>2. tickets[i].key >= 1 /\ keys[s].current >= 1 /\ keys[s].previous = keys[s].current - 1
      BY Parts, Zenon DEF KeysInStep
    <2>3. \A k, c, p \in Nat : k >= 1 /\ c >= 1 /\ p = c - 1
                                 => ((k = c \/ (p # 0 /\ k = p)) <=> c - k \in {0, 1})
      OBVIOUS
    <2>4. (tickets[i].key = keys[s].current
             \/ (keys[s].previous # 0 /\ tickets[i].key = keys[s].previous))
          <=> keys[s].current - tickets[i].key \in {0, 1}
      BY <2>1, <2>2, <2>3, ZenonT(40)
    <2> QED
      BY <2>4, Zenon DEF OpensTicket, NoKey
  <1> QED
    BY <1>1, TypesHold, KeysInStepHolds, PTL

----------------------------------------------------------------------------
(* Times. *)

\* Nothing that happened is undone: a step adds to the three sequences, and of
\* a ticket only fills in when it was received.
LEMMA Kept ==
    ASSUME Types, [Next]_vars
    PROVE  /\ now' \in Nat /\ now' >= now
           /\ Len(tickets') \in Nat /\ Len(tickets') >= Len(tickets)
           /\ \A i \in 1 .. Len(tickets) :
                 /\ tickets'[i].domain = tickets[i].domain
                 /\ tickets'[i].issuedAt = tickets[i].issuedAt
                 /\ tickets'[i].ageAdd = tickets[i].ageAdd
                 /\ tickets'[i].issuer = tickets[i].issuer
                 /\ tickets[i].received # NotYet => tickets'[i].received = tickets[i].received
           /\ Len(hellos') \in Nat /\ Len(hellos') >= Len(hellos)
           /\ \A h \in 1 .. Len(hellos) : hellos'[h] = hellos[h]
           /\ Len(accepted') \in Nat /\ Len(accepted') >= Len(accepted)
           /\ \A i \in 1 .. Len(accepted) : accepted'[i] = accepted[i]
  <1> DEFINE T == /\ Len(tickets') \in Nat /\ Len(tickets') >= Len(tickets)
                  /\ \A i \in 1 .. Len(tickets) :
                        /\ tickets'[i].domain = tickets[i].domain
                        /\ tickets'[i].issuedAt = tickets[i].issuedAt
                        /\ tickets'[i].ageAdd = tickets[i].ageAdd
                        /\ tickets'[i].issuer = tickets[i].issuer
                        /\ tickets[i].received # NotYet
                              => tickets'[i].received = tickets[i].received
             H == /\ Len(hellos') \in Nat /\ Len(hellos') >= Len(hellos)
                  /\ \A h \in 1 .. Len(hellos) : hellos'[h] = hellos[h]
             A == /\ Len(accepted') \in Nat /\ Len(accepted') >= Len(accepted)
                  /\ \A i \in 1 .. Len(accepted) : accepted'[i] = accepted[i]
             N == now' \in Nat /\ now' >= now
  <1>0. /\ UNCHANGED now => N
        /\ UNCHANGED tickets => T
        /\ UNCHANGED hellos => H
        /\ UNCHANGED accepted => A
    BY Parts, SMTT(30) DEF Types
  <1>1. Tick => N
    BY DEF Tick, Types
  <1>2. ASSUME NEW s \in Shards, NEW add \in AgeAdds, IssueTicket(s, add) PROVE T
    <2>1. /\ Len(tickets') = Len(tickets) + 1
          /\ \A i \in 1 .. Len(tickets) : tickets'[i] = tickets[i]
      BY <1>2, IssueEffect, Zenon
    <2> QED
      BY <2>1, Parts
  <1>3. ASSUME NEW i \in 1 .. Len(tickets), ReceiveTicket(i) PROVE T
    <2>1. /\ Len(tickets') = Len(tickets)
          /\ \A j \in 1 .. Len(tickets) : j # i => tickets'[j] = tickets[j]
          /\ tickets[i].received = NotYet
          /\ tickets'[i].domain = tickets[i].domain
          /\ tickets'[i].issuedAt = tickets[i].issuedAt
          /\ tickets'[i].ageAdd = tickets[i].ageAdd /\ tickets'[i].issuer = tickets[i].issuer
      BY <1>3, ReceiveEffect, Zenon
    <2> QED
      BY <2>1, Parts
  <1>4. ASSUME NEW i \in 1 .. Len(tickets), Offer(i) PROVE H
    <2>1. /\ Len(hellos') = Len(hellos) + 1
          /\ \A h \in 1 .. Len(hellos) : hellos'[h] = hellos[h]
      BY <1>4, OfferEffect, Zenon
    <2> QED
      BY <2>1, Parts
  <1>5. ASSUME NEW h \in 1 .. Len(hellos), NEW s \in Shards, Deliver(h, s) PROVE A
    <2>1. /\ Len(accepted') = Len(accepted) + 1
          /\ \A i \in 1 .. Len(accepted) : accepted'[i] = accepted[i]
      BY <1>5, DeliverEffect, Zenon
    <2> QED
      BY <2>1, Parts
  <1>6. (\E s \in Shards : InstallIssuingKeys(s) \/ InstallAcceptingKeys(s))
            => UNCHANGED <<now, tickets, hellos, accepted>>
    BY KeysTyped, Zenon
  <1> HIDE DEF T, H, A, N
  <1>7. N /\ T /\ H /\ A
    BY StepCases, <1>0, <1>1, <1>2, <1>3, <1>4, <1>5, <1>6, Zenon
       DEF Tick, IssueTicket, ReceiveTicket, Offer, Deliver, Forget, ResetStore, vars
  <1> QED
    BY <1>7, Zenon DEF N, T, H, A

\* The times of a ticket and of a hello as numbers, with the ticket of the hello.
LEMMA TicketTimes ==
    ASSUME Types, NEW i \in 1 .. Len(tickets)
    PROVE  /\ tickets[i] \in Ticket
           /\ tickets[i].issuedAt \in Nat /\ ClockAhead[tickets[i].issuer] \in Nat
           /\ tickets[i].issuer \in Shards /\ tickets[i].domain \in Stores \X Nat
           /\ tickets[i].received # NotYet => tickets[i].received \in Nat
           /\ tickets[i].ageAdd \in 0 .. AgeModulus - 1
  <1>1. tickets[i] \in Ticket
    BY Parts, Zenon
  <1>2. /\ tickets[i].issuedAt \in Nat /\ tickets[i].issuer \in Shards
        /\ tickets[i].ageAdd \in AgeAdds /\ tickets[i].domain \in Stores \X Nat
        /\ tickets[i].received \in Nat \cup {NotYet}
    BY <1>1, Fields, Zenon
  <1> QED
    BY <1>1, <1>2, Constants, Zenon

\* Every step leaves tickets and hellos with times that can have come about.
LEMMA InTimeStep ==
    ASSUME Types, InTime, [Next]_vars
    PROVE  InTime'
  <1> USE Parts
  <1>1. /\ \A i \in 1 .. Len(tickets) : TicketInTime(tickets[i])
        /\ \A h \in 1 .. Len(hellos) : HelloInTime(hellos[h])
    BY Zenon DEF InTime
  <1>2. ASSUME NEW i \in 1 .. Len(tickets),
               tickets'[i].received = tickets[i].received
        PROVE  TicketInTime(tickets[i])'
    <2>1. TicketInTime(tickets[i])
      BY <1>1, Zenon
    <2>2. /\ tickets'[i].issuedAt = tickets[i].issuedAt /\ tickets'[i].issuer = tickets[i].issuer
          /\ now' \in Nat /\ now' >= now /\ now \in Nat
      BY Kept, ZenonT(40) DEF Types
    <2> QED
      BY <1>2, <2>1, <2>2, TicketTimes, SMTT(30) DEF TicketInTime
  <1>3. ASSUME NEW h \in 1 .. Len(hellos)
        PROVE  HelloInTime(hellos[h])'
    <2> DEFINE i == hellos[h].ticket
    <2>1. HelloInTime(hellos[h])
      BY <1>1, Zenon
    <2>2. hellos'[h] = hellos[h] /\ hellos[h].sentAt \in Nat /\ now \in Nat
      BY Kept, Fields, Zenon DEF Types
    <2>3. i \in 1 .. Len(tickets) /\ tickets[i].received # NotYet
      BY <2>1, Zenon DEF HelloInTime
    <2>4. /\ tickets'[i].received = tickets[i].received
          /\ tickets'[i].ageAdd = tickets[i].ageAdd
          /\ i \in 1 .. Len(tickets')
          /\ now' \in Nat /\ now' >= now
      BY <2>3, Kept, SMTT(30)
    <2> QED
      BY <2>1, <2>2, <2>3, <2>4 DEF HelloInTime
  <1>4. \A i \in 1 .. Len(tickets') : TicketInTime(tickets[i])'
    <2>1. CASE \E s \in Shards, add \in AgeAdds : IssueTicket(s, add)
      <3>1. PICK s \in Shards, add \in AgeAdds : IssueTicket(s, add)
        BY <2>1, Zenon
      <3>a. PICK n \in Nat : n = Len(tickets) + 1
        OBVIOUS
      <3>2. /\ Len(tickets') = n
            /\ \A i \in 1 .. Len(tickets) : tickets'[i] = tickets[i]
            /\ tickets'[n] = [key |-> keys[s].current, issuedAt |-> ClockOf(s),
                              domain |-> domain[StoreOf[s]], ageAdd |-> add,
                              issuer |-> s, received |-> NotYet]
        BY <3>1, <3>a, IssueEffect, Zenon
      <3>3. /\ tickets'[n].issuedAt = now + ClockAhead[s] /\ tickets'[n].issuer = s
            /\ tickets'[n].received = NotYet /\ now' = now
        BY <3>1, <3>2 DEF ClockOf, IssueTicket
      <3>4. TicketInTime(tickets[n])'
        BY <3>3, Constants, SMTT(30) DEF TicketInTime, Types
      <3>5. \A i \in 1 .. n : i = n \/ i \in 1 .. Len(tickets)
        BY <3>a
      <3> QED
        BY <3>2, <3>4, <3>5, <1>2, Zenon
    <2>2. CASE \E i \in 1 .. Len(tickets) : ReceiveTicket(i)
      <3>1. PICK i \in 1 .. Len(tickets) : ReceiveTicket(i)
        BY <2>2, Zenon
      <3>2. /\ Len(tickets') = Len(tickets) /\ tickets'[i].received = now /\ now' = now
            /\ tickets'[i].issuedAt = tickets[i].issuedAt /\ tickets'[i].issuer = tickets[i].issuer
            /\ \A j \in 1 .. Len(tickets) : j # i => tickets'[j] = tickets[j]
        BY <3>1, ReceiveEffect, Zenon DEF ReceiveTicket
      <3>3. TicketInTime(tickets[i]) /\ now \in Nat
        BY <1>1, Zenon DEF Types
      <3>4. TicketInTime(tickets[i])'
        BY <3>2, <3>3, TicketTimes DEF TicketInTime
      <3> QED
        BY <3>2, <3>4, <1>2, Zenon
    <2>3. CASE UNCHANGED tickets
      BY <2>3, <1>2, Zenon
    <2> QED
      BY StepCases, <2>1, <2>2, <2>3, KeysTyped, Zenon
         DEF Tick, Offer, Deliver, Forget, ResetStore, vars
  <1>5. \A h \in 1 .. Len(hellos') : HelloInTime(hellos[h])'
    <2>1. CASE \E i \in 1 .. Len(tickets) : Offer(i)
      <3>1. PICK i \in 1 .. Len(tickets) : Offer(i)
        BY <2>1, Zenon
      <3>a. PICK n \in Nat : n = Len(hellos) + 1
        OBVIOUS
      <3>2. /\ Len(hellos') = n
            /\ hellos'[n] = [ticket |-> i, sentAt |-> now,
                             age |-> ((now - tickets[i].received) + tickets[i].ageAdd) % AgeModulus]
            /\ tickets[i].received # NotYet
            /\ now - tickets[i].received <= TICKET_LIFETIME_MS
        BY <3>1, <3>a, OfferEffect, Zenon
      <3>3. /\ hellos'[n].ticket = i /\ hellos'[n].sentAt = now
            /\ hellos'[n].age = ((now - tickets[i].received) + tickets[i].ageAdd) % AgeModulus
            /\ now' = now /\ tickets' = tickets
        BY <3>1, <3>2 DEF Offer
      <3>4. tickets[i].received <= now
        BY <1>1, <3>2, Zenon DEF TicketInTime
      <3>5. HelloInTime(hellos[n])'
        BY <3>2, <3>3, <3>4, SMTT(30) DEF HelloInTime, Types
      <3>6. \A h \in 1 .. n : h = n \/ h \in 1 .. Len(hellos)
        BY <3>a
      <3> QED
        BY <3>2, <3>5, <3>6, <1>3, Zenon
    <2>2. CASE UNCHANGED hellos
      BY <2>2, <1>3, Zenon
    <2> QED
      BY StepCases, <2>1, <2>2, KeysTyped, Zenon
         DEF Tick, IssueTicket, ReceiveTicket, Deliver, Forget, ResetStore, vars
  <1> QED
    BY <1>4, <1>5, Zenon DEF InTime

\* The times in tickets and hellos are in order in every state.
LEMMA InTimeHolds == Spec => [](Types /\ InTime)
  <1>1. Init => InTime
    BY DEF Init, InTime
  <1> QED
    BY <1>1, InTimeStep, TypesInit, TypesStep, PTL DEF Spec

\* The age that the server recovers from a hello is the time the client really
\* held the ticket, wherever ticket_age_add makes the sum wrap
\* (obfuscated_ticket_age and the wrapping_sub of EarlyData::admit).
LEMMA ClaimedAgeIsTrue ==
    ASSUME Types, InTime, NEW h \in 1 .. Len(hellos)
    PROVE  /\ hellos[h].ticket \in 1 .. Len(tickets)
           /\ hellos[h].sentAt \in Nat /\ hellos[h].sentAt <= now
           /\ tickets[hellos[h].ticket].received \in Nat
           /\ TicketInTime(tickets[hellos[h].ticket])
           /\ tickets[hellos[h].ticket].received # NotYet
           /\ ClaimedAge(h) = hellos[h].sentAt - tickets[hellos[h].ticket].received
  <1> DEFINE i == hellos[h].ticket
             x == hellos[h].sentAt - tickets[i].received
  <1>1. HelloInTime(hellos[h]) /\ hellos[h] \in Hello
    BY Parts, Zenon DEF InTime
  <1>2. /\ i \in 1 .. Len(tickets) /\ tickets[i].received # NotYet
        /\ tickets[i].received <= hellos[h].sentAt /\ hellos[h].sentAt <= now
        /\ x <= TICKET_LIFETIME_MS
        /\ hellos[h].age = (x + tickets[i].ageAdd) % AgeModulus
    BY <1>1, Zenon DEF HelloInTime
  <1>3. /\ tickets[i].received \in Nat /\ hellos[h].sentAt \in Nat
        /\ tickets[i].ageAdd \in 0 .. AgeModulus - 1
    BY <1>1, <1>2, TicketTimes, Fields, Zenon
  <1>4. x \in 0 .. AgeModulus - 1
    <2>1. \A v, r, k, m \in Nat : r <= v /\ v - r <= k /\ m > k => v - r \in 0 .. m - 1
      OBVIOUS
    <2>2. TICKET_LIFETIME_MS \in Nat /\ AgeModulus \in Nat /\ AgeModulus > TICKET_LIFETIME_MS
      BY Constants, Zenon
    <2> QED
      BY <1>2, <1>3, <2>1, <2>2, SMTT(30)
  <1>5. (((x + tickets[i].ageAdd) % AgeModulus) - tickets[i].ageAdd) % AgeModulus = x
    <2> HIDE DEF x, i
    <2> QED
      BY <1>3, <1>4, Constants, WrapBack, Zenon
  <1>6. ClaimedAge(h) = x
    BY <1>2, <1>5, Zenon DEF ClaimedAge
  <1> QED
    BY <1>2, <1>3, <1>6, Zenon DEF InTime

\* What is delivered late by more than the skew and the drift of the clocks is
\* not admitted (the age check of EarlyData::admit).
LEMMA AdmittedPromptly ==
    ASSUME Types, InTime, NEW h \in 1 .. Len(hellos), NEW s \in Shards, Admits(s, h)
    PROVE  now - hellos[h].sentAt <= MAX_TICKET_AGE_SKEW_MS + MaxDrift
  <1> DEFINE t == tickets[hellos[h].ticket]
  <1>1. (now + ClockAhead[s]) - t.issuedAt - ClaimedAge(h) <= MAX_TICKET_AGE_SKEW_MS
    BY Zenon DEF Admits, AgeMatches, ClockOf
  <1>2. /\ ClaimedAge(h) = hellos[h].sentAt - t.received
        /\ t.issuedAt <= t.received + ClockAhead[t.issuer]
        /\ t.received \in Nat /\ hellos[h].sentAt \in Nat
        /\ t.issuedAt \in Nat /\ t.issuer \in Shards
    BY ClaimedAgeIsTrue, TicketTimes, Zenon DEF TicketInTime
  <1>3. /\ ClockAhead[s] \in Nat /\ ClockAhead[t.issuer] \in Nat
        /\ ClockAhead[t.issuer] - ClockAhead[s] <= MaxDrift
        /\ MAX_TICKET_AGE_SKEW_MS \in Nat /\ MaxDrift \in Nat /\ now \in Nat
    BY <1>2, Constants, Zenon DEF Types
  <1> HIDE DEF t
  <1>4. PICK v \in Nat, r \in Nat, i \in Nat, c \in Nat, d \in Nat :
            /\ v = hellos[h].sentAt /\ r = t.received /\ i = t.issuedAt
            /\ c = ClockAhead[s] /\ d = ClockAhead[t.issuer]
    BY <1>2, <1>3, Zenon
  <1>5. (now + c) - i - (v - r) <= MAX_TICKET_AGE_SKEW_MS /\ i <= r + d /\ d - c <= MaxDrift
    BY <1>1, <1>2, <1>3, <1>4, Zenon
  <1>6. now - v <= MAX_TICKET_AGE_SKEW_MS + MaxDrift
    BY <1>3, <1>5, SMTT(30)
  <1> QED
    BY <1>4, <1>6, Zenon

\* Early data is accepted in the window of its hello in every state.
LEMMA AcceptedInTimeHolds == Spec => []AcceptedInTime
  <1>1. Init => AcceptedInTime
    BY DEF Init, AcceptedInTime
  <1>2. Types /\ InTime /\ AcceptedInTime /\ [Next]_vars => AcceptedInTime'
    <2> SUFFICES ASSUME Types, InTime, AcceptedInTime, [Next]_vars PROVE AcceptedInTime'
      BY Zenon
    <2> DEFINE Timely(i) == /\ accepted[i].hello \in 1 .. Len(hellos)
                         /\ hellos[accepted[i].hello].sentAt <= accepted[i].at
                         /\ accepted[i].at <= now
                         /\ accepted[i].at - hellos[accepted[i].hello].sentAt
                               <= MAX_TICKET_AGE_SKEW_MS + MaxDrift
    <2>1. SUFFICES ASSUME NEW i \in 1 .. Len(accepted') PROVE Timely(i)'
      BY Zenon DEF AcceptedInTime
    <2>2. CASE i \in 1 .. Len(accepted)
      <3>1. Timely(i) /\ accepted'[i] = accepted[i] /\ accepted[i] \in Acceptance
        BY <2>2, Kept, Parts, Zenon DEF AcceptedInTime
      <3>2. accepted[i].at \in Nat /\ now \in Nat
        BY <3>1, Fields, Zenon DEF Types
      <3>3. /\ hellos'[accepted[i].hello] = hellos[accepted[i].hello]
            /\ accepted[i].hello \in 1 .. Len(hellos')
            /\ now' \in Nat /\ now' >= now
        BY <3>1, Kept, Parts, SMTT(30)
      <3> QED
        BY <3>1, <3>2, <3>3, SMTT(30)
    <2>3. CASE i \notin 1 .. Len(accepted)
      <3>1. PICK h \in 1 .. Len(hellos), s \in Shards : Deliver(h, s)
        BY <2>3, StepCases, KeysTyped, Zenon
           DEF Tick, IssueTicket, ReceiveTicket, Offer, Forget, ResetStore, vars
      <3>2. /\ Len(accepted') = Len(accepted) + 1
            /\ accepted'[Len(accepted) + 1] = [hello |-> h, shard |-> s, at |-> now]
        BY <3>1, DeliverEffect, Zenon
      <3>3. i = Len(accepted) + 1
        BY <2>3, <3>2, Parts
      <3>4. accepted'[i].hello = h /\ accepted'[i].at = now
        BY <3>2, <3>3
      <3>5. /\ hellos' = hellos /\ now' = now /\ Admits(s, h)
        BY <3>1, Zenon DEF Deliver
      <3>6. /\ hellos[h].sentAt <= now
            /\ now - hellos[h].sentAt <= MAX_TICKET_AGE_SKEW_MS + MaxDrift
        BY <3>5, AdmittedPromptly, ClaimedAgeIsTrue, Zenon
      <3> QED
        BY <3>4, <3>5, <3>6 DEF Types
    <2> QED
      BY <2>2, <2>3, Zenon
  <1> QED
    BY <1>1, <1>2, InTimeHolds, PTL DEF Spec

\* Early data is accepted only soon after it was sent: within the allowed skew
\* and the drift of the shards' clocks (the age check of EarlyData::admit).
THEOREM AlwaysAcceptedPromptly == Spec => []AcceptedPromptly
  <1>1. Types /\ AcceptedInTime => AcceptedPromptly
    BY Parts, Zenon DEF AcceptedInTime, AcceptedPromptly
  <1> QED
    BY <1>1, TypesHold, AcceptedInTimeHolds, PTL

----------------------------------------------------------------------------
(* Replay domains and stores. *)

\* No two stores, and no store before and after a reset, share a domain.
LEMMA DomainsDistinctHolds == Spec => []DomainsDistinct
  <1>1. Init => DomainsDistinct
    BY DEF Init, DomainsDistinct
  <1>2. Types /\ DomainsDistinct /\ [Next]_vars => DomainsDistinct'
    <2> SUFFICES ASSUME Types, DomainsDistinct, [Next]_vars PROVE DomainsDistinct'
      BY Zenon
    <2>1. /\ \A g \in Stores : domain[g] \in Stores \X Nat
          /\ \A i \in 1 .. Len(tickets) : tickets[i].domain \in Stores \X Nat
          /\ resets \in Nat
      BY TicketTimes, Zenon DEF Types
    <2>2. ASSUME NEW s \in Shards, NEW add \in AgeAdds, IssueTicket(s, add)
          PROVE  DomainsDistinct'
      <3>1. /\ Len(tickets') = Len(tickets) + 1
            /\ \A i \in 1 .. Len(tickets) : tickets'[i] = tickets[i]
            /\ tickets'[Len(tickets) + 1] =
                  [key |-> keys[s].current, issuedAt |-> ClockOf(s),
                   domain |-> domain[StoreOf[s]], ageAdd |-> add,
                   issuer |-> s, received |-> NotYet]
        BY <2>2, IssueEffect, ZenonT(40)
      <3>2. tickets'[Len(tickets) + 1].domain = domain[StoreOf[s]]
        BY <3>1
      <3>3. domain' = domain /\ resets' = resets /\ StoreOf[s] \in Stores
        BY <2>2, Constants, ZenonT(40) DEF IssueTicket
      <3>4. \A i \in 1 .. Len(tickets') : i = Len(tickets) + 1 \/ i \in 1 .. Len(tickets)
        BY <3>1, Parts
      <3> QED
        BY <3>1, <3>2, <3>3, <3>4, Zenon DEF DomainsDistinct
    <2>3. ASSUME NEW i \in 1 .. Len(tickets), ReceiveTicket(i) PROVE DomainsDistinct'
      <3>1. Len(tickets') = Len(tickets) /\ domain' = domain /\ resets' = resets
        BY <2>3, ReceiveEffect, Zenon DEF ReceiveTicket
      <3>2. \A j \in 1 .. Len(tickets) : tickets'[j].domain = tickets[j].domain
        BY Kept, Zenon
      <3> QED
        BY <3>1, <3>2, Zenon DEF DomainsDistinct
    <2>4. ASSUME NEW g \in Stores, ResetStore(g) PROVE DomainsDistinct'
      <3>1. /\ resets' = resets + 1 /\ domain'[g] = <<g, resets + 1>>
            /\ \A f \in Stores \ {g} : domain'[f] = domain[f]
            /\ tickets' = tickets
        BY <2>4, ResetEffect, Zenon
      <3>2. \A f \in Stores : domain'[f][1] = f /\ domain'[f][2] <= resets'
        BY <2>1, <3>1 DEF DomainsDistinct
      <3>3. \A i \in 1 .. Len(tickets) : tickets[i].domain[2] <= resets'
        BY <2>1, <3>1, SMTT(30) DEF DomainsDistinct
      <3> QED
        BY <3>1, <3>2, <3>3, Zenon DEF DomainsDistinct
    <2>5. CASE UNCHANGED <<domain, resets, tickets>>
      BY <2>5, Zenon DEF DomainsDistinct
    <2> QED
      BY StepCases, KeysTyped, <2>2, <2>3, <2>4, <2>5, Zenon
         DEF Tick, Offer, Deliver, Forget, vars
  <1> QED
    BY <1>1, <1>2, TypesHold, PTL DEF Spec

\* The ticket of an acceptance is one that was issued, and keeps its domain.
LEMMA AcceptanceKept ==
    ASSUME Types, InTime, AcceptedInTime, [Next]_vars, NEW i \in 1 .. Len(accepted)
    PROVE  /\ i \in 1 .. Len(accepted') /\ accepted'[i] = accepted[i]
           /\ TicketOf(i)'.domain = TicketOf(i).domain
           /\ TokenOf(i)' = TokenOf(i)
           /\ accepted[i].hello \in 1 .. Len(hellos)
           /\ hellos[accepted[i].hello].ticket \in 1 .. Len(tickets)
           /\ TicketOf(i).domain \in Stores \X Nat
  <1>1. accepted'[i] = accepted[i] /\ i \in 1 .. Len(accepted')
    BY Kept, Parts
  <1>2. accepted[i].hello \in 1 .. Len(hellos)
    BY Zenon DEF AcceptedInTime
  <1>3. hellos'[accepted[i].hello] = hellos[accepted[i].hello]
    BY <1>2, Kept, Zenon
  <1>4. hellos[accepted[i].hello].ticket \in 1 .. Len(tickets)
    BY <1>2, ClaimedAgeIsTrue, Zenon
  <1>5. /\ tickets'[hellos[accepted[i].hello].ticket].domain
              = tickets[hellos[accepted[i].hello].ticket].domain
        /\ tickets[hellos[accepted[i].hello].ticket].domain \in Stores \X Nat
    BY <1>4, Kept, TicketTimes, Zenon
  <1> QED
    BY <1>1, <1>2, <1>3, <1>4, <1>5, Zenon DEF TicketOf, TokenOf

\* What was accepted is guarded, by its token or by its expired window, in every state.
LEMMA GuardedHolds == Spec => []Guarded
  <1>1. Init => Guarded
    BY DEF Init, Guarded
  <1>2. Types /\ InTime /\ AcceptedInTime /\ DomainsDistinct /\ Guarded /\ [Next]_vars => Guarded'
    <2> SUFFICES ASSUME Types, InTime, AcceptedInTime, DomainsDistinct, Guarded, [Next]_vars,
                        NEW i \in 1 .. Len(accepted'), NEW g \in Stores,
                        TicketOf(i)'.domain = domain'[g]
                 PROVE  TokenOf(i)' \in store'[g] \/ now' - accepted'[i].at >= TICKET_LIFETIME_MS
      BY Zenon DEF Guarded
    <2>1. CASE i \in 1 .. Len(accepted)
      <3>1. /\ accepted'[i] = accepted[i] /\ TokenOf(i)' = TokenOf(i)
            /\ TicketOf(i).domain = domain'[g]
            /\ hellos[accepted[i].hello].ticket \in 1 .. Len(tickets)
        BY <2>1, AcceptanceKept, Zenon
      <3>2. TicketOf(i).domain = domain[g] =>
                TokenOf(i) \in store[g] \/ now - accepted[i].at >= TICKET_LIFETIME_MS
        BY <2>1, Zenon DEF Guarded
      <3>3. now - accepted[i].at >= TICKET_LIFETIME_MS => now' - accepted[i].at >= TICKET_LIFETIME_MS
        <4>1. accepted[i].at \in Nat /\ now \in Nat /\ now' \in Nat /\ now' >= now
          BY <2>1, Parts, Fields, Kept, Zenon DEF Types
        <4> QED
          BY <4>1, Constants, SMTT(30)
      <3>4. CASE UNCHANGED <<domain, store>>
        BY <3>1, <3>2, <3>3, <3>4, Zenon
      <3>5. ASSUME NEW h \in 1 .. Len(hellos), NEW s \in Shards, Deliver(h, s)
            PROVE  domain' = domain /\ store[g] \subseteq store'[g]
        BY <3>5, DeliverEffect, Zenon DEF Deliver
      <3>6. ASSUME NEW f \in Stores, Forget(f)
            PROVE  TokenOf(i) \in store'[g] \/ now' - accepted[i].at >= TICKET_LIFETIME_MS
        <4>1. /\ domain' = domain /\ now' = now
              /\ \A e \in store[g] : e \in store'[g] \/ now - e.at >= TICKET_LIFETIME_MS
          BY <3>6, ForgetEffect, Zenon
        <4>2. TokenOf(i).at = accepted[i].at
          BY Zenon DEF TokenOf
        <4> QED
          BY <3>1, <3>2, <4>1, <4>2, Zenon
      <3>7. ASSUME NEW f \in Stores, ResetStore(f)
            PROVE  domain'[g] = domain[g] /\ store'[g] = store[g]
        <4>1. g # f
          <5>1. TicketOf(i).domain[2] <= resets
            BY <3>1, Zenon DEF DomainsDistinct, TicketOf
          <5>2. domain'[f] = <<f, resets + 1>> /\ resets \in Nat
            BY <3>7, ResetEffect, Zenon DEF Types
          <5> QED
            BY <3>1, <5>1, <5>2
        <4> QED
          BY <3>7, <4>1, ResetEffect, Zenon
      <3>8. domain'[g] = domain[g] /\ store[g] \subseteq store'[g]
              => TokenOf(i) \in store'[g] \/ now' - accepted[i].at >= TICKET_LIFETIME_MS
        BY <3>1, <3>2, <3>3, Zenon
      <3>9. TokenOf(i) \in store'[g] \/ now' - accepted[i].at >= TICKET_LIFETIME_MS
        BY StepCases, KeysTyped, <3>1, <3>4, <3>5, <3>6, <3>7, <3>8, Zenon
           DEF Tick, IssueTicket, ReceiveTicket, Offer, vars
      <3> QED
        BY <3>1, <3>9, Zenon
    <2>2. CASE i \notin 1 .. Len(accepted)
      <3>1. PICK h \in 1 .. Len(hellos), s \in Shards : Deliver(h, s)
        BY <2>2, StepCases, KeysTyped, Zenon
           DEF Tick, IssueTicket, ReceiveTicket, Offer, Forget, ResetStore, vars
      <3>2. /\ Len(accepted') = Len(accepted) + 1
            /\ accepted'[Len(accepted) + 1] = [hello |-> h, shard |-> s, at |-> now]
            /\ [token |-> h, at |-> now] \in store'[StoreOf[s]]
        BY <3>1, DeliverEffect, Zenon
      <3>3. i = Len(accepted) + 1
        BY <2>2, <3>2, Parts
      <3>4. accepted'[i].hello = h /\ accepted'[i].at = now
        BY <3>2, <3>3
      <3>5. /\ hellos' = hellos /\ tickets' = tickets /\ domain' = domain
            /\ tickets[hellos[h].ticket].domain = domain[StoreOf[s]]
        BY <3>1, Zenon DEF Deliver, Admits, AllowedHere
      <3>6. domain[g] = domain[StoreOf[s]] /\ StoreOf[s] \in Stores
        BY <3>4, <3>5, Constants, Zenon DEF TicketOf
      <3>7. g = StoreOf[s]
        BY <3>6, Zenon DEF DomainsDistinct
      <3>8. TokenOf(i)' = [token |-> h, at |-> now]
        BY <3>4, Zenon DEF TokenOf
      <3> QED
        BY <3>2, <3>7, <3>8, Zenon
    <2> QED
      BY <2>1, <2>2, Zenon
  <1> QED
    BY <1>1, <1>2, InTimeHolds, AcceptedInTimeHolds, DomainsDistinctHolds, PTL DEF Spec

\* Each hello is accepted once at most in every state.
LEMMA OnceEachHolds == Spec => []OnceEach
  <1>1. Init => OnceEach
    BY DEF Init, OnceEach
  <1>2. Types /\ InTime /\ AcceptedInTime /\ Guarded /\ OnceEach /\ [Next]_vars => OnceEach'
    <2> SUFFICES ASSUME Types, InTime, AcceptedInTime, Guarded, OnceEach, [Next]_vars
                 PROVE  OnceEach'
      BY Zenon
    <2>1. ASSUME NEW h \in 1 .. Len(hellos), NEW s \in Shards, Deliver(h, s)
          PROVE  OnceEach'
      <3>1. /\ Len(accepted') = Len(accepted) + 1
            /\ accepted'[Len(accepted) + 1] = [hello |-> h, shard |-> s, at |-> now]
            /\ \A i \in 1 .. Len(accepted) : accepted'[i] = accepted[i]
        BY <2>1, DeliverEffect, Zenon
      <3>2. accepted'[Len(accepted) + 1].hello = h
        BY <3>1
      <3>3. ASSUME NEW i \in 1 .. Len(accepted), accepted[i].hello = h PROVE FALSE
        <4>1. /\ StoreOf[s] \in Stores /\ Admits(s, h)
              /\ TicketOf(i).domain = domain[StoreOf[s]]
              /\ \A e \in store[StoreOf[s]] : e.token # h
          BY <2>1, <3>3, Constants, Zenon DEF Deliver, Admits, AllowedHere, TicketOf, Registers
        <4>2. TokenOf(i) \notin store[StoreOf[s]]
          BY <3>3, <4>1, Zenon DEF TokenOf
        <4>3. now - accepted[i].at >= TICKET_LIFETIME_MS
          BY <4>1, <4>2, Zenon DEF Guarded
        <4>4. now - hellos[h].sentAt <= MAX_TICKET_AGE_SKEW_MS + MaxDrift
          BY <4>1, AdmittedPromptly, Zenon
        <4>5. /\ hellos[h].sentAt <= accepted[i].at /\ accepted[i].at \in Nat
              /\ hellos[h].sentAt \in Nat /\ now \in Nat
          BY <3>3, Parts, Fields, ClaimedAgeIsTrue, ZenonT(40) DEF AcceptedInTime, Types
        <4>6. PICK v \in Nat, a \in Nat : v = hellos[h].sentAt /\ a = accepted[i].at
          BY <4>5, Zenon
        <4>7. /\ now - a >= TICKET_LIFETIME_MS /\ v <= a
              /\ now - v <= MAX_TICKET_AGE_SKEW_MS + MaxDrift
          BY <4>3, <4>4, <4>5, <4>6, Zenon
        <4>8. /\ TICKET_LIFETIME_MS \in Nat /\ MAX_TICKET_AGE_SKEW_MS \in Nat /\ MaxDrift \in Nat
              /\ TICKET_LIFETIME_MS > MAX_TICKET_AGE_SKEW_MS + MaxDrift
          BY Constants, Zenon
        <4> QED
          BY <4>5, <4>7, <4>8
      <3>4. \A i \in 1 .. Len(accepted') : i = Len(accepted) + 1 \/ i \in 1 .. Len(accepted)
        BY <3>1, Parts
      <3> QED
        BY <3>1, <3>2, <3>3, <3>4, Zenon DEF OnceEach
    <2>2. CASE UNCHANGED accepted
      BY <2>2, Zenon DEF OnceEach
    <2> QED
      BY StepCases, KeysTyped, <2>1, <2>2, Zenon
         DEF Tick, IssueTicket, ReceiveTicket, Offer, Forget, ResetStore, vars
  <1> QED
    BY <1>1, <1>2, InTimeHolds, AcceptedInTimeHolds, GuardedHolds, PTL DEF Spec

\* The early data of one ClientHello is accepted at most once, whichever shards
\* it reaches and however often, although stores forget tokens after a ticket's
\* lifetime and lose them in a restart (EarlyData::admit, EarlyDataGuard,
\* ReplayDomain).
THEOREM AlwaysAcceptedOnce == Spec => []AcceptedOnce
  <1>1. Types /\ OnceEach => AcceptedOnce
    BY Parts, Zenon DEF OnceEach, AcceptedOnce
  <1> QED
    BY <1>1, TypesHold, OnceEachHolds, PTL

\* Every token stored stands for an accepted hello in every state.
LEMMA TokensAcceptedHolds == Spec => []TokensAccepted
  <1>1. Init => TokensAccepted
    BY Zenon DEF Init, TokensAccepted
  <1>2. Types /\ TokensAccepted /\ [Next]_vars => TokensAccepted'
    <2> SUFFICES ASSUME Types, TokensAccepted, [Next]_vars,
                        NEW g \in Stores, NEW e \in store'[g]
                 PROVE  \E i \in 1 .. Len(accepted') : accepted'[i].hello = e.token
      BY Zenon DEF TokensAccepted
    <2>1. CASE e \in store[g]
      <3>1. PICK i \in 1 .. Len(accepted) : accepted[i].hello = e.token
        BY <2>1, Zenon DEF TokensAccepted
      <3> QED
        BY <3>1, Kept, Parts
    <2>2. CASE e \notin store[g]
      <3>1. PICK h \in 1 .. Len(hellos), s \in Shards : Deliver(h, s)
        <4>1. \A f \in Stores : Forget(f) => store'[g] \subseteq store[g]
          BY ForgetEffect, Zenon
        <4>2. \A f \in Stores : ResetStore(f) => store'[g] \subseteq store[g]
          BY ResetEffect, Zenon
        <4> QED
          BY <2>2, StepCases, KeysTyped, <4>1, <4>2, Zenon
             DEF Tick, IssueTicket, ReceiveTicket, Offer, vars
      <3>2. /\ Len(accepted') = Len(accepted) + 1
            /\ accepted'[Len(accepted) + 1] = [hello |-> h, shard |-> s, at |-> now]
            /\ store'[g] \subseteq store[g] \cup {[token |-> h, at |-> now]}
        BY <3>1, DeliverEffect, Zenon
      <3>3. e = [token |-> h, at |-> now]
        BY <2>2, <3>2, Zenon
      <3>4. e.token = h /\ accepted'[Len(accepted) + 1].hello = h
        BY <3>2, <3>3
      <3> QED
        BY <3>2, <3>4, Parts
    <2> QED
      BY <2>1, <2>2, Zenon
  <1> QED
    BY <1>1, <1>2, TypesHold, PTL DEF Spec

\* A hello that travels without undue delay is admitted the first time,
\* wherever ticket_age_add makes the obfuscated age wrap
\* (obfuscated_ticket_age and EarlyData::admit).
THEOREM PromptHelloAlwaysAdmitted == Spec => []PromptHelloIsAdmitted
  <1>1. Types /\ InTime /\ TokensAccepted => PromptHelloIsAdmitted
    <2> SUFFICES ASSUME Types, InTime, TokensAccepted,
                        NEW h \in 1 .. Len(hellos), NEW s \in Shards, Prompt(h, s)
                 PROVE  Admits(s, h)
      BY Parts, Zenon DEF PromptHelloIsAdmitted
    <2> DEFINE t == tickets[hellos[h].ticket]
    <2>1. /\ OpensTicket(s, t) /\ AllowedHere(s, t)
          /\ ClockAhead[s] = ClockAhead[t.issuer]
          /\ (now - hellos[h].sentAt) + (t.received - (t.issuedAt - ClockAhead[t.issuer]))
                <= MAX_TICKET_AGE_SKEW_MS
          /\ now - (t.issuedAt - ClockAhead[t.issuer]) <= TICKET_LIFETIME_MS
          /\ \A i \in 1 .. Len(accepted) : accepted[i].hello # h
      BY Parts, Zenon DEF Prompt
    <2>2. /\ ClaimedAge(h) = hellos[h].sentAt - t.received
          /\ t.issuedAt <= t.received + ClockAhead[t.issuer]
          /\ t.issuedAt <= now + ClockAhead[t.issuer]
          /\ hellos[h].sentAt <= now
          /\ t.received \in Nat /\ hellos[h].sentAt \in Nat
          /\ t.issuedAt \in Nat /\ ClockAhead[t.issuer] \in Nat
          /\ now \in Nat
      BY ClaimedAgeIsTrue, TicketTimes, Zenon DEF TicketInTime, Types
    <2> HIDE DEF t
    <2>3. PICK v \in Nat, r \in Nat, k \in Nat, c \in Nat :
              /\ v = hellos[h].sentAt /\ r = t.received /\ k = t.issuedAt
              /\ c = ClockAhead[s] /\ c = ClockAhead[t.issuer]
      BY <2>1, <2>2, Zenon
    <2>4. /\ (now - v) + (r - (k - c)) <= MAX_TICKET_AGE_SKEW_MS
          /\ now - (k - c) <= TICKET_LIFETIME_MS
          /\ k <= r + c /\ k <= now + c /\ v <= now
      BY <2>1, <2>2, <2>3, Zenon
    <2>5. /\ k <= (now + c) + MAX_TICKET_AGE_SKEW_MS
          /\ (now + c) - k <= TICKET_LIFETIME_MS
          /\ ((now + c) - k) - (v - r) <= MAX_TICKET_AGE_SKEW_MS
          /\ (v - r) - ((now + c) - k) <= MAX_TICKET_AGE_SKEW_MS
      <3>1. MAX_TICKET_AGE_SKEW_MS \in Nat /\ TICKET_LIFETIME_MS \in Nat /\ now \in Nat
        BY <2>2, Constants, Zenon
      <3> QED
        BY <3>1, <2>4
    <2>6. Registers(StoreOf[s], h)
      BY <2>1, Constants, Zenon DEF Registers, TokensAccepted
    <2>7. ClockOf(s) = now + c /\ ClaimedAge(h) = v - r
      BY <2>2, <2>3, Zenon DEF ClockOf
    <2>8. /\ IssuedAtIsResumable(k, ClockOf(s)) /\ k <= ClockOf(s)
          /\ AgeMatches(ClockOf(s) - k, ClaimedAge(h))
      BY <2>4, <2>5, <2>7, Zenon DEF IssuedAtIsResumable, AgeMatches
    <2> QED
      BY <2>1, <2>3, <2>5, <2>6, <2>7, <2>8, Zenon DEF Admits, t
  <1> QED
    BY <1>1, InTimeHolds, TokensAcceptedHolds, PTL

============================================================================
