----------------------------- MODULE EarlyData -----------------------------
(***************************************************************************)
(* Early data across the shards of a deployment: tickets issued by one      *)
(* shard and presented to another (server/session/resumption.rs and         *)
(* EarlyData::admit), the ticket keys a Rotator hands to the shards         *)
(* (crypto/ticket), the replay domains and guards that keep early data      *)
(* single-use (server/bound/shard.rs, server/config.rs), and the clocks.    *)
(*                                                                          *)
(* Shards of one replay domain share the store behind their guard.  A store *)
(* may drop a token after the lifetime of a ticket; when it loses its       *)
(* tokens the deployment gives it a new domain and rebuilds its shards, as  *)
(* ReplayDomain::new asks.  The network may deliver a ClientHello late, to  *)
(* any shard and more than once.  What the rest of the ClientHello decides  *)
(* (suite, ALPN, binder) is in ServerSession; here it always agrees.        *)
(***************************************************************************)
EXTENDS Integers, Sequences

CONSTANTS
    Shards,
    Stores,                 \* replay stores
    StoreOf,                \* StoreOf[s]: the store behind the guard of s
    ClockAhead,             \* ClockAhead[s]: how far the clock of s is ahead
    MaxDrift,               \* how much the clocks of two shards may differ
    TICKET_LIFETIME_MS,
    MAX_TICKET_AGE_SKEW_MS,
    AgeModulus,             \* ticket ages wrap here, 2^32 in the code
    AgeAdds,                \* values of ticket_age_add
    RotateAfterMs,          \* Schedule::rotate_after_ms
    RotateAfterCount,       \* Schedule::rotate_after_count
    MaxTime,                \* bound: the clock
    MaxKeys,                \* bound: ticket keys
    MaxTickets,             \* bound: tickets issued
    MaxHellos,              \* bound: ClientHellos sent
    MaxResets               \* bound: stores that lose their tokens

ASSUME EarlyDataAssumption ==
    /\ StoreOf \in [Shards -> Stores]
    /\ ClockAhead \in [Shards -> Nat]
    /\ MaxDrift \in Nat
    /\ \A s, r \in Shards : ClockAhead[s] - ClockAhead[r] <= MaxDrift
    /\ {TICKET_LIFETIME_MS, MAX_TICKET_AGE_SKEW_MS, RotateAfterMs, RotateAfterCount} \subseteq Nat
    /\ AgeModulus \in Nat /\ AgeModulus > TICKET_LIFETIME_MS
    /\ AgeAdds \subseteq 0 .. AgeModulus - 1
    /\ TICKET_LIFETIME_MS > MAX_TICKET_AGE_SKEW_MS + MaxDrift
    /\ {MaxTime, MaxKeys, MaxTickets, MaxHellos, MaxResets} \subseteq Nat

VARIABLES
    now,       \* true time, also the client's clock
    rotator,   \* Rotator: [current, previous, since, issued]
    keys,      \* keys[s]: AuthorityCore::ticket_keys, [current, previous]
    domain,    \* domain[g]: the replay domain of the shards of store g
    store,     \* store[g]: the tokens registered, [token, at]
    resets,    \* stores that lost their tokens so far
    tickets,   \* tickets issued, in order
    hellos,    \* ClientHellos that offer early data, in order
    accepted   \* history: early data accepted, [hello, shard, at]

vars == <<now, rotator, keys, domain, store, resets, tickets, hellos, accepted>>

NoKey == 0

NotYet == -1

NoKeys == [current |-> NoKey, previous |-> NoKey]

Init ==
    /\ now = 0
    /\ rotator = [current |-> 1, previous |-> NoKey, since |-> 0, issued |-> 0]
    /\ keys = [s \in Shards |-> NoKeys]
    /\ domain = [g \in Stores |-> <<g, 0>>]
    /\ store = [g \in Stores |-> {}]
    /\ resets = 0
    /\ tickets = <<>> /\ hellos = <<>> /\ accepted = <<>>

Tick ==
    /\ now < MaxTime
    /\ now' = now + 1
    /\ UNCHANGED <<rotator, keys, domain, store, resets, tickets, hellos, accepted>>

-----------------------------------------------------------------------------
(* Ticket keys. *)

\* Schedule::due
Due(r) ==
    \/ now - r.since >= RotateAfterMs
    \/ r.issued >= RotateAfterCount

\* MUTANT: the key that is replaced is dropped.
RotatedForgetting(r) == [current |-> r.current + 1, previous |-> r.previous, since |-> now, issued |-> 0]

\* Rotator::rotate
Rotated(r) == [current |-> r.current + 1, previous |-> r.current, since |-> now, issued |-> 0]

\* Rotator::issuing_keys, and the shard takes what it returns
\* (Shard::replace_ticket_keys).
InstallIssuingKeys(s) ==
    LET r == IF Due(rotator) THEN Rotated(rotator) ELSE rotator
    IN /\ r.current <= MaxKeys
       /\ rotator' = [r EXCEPT !.issued = r.issued + 1]
       /\ keys' = [keys EXCEPT ![s] = [current |-> r.current, previous |-> r.previous]]
       /\ UNCHANGED <<now, domain, store, resets, tickets, hellos, accepted>>

\* Rotator::accepting_keys, which does not rotate.
InstallAcceptingKeys(s) ==
    /\ keys' = [keys EXCEPT ![s] = [current |-> rotator.current, previous |-> rotator.previous]]
    /\ UNCHANGED <<now, rotator, domain, store, resets, tickets, hellos, accepted>>

\* Keys::decrypt_with: the current key, then the previous one.
OpensTicket(s, t) ==
    \/ t.key = keys[s].current
    \/ keys[s].previous # NoKey /\ t.key = keys[s].previous

-----------------------------------------------------------------------------
(* Tickets and the client. *)

ClockOf(s) == now + ClockAhead[s]

\* emit_session_ticket: the ticket carries the time and the replay domain of
\* its shard, sealed under the shard's current key.
IssueTicket(s, add) ==
    /\ keys[s] # NoKeys
    /\ Len(tickets) < MaxTickets
    /\ tickets' = Append(tickets, [key |-> keys[s].current, issuedAt |-> ClockOf(s),
                                   domain |-> domain[StoreOf[s]], ageAdd |-> add,
                                   issuer |-> s, received |-> NotYet])
    /\ UNCHANGED <<now, rotator, keys, domain, store, resets, hellos, accepted>>

\* The client retains a NewSessionTicket that reached it.
ReceiveTicket(i) ==
    /\ tickets[i].received = NotYet
    /\ tickets' = [tickets EXCEPT ![i].received = now]
    /\ UNCHANGED <<now, rotator, keys, domain, store, resets, hellos, accepted>>

\* Active::obfuscated_ticket_age and a ClientHello with that age.
Offer(i) ==
    LET t == tickets[i]
        age == now - t.received
    IN /\ t.received # NotYet
       /\ age <= TICKET_LIFETIME_MS
       /\ Len(hellos) < MaxHellos
       /\ hellos' = Append(hellos, [ticket |-> i, sentAt |-> now,
                                    age |-> (age + t.ageAdd) % AgeModulus])
       /\ UNCHANGED <<now, rotator, keys, domain, store, resets, tickets, accepted>>

-----------------------------------------------------------------------------
(* A ClientHello at a shard. *)

\* AcceptedPsk::issued_at_is_resumable
IssuedAtIsResumable(issuedAt, clock) ==
    /\ issuedAt <= clock + MAX_TICKET_AGE_SKEW_MS
    /\ clock - issuedAt <= TICKET_LIFETIME_MS

\* MUTANT: the ticket keys alone decide.
AllowedHereAnyDomain(s, t) == TRUE

\* Context::early_data_for_replay_domain
AllowedHere(s, t) == t.domain = domain[StoreOf[s]]

\* MUTANT: the subtraction does not wrap.
ClaimedAgePlain(h) ==
    IF hellos[h].age < tickets[hellos[h].ticket].ageAdd THEN 0
    ELSE hellos[h].age - tickets[hellos[h].ticket].ageAdd

\* obfuscated_age.wrapping_sub(age_add)
ClaimedAge(h) == (hellos[h].age - tickets[hellos[h].ticket].ageAdd) % AgeModulus

\* MUTANT: a hello that is late is not noticed, only one that is early.
AgeMatchesEarly(measured, claimed) == claimed - measured <= MAX_TICKET_AGE_SKEW_MS

\* measured_age.abs_diff(claimed_age) <= MAX_TICKET_AGE_SKEW_MS
AgeMatches(measured, claimed) ==
    /\ measured - claimed <= MAX_TICKET_AGE_SKEW_MS
    /\ claimed - measured <= MAX_TICKET_AGE_SKEW_MS

\* EarlyDataGuard::register: the token was not seen before.
Registers(g, h) == \A e \in store[g] : e.token # h

\* EarlyData::admit after try_accept_psk
Admits(s, h) ==
    LET t == tickets[hellos[h].ticket]
        measured == ClockOf(s) - t.issuedAt
    IN /\ OpensTicket(s, t)
       /\ IssuedAtIsResumable(t.issuedAt, ClockOf(s))
       /\ AllowedHere(s, t)
       /\ t.issuedAt <= ClockOf(s)
       /\ measured <= TICKET_LIFETIME_MS
       /\ AgeMatches(measured, ClaimedAge(h))
       /\ Registers(StoreOf[s], h)

\* A ClientHello arrives, for the first time or again; one that is not
\* admitted leaves nothing behind.
Deliver(h, s) ==
    /\ Admits(s, h)
    /\ store' = [store EXCEPT ![StoreOf[s]] = @ \cup {[token |-> h, at |-> now]}]
    /\ accepted' = Append(accepted, [hello |-> h, shard |-> s, at |-> now])
    /\ UNCHANGED <<now, rotator, keys, domain, resets, tickets, hellos>>

\* The store drops a token it has kept for the lifetime of a ticket.
Forget(g) ==
    /\ \E e \in store[g] :
          /\ now - e.at >= TICKET_LIFETIME_MS
          /\ store' = [store EXCEPT ![g] = @ \ {e}]
    /\ UNCHANGED <<now, rotator, keys, domain, resets, tickets, hellos, accepted>>

\* ReplayDomain::random, or the rotated id of a shared store: an id that no
\* store has or had.
FreshDomain(g) == <<g, resets + 1>>

\* A store loses its tokens; its shards are rebuilt in a new domain, with the
\* ticket keys they had.
ResetStore(g) ==
    /\ resets < MaxResets
    /\ resets' = resets + 1
    /\ store' = [store EXCEPT ![g] = {}]
    /\ domain' = [domain EXCEPT ![g] = FreshDomain(g)]
    /\ UNCHANGED <<now, rotator, keys, tickets, hellos, accepted>>

Next ==
    \/ Tick
    \/ \E s \in Shards : InstallIssuingKeys(s) \/ InstallAcceptingKeys(s)
    \/ \E s \in Shards, add \in AgeAdds : IssueTicket(s, add)
    \/ \E i \in DOMAIN tickets : ReceiveTicket(i) \/ Offer(i)
    \/ \E h \in DOMAIN hellos, s \in Shards : Deliver(h, s)
    \/ \E g \in Stores : Forget(g) \/ ResetStore(g)

Spec == Init /\ [][Next]_vars

-----------------------------------------------------------------------------
\* The early data of one ClientHello is accepted at most once, whichever shards
\* it reaches and however often, although stores forget tokens after
\* TICKET_LIFETIME_SECS (server/config.rs, EarlyDataGuard) and lose them in a
\* restart, and although all shards share the ticket keys (EarlyData::admit).
AcceptedOnce ==
    \A i, j \in DOMAIN accepted : accepted[i].hello = accepted[j].hello => i = j

\* Early data is accepted only soon after it was sent: within the allowed skew
\* and the drift of the shards' clocks (the age check of EarlyData::admit).
AcceptedPromptly ==
    \A i \in DOMAIN accepted :
        accepted[i].at - hellos[accepted[i].hello].sentAt <= MAX_TICKET_AGE_SKEW_MS + MaxDrift

\* A shard opens the tickets of its key and of the one before it, and no
\* others (crypto/ticket/keys.rs: "opens one previous rotation window").
OpensOneRotationBack ==
    \A s \in Shards, i \in DOMAIN tickets :
        keys[s] # NoKeys => (OpensTicket(s, tickets[i])
                               <=> keys[s].current - tickets[i].key \in {0, 1})

\* A hello that travels without undue delay and meets a shard of its domain
\* with its key and its issuer's time.
Prompt(h, s) ==
    LET t == tickets[hellos[h].ticket]
        issued == t.issuedAt - ClockAhead[t.issuer]
    IN /\ OpensTicket(s, t) /\ AllowedHere(s, t)
       /\ ClockAhead[s] = ClockAhead[t.issuer]
       /\ (now - hellos[h].sentAt) + (t.received - issued) <= MAX_TICKET_AGE_SKEW_MS
       /\ now - issued <= TICKET_LIFETIME_MS
       /\ \A i \in DOMAIN accepted : accepted[i].hello # h

\* Such a hello is admitted the first time, wherever ticket_age_add makes the
\* obfuscated age wrap (obfuscated_ticket_age and EarlyData::admit).
PromptHelloIsAdmitted ==
    \A h \in DOMAIN hellos, s \in Shards : Prompt(h, s) => Admits(s, h)
=============================================================================
