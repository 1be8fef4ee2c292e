----------------------------- MODULE KeyUpdate -----------------------------
(***************************************************************************)
(* Post-handshake traffic keys of one TLS 1.3 connection: the two endpoints *)
(* after Done, each with the traffic state of shin (crypto/material.rs),    *)
(* the KeyUpdateCore that advances it (connection.rs) and the Updates       *)
(* capability (client/updates.rs, server/session/updates.rs).               *)
(*                                                                          *)
(* shin is sans-I/O.  It emits events to a sink, and the consumer behind    *)
(* the sink owns the record layer: it seals a Send under the write key it   *)
(* has installed and installs the secret of every KeyUpdate event.  Any     *)
(* emission may fail; the connection is then poisoned.  A traffic secret    *)
(* is its generation: the number of traffic_update steps applied to the     *)
(* secret of the handshake.                                                 *)
(***************************************************************************)
EXTENDS Integers, Sequences

CONSTANTS
    MAX_KEY_UPDATES_WITHOUT_APP_DATA, \* LIMIT of the KeyUpdateBudget of Active
    MaxCalls                          \* bound: application calls per endpoint

ASSUME KeyUpdateAssumption ==
    /\ MAX_KEY_UPDATES_WITHOUT_APP_DATA \in Nat
    /\ MaxCalls \in Nat

VARIABLES
    state,    \* state[e]: the handshake state, Done or Failed
    traffic,  \* traffic[e]: material::State of e (see Active)
    sealKey,  \* sealKey[e]: generation installed in e's Sealer
    openKey,  \* openKey[e]: generation installed in e's Opener
    log,      \* log[e]: every record e has sealed, in order
    rd,       \* rd[e]: how many records of the peer e has read
    calls     \* calls[e]: application calls e has made

keyUpdateVars == <<state, traffic, sealKey, openKey, log, rd, calls>>

Endpoint == {"client", "server"}

Peer(e) == IF e = "client" THEN "server" ELSE "client"

Requests == {"Requested", "NotRequested"}

\* A record: application data, or a KeyUpdate with its request field.  gen is
\* the generation of the key it was sealed under; seen is history, the number
\* of the peer's records its sender had read.
Record == [kind : {"app"} \cup Requests, gen : Nat, seen : Nat]

----------------------------------------------------------------------------
(* material::State and KeyUpdateBudget.  The two secrets of Active are     *)
(* named by the direction in which e uses them.  The u32 of the budget      *)
(* holds a count and, in bit 31, the pending flag.  A poisoned endpoint     *)
(* has cleared the state to Empty; nothing reads it again.                  *)

Traffic == [read : Nat, write : Nat,
            count : 0 .. MAX_KEY_UPDATES_WITHOUT_APP_DATA, pending : BOOLEAN]

Active == [read |-> 0, write |-> 0, count |-> 0, pending |-> FALSE]

Empty == Active

\* MUTANT: the budget comparison is off by one.
CanConsumeOffByOne(t) == t.count <= MAX_KEY_UPDATES_WITHOUT_APP_DATA

CanConsume(t) == t.count < MAX_KEY_UPDATES_WITHOUT_APP_DATA

Consume(t) == [t EXCEPT !.count = @ + 1]

\* MUTANT: the whole word is cleared, the pending bit with it.
ResetUpdatesAll(t) == [t EXCEPT !.count = 0, !.pending = FALSE]

ResetUpdates(t) == [t EXCEPT !.count = 0]

AdvanceRead(t) == [t EXCEPT !.read = @ + 1]

AdvanceWrite(t) == [t EXCEPT !.write = @ + 1]

RequestResponse(t) == [t EXCEPT !.pending = TRUE]

ClearResponse(t) == [t EXCEPT !.pending = FALSE]

----------------------------------------------------------------------------
KeyUpdateInit ==
    /\ state = [e \in Endpoint |-> "Done"]
    /\ traffic = [e \in Endpoint |-> Active]
    /\ sealKey = [e \in Endpoint |-> 0]
    /\ openKey = [e \in Endpoint |-> 0]
    /\ log = [e \in Endpoint |-> <<>>]
    /\ rd = [e \in Endpoint |-> 0]
    /\ calls = [e \in Endpoint |-> 0]

\* Core::poison: the state becomes Failed and the secrets are zeroized.
Poison(e) ==
    /\ state' = [state EXCEPT ![e] = "Failed"]
    /\ traffic' = [traffic EXCEPT ![e] = Empty]

\* The consumer seals a record under the write key it has installed.
SealRecord(e, kind) ==
    log' = [log EXCEPT ![e] = Append(@, [kind |-> kind, gen |-> sealKey[e],
                                        seen |-> rd[e]])]

----------------------------------------------------------------------------
\* MUTANT: the secret is advanced and installed before the KeyUpdate is sent.
SendAfterInstall(e, request) ==
    /\ log' = [log EXCEPT ![e] = Append(@, [kind |-> request, seen |-> rd[e],
                                            gen |-> sealKey[e] + 1])]
    /\ sealKey' = [sealKey EXCEPT ![e] = traffic[e].write + 1]
    /\ traffic' = [traffic EXCEPT ![e] = ClearResponse(AdvanceWrite(@))]
    /\ UNCHANGED <<state, openKey, rd>>

\* KeyUpdateCore::send: the KeyUpdate is emitted while the consumer still
\* holds the old key, then the write secret advances and is emitted; each of
\* the two emissions may fail in the sink.
Send(e, request) ==
    \/ /\ SealRecord(e, request)
       /\ sealKey' = [sealKey EXCEPT ![e] = traffic[e].write + 1]
       /\ traffic' = [traffic EXCEPT ![e] =
              IF request = "NotRequested" THEN ClearResponse(AdvanceWrite(@))
                                          ELSE AdvanceWrite(@)]
       /\ UNCHANGED <<state, openKey, rd>>
    \/ \* the sink fails on Event::Send
       /\ Poison(e)
       /\ UNCHANGED <<sealKey, openKey, log, rd>>
    \/ \* the sink fails on Event::KeyUpdate: the message is out already
       /\ SealRecord(e, request)
       /\ Poison(e)
       /\ UNCHANGED <<sealKey, openKey, rd>>

\* Updates::send_into, called by the application.
SendInto(e, request) ==
    /\ state[e] = "Done"
    /\ calls[e] < MaxCalls
    /\ calls' = [calls EXCEPT ![e] = @ + 1]
    /\ Send(e, request)

\* MUTANT: a response is held back once the update budget is spent.
SendPendingWithinBudget(e) ==
    /\ state[e] = "Done"
    /\ traffic[e].pending
    /\ CanConsume(traffic[e])
    /\ Send(e, "NotRequested")
    /\ UNCHANGED calls

\* Updates::send_pending_into, called by the driver loop.
SendPendingInto(e) ==
    /\ state[e] = "Done"
    /\ traffic[e].pending
    /\ Send(e, "NotRequested")
    /\ UNCHANGED calls

\* The consumer sends application data.
SendApplicationData(e) ==
    /\ state[e] = "Done"
    /\ calls[e] < MaxCalls
    /\ calls' = [calls EXCEPT ![e] = @ + 1]
    /\ SealRecord(e, "app")
    /\ UNCHANGED <<state, traffic, sealKey, openKey, rd>>

----------------------------------------------------------------------------
\* The next record of the peer.
NextRecord(e) == log[Peer(e)][rd[e] + 1]

HasNext(e) == state[e] = "Done" /\ rd[e] < Len(log[Peer(e)])

\* Opener::open refuses a record sealed under another key.  Receiving such a
\* record is not an action of the model: RecordsOpen says there is none.
Opens(e) == NextRecord(e).gen = openKey[e]

\* Application data: the consumer notes the progress (note_application_data).
ReceiveApplicationData(e) ==
    /\ HasNext(e)
    /\ Opens(e)
    /\ NextRecord(e).kind = "app"
    /\ rd' = [rd EXCEPT ![e] = @ + 1]
    /\ traffic' = [traffic EXCEPT ![e] = ResetUpdates(@)]
    /\ UNCHANGED <<state, sealKey, openKey, log, calls>>

\* KeyUpdateCore::receive: the budget, the read secret, its event, and the
\* response owed when the peer requested one.
Receive(e) ==
    /\ HasNext(e)
    /\ Opens(e)
    /\ NextRecord(e).kind \in Requests
    /\ rd' = [rd EXCEPT ![e] = @ + 1]
    /\ \/ /\ CanConsume(traffic[e])
          /\ LET t == AdvanceRead(Consume(traffic[e])) IN
             /\ traffic' = [traffic EXCEPT ![e] =
                    IF NextRecord(e).kind = "Requested" THEN RequestResponse(t) ELSE t]
             /\ openKey' = [openKey EXCEPT ![e] = t.read]
          /\ UNCHANGED <<state, sealKey>>
       \/ \* the budget is spent, or the sink fails on Event::KeyUpdate
          /\ Poison(e)
          /\ UNCHANGED <<sealKey, openKey>>
    /\ UNCHANGED <<log, calls>>

Step(e) ==
    \/ \E request \in Requests : SendInto(e, request)
    \/ SendPendingInto(e)
    \/ SendApplicationData(e)
    \/ ReceiveApplicationData(e)
    \/ Receive(e)

KeyUpdateNext == \E e \in Endpoint : Step(e)

KeyUpdateSpec == KeyUpdateInit /\ [][KeyUpdateNext]_keyUpdateVars

\* The driver loop keeps reading the transport and flushing owed responses.
Fairness ==
    \A e \in Endpoint : WF_keyUpdateVars(SendPendingInto(e)) /\ WF_keyUpdateVars(Receive(e))
                                                  /\ WF_keyUpdateVars(ReceiveApplicationData(e))

FairKeyUpdateSpec == KeyUpdateSpec /\ Fairness

----------------------------------------------------------------------------
\* Every variable has its type.
TypeOK ==
    /\ state \in [Endpoint -> {"Done", "Failed"}]
    /\ traffic \in [Endpoint -> Traffic]
    /\ sealKey \in [Endpoint -> Nat]
    /\ openKey \in [Endpoint -> Nat]
    /\ log \in [Endpoint -> Seq(Record)]
    /\ rd \in [Endpoint -> Nat]
    /\ calls \in [Endpoint -> Nat]

\* Every record an endpoint still has to read opens under the read key it has
\* installed, whatever the interleaving of updates in the two directions, of
\* coalesced responses and of sink failures (KeyUpdateCore::send and receive).
RecordsOpen == \A e \in Endpoint : HasNext(e) => Opens(e)

\* A peer's request for a KeyUpdate is never forgotten: while the connection
\* lives, either the response is still pending or a NotRequested KeyUpdate was
\* sent after the request was read (request_response, reset, clear_response).
RequestsRemembered ==
    \A e \in Endpoint : state[e] = "Done" =>
        \A i \in 1 .. rd[e] : log[Peer(e)][i].kind = "Requested" =>
            \/ traffic[e].pending
            \/ \E j \in 1 .. Len(log[e]) : /\ log[e][j].kind = "NotRequested"
                                          /\ log[e][j].seen >= i

\* A live endpoint has accepted at most LIMIT consecutive KeyUpdates with no
\* application data between them, and refuses the next one only after LIMIT of
\* them: no legal KeyUpdate is locked out (KeyUpdateBudget::consume and reset).
BudgetHolds ==
    \A e \in Endpoint : state[e] = "Done" =>
        /\ \A i \in 1 .. rd[e] :
              (\A j \in i .. rd[e] : log[Peer(e)][j].kind \in Requests)
                  => rd[e] - i + 1 <= MAX_KEY_UPDATES_WITHOUT_APP_DATA
        /\ ~CanConsume(traffic[e]) =>
              /\ MAX_KEY_UPDATES_WITHOUT_APP_DATA <= rd[e]
              /\ \A j \in 1 .. rd[e] : j > rd[e] - MAX_KEY_UPDATES_WITHOUT_APP_DATA =>
                    log[Peer(e)][j].kind \in Requests

\* A pending response is sent, unless the connection fails.
ResponsesSent ==
    \A e \in Endpoint : traffic[e].pending ~> ~traffic[e].pending

============================================================================
