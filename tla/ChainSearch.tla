---------------------------- MODULE ChainSearch ----------------------------
(***************************************************************************)
(* The certificate path search (identity/chain): a memoized, iterative      *)
(* depth-first search for a path from the leaf to a trust anchor.           *)
(*                                                                          *)
(* A world is what the certificates of one chain are to each other: which   *)
(* names another as issuer, which signatures verify, which parse and are in *)
(* their validity period, what their constraints allow.  Certificates are   *)
(* numbered from 0, the leaf, as in the code.  One step is one turn of the  *)
(* loop in Search::run or of the loop in Search::next_issuer.               *)
(***************************************************************************)
EXTENDS Integers, Sequences

CONSTANTS
    MAX_LEN,    \* longest chain, 10 in the code
    Worlds      \* the chains to search

Certs == 0 .. MAX_LEN - 1

\* n certificates; too_long when the peer sent more than MAX_LEN.  parsed:
\* Cert::parse succeeds for each.  prepared: PathCert::prepare succeeds.  leafOk: Profile::check_leaf succeeds.  named,
\* signed: <<subject, issuer>>.  ca: check_issuer_is_ca and check_ca_eku succeed.
\* forbids[c]: the certificates whose names break the name constraints of c.
\* anchored: certificates signed by a trust anchor; anchorForbids as forbids, all
\* certificates where the look-up of the anchor fails.
World == [n : 0 .. MAX_LEN, tooLong : BOOLEAN, parsed : BOOLEAN, leafOk : BOOLEAN,
          prepared : SUBSET Certs, named : SUBSET (Certs \X Certs),
          signed : SUBSET (Certs \X Certs), ca : SUBSET Certs,
          pathLimit : [Certs -> Nat], forbids : [Certs -> SUBSET Certs],
          anchored : SUBSET Certs, anchorForbids : [Certs -> SUBSET Certs]]

ASSUME ChainAssumption ==
    /\ MAX_LEN \in Nat /\ MAX_LEN >= 2
    /\ Worlds \subseteq World

VARIABLES
    world,    \* the certificates and the anchors
    frames,   \* the path so far, leaf first: [subject, nextIssuer]
    used,     \* the certificates of the path, as the bits of a u16 in the code
    seen,     \* Seen: the indices of the states entered
    checked,  \* SignatureCache::checked, as pairs
    valid,    \* SignatureCache::valid, as pairs
    failure,  \* Search::failure, the first rejection
    result    \* "None" before run, "Running", then "Ok" or "Err"

vars == <<world, frames, used, seen, checked, valid, failure, result>>

\* Search::new
SearchInit ==
    /\ frames = <<>>
    /\ used = {}
    /\ seen = {} /\ checked = {} /\ valid = {}
    /\ failure = "None"
    /\ result = "None"

Init == world \in Worlds /\ SearchInit

Top == frames[Len(frames)]

OnPath == {frames[k].subject : k \in 1 .. Len(frames)}

\* 1 << c
Bit[c \in 0 .. MAX_LEN] == IF c = 0 THEN 1 ELSE 2 * Bit[c - 1]

\* The value of the u16.
Bits(certs) ==
    LET value[k \in 0 .. MAX_LEN] ==
            IF k = 0 THEN 0 ELSE value[k - 1] + (IF k - 1 \in certs THEN Bit[k - 1] ELSE 0)
    IN value[MAX_LEN]

\* Search::reject keeps the first error.
Reject(why) == failure' = IF failure = "None" THEN why ELSE failure

Frame(c) == [subject |-> c, nextIssuer |-> 0]

\* What the client, validate_with_anchor_verifier and the head of run ask for.
Searchable ==
    /\ ~world.tooLong /\ world.parsed /\ world.n > 0
    /\ 0 \in world.prepared /\ world.leafOk

\* The certificates are collected and the leaf is looked at.
Begin ==
    /\ result = "None"
    /\ \/ /\ ~Searchable
          /\ result' = "Err"
          /\ UNCHANGED <<frames, used>>
       \/ /\ Searchable
          /\ result' = "Running"
          /\ frames' = <<Frame(0)>>
          /\ used' = {0}
    /\ UNCHANGED <<world, seen, checked, valid, failure>>

-----------------------------------------------------------------------------
(* Seen. *)

SUBJECT_STATE_COUNT == Bit[MAX_LEN - 2]

STATE_COUNT == 1 + (MAX_LEN - 1) * SUBJECT_STATE_COUNT

\* The index of (subject, used-set) in Seen::admit: the bit of the leaf and the
\* bit of the subject are squeezed out.
StateIndex(c, certs) ==
    IF c = 0 THEN 0
    ELSE LET s == c - 1
             u == Bits(certs) \div 2
             lower == u % Bit[s]
             upper == (u \div Bit[s + 1]) * Bit[s]
         IN 1 + s * SUBJECT_STATE_COUNT + lower + upper

\* MUTANT: a subject is admitted once, whatever the path below it.
FreshSubject ==
    \A certs \in SUBSET Certs :
        Top.subject \in certs => StateIndex(Top.subject, certs) \notin seen

Fresh == StateIndex(Top.subject, used) \notin seen

\* A state of the search: the leaf and the subject are on the path, and the leaf
\* is the subject of the first frame only.
IsState(c, certs) ==
    /\ c \in Certs /\ certs \in SUBSET Certs
    /\ 0 \in certs /\ c \in certs
    /\ c = 0 => certs = {0}

\* Seen::admit tells all states apart, and its table has room for every one.
IndexIsExact ==
    \A c, d \in Certs, A, B \in SUBSET Certs :
        IsState(c, A) /\ IsState(d, B) =>
            /\ StateIndex(c, A) \in 0 .. STATE_COUNT - 1
            /\ StateIndex(c, A) = StateIndex(d, B) => c = d /\ A = B

\* Search::pop
Pop ==
    /\ frames' = SubSeq(frames, 1, Len(frames) - 1)
    /\ used' = used \ {Top.subject}

SetTop(f) == [frames EXCEPT ![Len(frames)] = f]

-----------------------------------------------------------------------------
(* The loop of run. *)

\* MUTANT: the anchor's own constraints are not applied to the path.
AnchorAcceptsAnyName == Top.subject \in world.anchored

\* anchor_accepts: an anchor signed the subject, and its name constraints allow
\* every certificate of the path.
AnchorAccepts ==
    /\ Top.subject \in world.anchored
    /\ world.anchorForbids[Top.subject] \cap OnPath = {}

\* The top frame is entered for the first time.
Enter ==
    /\ Top.nextIssuer = 0
    /\ seen' = seen \cup {StateIndex(Top.subject, used)}
    /\ \/ /\ ~Fresh
          /\ Pop
          /\ UNCHANGED <<failure, result>>
       \/ /\ Fresh /\ AnchorAccepts
          /\ frames' = SetTop([Top EXCEPT !.nextIssuer = 1])
          /\ result' = "Ok"
          /\ UNCHANGED <<used, failure>>
       \/ /\ Fresh /\ ~AnchorAccepts
          /\ frames' = SetTop([Top EXCEPT !.nextIssuer = 1])
          /\ IF Top.subject \in world.anchored
             THEN Reject("Anchor")
             ELSE UNCHANGED failure
          /\ UNCHANGED <<used, result>>
    /\ UNCHANGED <<world, checked, valid>>

\* next_issuer ran out of candidates: the subject is dropped.
Exhausted ==
    /\ Top.nextIssuer > 0
    /\ Top.nextIssuer >= world.n
    /\ Reject(IF Len(frames) = world.n THEN "NoTrustAnchor" ELSE "IssuerSubjectMismatch")
    /\ Pop
    /\ UNCHANGED <<world, seen, checked, valid, result>>

-----------------------------------------------------------------------------
(* One candidate of next_issuer. *)

\* A certificate that is not on the path and has the subject's issuer name.
Candidate(c) == c \notin used /\ <<Top.subject, c>> \in world.named

\* Profile::check_issuer: a CA whose path length and name constraints admit
\* the path below it.
IssuerChecks(c) ==
    /\ c \in world.ca
    /\ Len(frames) - 1 <= world.pathLimit[c]
    /\ world.forbids[c] \cap OnPath = {}

Cached(c) == <<Top.subject, c>> \in checked

\* SignatureCache::insert marks the pair as checked.
Remembered(c) == {<<Top.subject, c>>}

\* signature_is_valid, from the cache or by verification.
SignatureIsValid(c) ==
    IF Cached(c) THEN <<Top.subject, c>> \in valid ELSE <<Top.subject, c>> \in world.signed

UpdateCache(c) ==
    /\ checked' = checked \cup Remembered(c)
    /\ valid' = IF SignatureIsValid(c) THEN valid \cup {<<Top.subject, c>>} ELSE valid

\* MUTANT: a candidate that is passed over is looked at again.
AdvancedNever(f) == f

\* frame.next_issuer.checked_add(1)
Advanced(f) == [f EXCEPT !.nextIssuer = f.nextIssuer + 1]

\* The candidate is not one, cannot be prepared or fails its checks.
PassOver ==
    LET c == Top.nextIssuer
    IN /\ c > 0 /\ c < world.n
       /\ ~(Candidate(c) /\ c \in world.prepared /\ IssuerChecks(c))
       /\ frames' = SetTop(Advanced(Top))
       /\ IF Candidate(c)
          THEN Reject(IF c \in world.prepared THEN "IssuerCheck" ELSE "Prepare")
          ELSE UNCHANGED failure
       /\ UNCHANGED <<world, used, seen, checked, valid, result>>

\* The candidate passes its checks; its signature decides.
TryCandidate ==
    LET c == Top.nextIssuer
    IN /\ c > 0 /\ c < world.n
       /\ Candidate(c) /\ c \in world.prepared /\ IssuerChecks(c)
       /\ UpdateCache(c)
       /\ \/ /\ SignatureIsValid(c)
             /\ frames' = Append(SetTop(Advanced(Top)), Frame(c))
             /\ used' = used \cup {c}
             /\ UNCHANGED failure
          \/ /\ ~SignatureIsValid(c)
             /\ frames' = SetTop(Advanced(Top))
             /\ IF Cached(c) THEN UNCHANGED failure ELSE Reject("Verify")
             /\ UNCHANGED used
       /\ UNCHANGED <<world, seen, result>>

\* No frame is left.
GiveUp ==
    /\ frames = <<>>
    /\ result' = "Err"
    /\ UNCHANGED <<world, frames, used, seen, checked, valid, failure>>

Run ==
    /\ result = "Running"
    /\ \/ GiveUp
       \/ /\ frames # <<>>
          /\ Enter \/ Exhausted \/ PassOver \/ TryCandidate

Next == Begin \/ Run

Spec == Init /\ [][Next]_vars

\* The search runs to its end; it is ordinary code of one thread.
FairSpec == Spec /\ WF_vars(Next)

-----------------------------------------------------------------------------
\* A path of distinct certificates of w from the leaf: each is named and signed
\* by the next, and each issuer's constraints admit the part below it.
IsPath(w, p) ==
    /\ Len(p) > 0 /\ p[1] = 0
    /\ ~w.tooLong /\ w.parsed /\ w.leafOk
    /\ \A k \in 1 .. Len(p) : p[k] < w.n /\ p[k] \in w.prepared
    /\ \A j, k \in 1 .. Len(p) : p[j] = p[k] => j = k
    /\ \A k \in 1 .. Len(p) - 1 :
          /\ <<p[k], p[k + 1]>> \in w.named \cap w.signed
          /\ p[k + 1] \in w.ca
          /\ k - 1 <= w.pathLimit[p[k + 1]]
          /\ \A j \in 1 .. k : p[j] \notin w.forbids[p[k + 1]]

\* Such a path whose last certificate an anchor signed and admits.
IsTrusted(w, p) ==
    /\ IsPath(w, p)
    /\ p[Len(p)] \in w.anchored
    /\ \A j \in 1 .. Len(p) : p[j] \notin w.anchorForbids[p[Len(p)]]

PathOf(fs) == [k \in 1 .. Len(fs) |-> fs[k].subject]

\* The search accepts only with a trusted path in its frames (Search::run), the
\* used set and the signature cache standing for what they summarise.
AcceptsTrustedPath == result = "Ok" => IsTrusted(world, PathOf(frames))

\* The search refuses only chains that have no trusted path: neither the
\* memoized states (Seen::admit) nor the cached signatures cut one off.
RefusesOnlyUntrusted ==
    result = "Err" =>
        \A len \in 1 .. MAX_LEN : \A p \in [1 .. len -> Certs] : ~IsTrusted(world, p)

\* The search ends.
SearchEnds == <>(result \in {"Ok", "Err"})
=============================================================================
