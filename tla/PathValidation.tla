--------------------------- MODULE PathValidation ---------------------------
(***************************************************************************)
(* The validation of a certificate chain: the certificates of Certificates  *)
(* searched by ChainSearch for a path to the trust anchors, which the       *)
(* client keeps in a TrustStore (client/config/truststore.rs) and other     *)
(* callers of Chain::validate in a slice.                                   *)
(*                                                                          *)
(* A bundle is what the verifier is given: the certificates, leaf first,    *)
(* the anchors, the host and the time.  The search works on the world that  *)
(* the code's operators make of it; the properties compare its answer with  *)
(* the reference operators.                                                 *)
(***************************************************************************)
EXTENDS ChainSearch, Certificates

CONSTANTS
    Bundles,             \* the chains to validate, in classes
    MAX_TRUST_ANCHORS    \* 256 in the code

VARIABLE bundle          \* what is validated, NoBundle for a world of Worlds

NoBundle == [certs |-> <<>>]

IsBundle == bundle # NoBundle

-----------------------------------------------------------------------------
(* Trust anchors: [subject, spki, source, constraints, exts]. *)

\* TrustAnchor::name_constraints_der: a certificate's extensions are read whole,
\* so that none that is malformed is passed over.
AnchorReads(a) ==
    CASE a.source = "Unconstrained" -> TRUE
      [] a.source = "NameConstraints" -> ValidConstraints(a.constraints)
      [] a.source = "Certificate" ->
            /\ ExtensionsIterate(a.exts)
            /\ \A i \in 1 .. Len(a.exts) :
                  a.exts[i].oid = "nameConstraints" => ValidConstraints(a.exts[i].value)

NoConstraints == [permitted |-> <<>>, excluded |-> <<>>]

\* The constraints found, if any.
AnchorConstraints(a) ==
    CASE a.source = "Unconstrained" -> NoConstraints
      [] a.source = "NameConstraints" -> a.constraints
      [] a.source = "Certificate" ->
            IF HasExtension(a, "nameConstraints") THEN Extension(a, "nameConstraints")
            ELSE NoConstraints

\* TrustStore::new, PreparedTrustAnchor::new
StoreAdmits(anchors) ==
    /\ Len(anchors) \in 1 .. MAX_TRUST_ANCHORS
    /\ \A i \in 1 .. Len(anchors) :
          /\ PreparesName(anchors[i].subject)
          /\ AnchorReads(anchors[i])
          /\ PublicKeyParses(anchors[i].spki.alg)

\* What a configuration holds: an admitted store, or a slice whose out-of-band
\* constraints TrustAnchor::with_name_constraints parsed.  A slice's names are
\* parsed only when they are compared.
AnchorsHeld(b) ==
    IF b.store THEN StoreAdmits(b.anchors)
    ELSE \A a \in Range(b.anchors) : a.source = "NameConstraints" => AnchorReads(a)

\* The orders in which TrustStore::new may file the anchors: by the digest of the
\* subject, then by its DER.  The sort is unstable, so that anchors of one DER
\* come in any order.
Filings(anchors) ==
    LET n == 1 .. Len(anchors)
        key == [i \in n |-> NameKey(anchors[i].subject)]
        before(i, j) ==
            \/ key[i] < key[j]
            \/ key[i] = key[j] /\ BytesBefore(Der(anchors[i].subject), Der(anchors[j].subject))
        sorted(p) == \A i, j \in n : i < j => ~before(p[j], p[i])
    IN {[i \in n |-> anchors[p[i]]] : p \in {q \in Permutations(n) : sorted(q)}}

\* The order in which the anchors of b are looked at.
Orders(b) == IF b.store THEN Filings(b.anchors) ELSE {b.anchors}

Issued(a, c) == Equivalent(a.subject, c.issuer) /\ Verifies(c, a.spki)

First(anchors, hits) == IF hits = {} THEN <<>> ELSE <<anchors[Min(hits)]>>

\* MUTANT: another name under the same digest ends the scan.
StoreMatchStops(filed, c) ==
    LET key == [i \in 1 .. Len(filed) |-> NameKey(filed[i].subject)]
        issuerKey == NameKey(c.issuer)
        start == Min({i \in 1 .. Len(filed) : key[i] >= issuerKey} \cup {Len(filed) + 1})
        hits == {i \in start .. Len(filed) :
                    /\ \A j \in start .. i : key[j] = issuerKey
                                             /\ Equivalent(filed[j].subject, c.issuer)
                    /\ Issued(filed[i], c)}
    IN First(filed, hits)

\* TrustStore::verify_subject: from the partition point on while the digest is
\* the issuer's; the first anchor of that name whose key verifies.
StoreMatch(filed, c) ==
    LET key == [i \in 1 .. Len(filed) |-> NameKey(filed[i].subject)]
        issuerKey == NameKey(c.issuer)
        start == Min({i \in 1 .. Len(filed) : key[i] >= issuerKey} \cup {Len(filed) + 1})
        hits == {i \in start .. Len(filed) :
                    /\ \A j \in start .. i : key[j] = issuerKey
                    /\ Issued(filed[i], c)}
    IN First(filed, hits)

\* DistinguishedName::parse in TrustAnchor::verify_subject fails: the name is not
\* the issuer's byte for byte and is malformed.
NameFails(a, c) == a.subject # c.issuer /\ ~ParsesName(a.subject)

\* verifies_against_anchor, TrustAnchor::verify_subject: in the caller's order, up
\* to the first anchor that issued c or fails.
SliceMatch(anchors, c) ==
    First(anchors, {i \in 1 .. Len(anchors) : Issued(anchors[i], c) \/ NameFails(anchors[i], c)})

\* The anchor at which the scan for certificate c ends.
AnchorOf(b, order, c) == IF b.store THEN StoreMatch(order, c) ELSE SliceMatch(order, c)

\* The scan of a slice ended there with an error.
AnchorFails(b, a, c) == ~b.store /\ (NameFails(a, c) \/ ~AnchorReads(a))

\* The constraints as the holder of the anchor keeps them.
AnchorNames(b, a) ==
    IF b.store THEN Prepared(AnchorConstraints(a)) ELSE Parsed(AnchorConstraints(a))

-----------------------------------------------------------------------------
(* The world of a bundle. *)

\* Profile::path_limit: at most MAX_LEN, and 255 for none.
PathLimit(c) ==
    IF IsCa(c) /\ Extension(c, "basicConstraints").pathLen # -1
    THEN Min({Extension(c, "basicConstraints").pathLen, MAX_LEN})
    ELSE 255

\* The certificates whose names the constraints refuse.
Refused(b, given, names) ==
    {j \in given : ~NamesAdmitted(names, SubjectAltNames(b.certs[j + 1]))}

\* Chain::try_push: the certificates that are looked at.
Given(b) == 0 .. Min({Len(b.certs), MAX_LEN}) - 1

AllParse(b) == \A i \in Given(b) : CertParses(b.certs[i + 1])

\* PathCert::prepare of every certificate, once all parse.  The time is given to
\* the code as seconds.
Ready(b) ==
    LET now == RefUnixTime(b.now)
    IN IF AllParse(b) THEN {i \in Given(b) : Prepares(b.certs[i + 1], now)} ELSE {}

\* The checks of each certificate, of which those in ready were prepared;
\* anchors holds the anchor found for each of them.  An anchor that fails forbids
\* every path: anchor_accepts rejects the error and the search goes on.
WorldOf(b, ready, anchors) ==
    LET cert(i) == b.certs[i + 1]
        given == Given(b)
        anchored == {i \in ready : anchors[i] # <<>>}
        anchor(i) == anchors[i][1]
    IN [n |-> Cardinality(given),
        tooLong |-> Len(b.certs) > MAX_LEN,
        parsed |-> AllParse(b),
        leafOk |-> 0 \in ready /\ CheckLeaf(cert(0), b.host),
        prepared |-> ready,
        named |-> {e \in given \X given : Equivalent(cert(e[2]).subject, cert(e[1]).issuer)},
        signed |-> {e \in given \X given : Verifies(cert(e[1]), cert(e[2]).spki)},
        ca |-> {i \in ready : CheckAuthority(cert(i))},
        pathLimit |-> [i \in Certs |-> IF i \in ready THEN PathLimit(cert(i)) ELSE 0],
        forbids |-> [i \in Certs |->
            IF i \in ready /\ HasExtension(cert(i), "nameConstraints")
            THEN Refused(b, given, Parsed(Extension(cert(i), "nameConstraints")))
            ELSE {}],
        anchored |-> anchored,
        anchorForbids |-> [i \in Certs |->
            IF i \notin anchored THEN {}
            ELSE IF AnchorFails(b, anchor(i), cert(i)) THEN given
            ELSE Refused(b, given, AnchorNames(b, anchor(i)))]]

ValidationInit ==
    /\ SearchInit
    /\ \/ bundle = NoBundle /\ world \in Worlds
       \/ /\ \E class \in Bundles : bundle \in class
          /\ AnchorsHeld(bundle)
          /\ \E ready \in {Ready(bundle)}, order \in Orders(bundle) :
               \E anchors \in {[i \in ready |-> AnchorOf(bundle, order, bundle.certs[i + 1])]} :
                 world = WorldOf(bundle, ready, anchors)

ValidationNext == Next /\ UNCHANGED bundle

validationVars == <<vars, bundle>>

ValidationSpec ==
    ValidationInit /\ [][ValidationNext]_validationVars /\ WF_validationVars(ValidationNext)

-----------------------------------------------------------------------------
(* What a valid chain is. *)

RefHostname(c, host) ==
    \E g \in Range(SubjectAltNames(c)) :
        IF HostAddress(host) # NoAddress
        THEN g.kind = "Ip" /\ g.value = HostAddress(host)
        ELSE g.kind = "Dns" /\ RefMatchesDns(host.text, g.value)

RefReady(c, now) ==
    /\ CertParses(c)
    /\ RefExtensionsDistinct(c.exts) /\ EntriesParse(c.exts)
    /\ RefNotAfter(c.notBefore, now) /\ RefNotAfter(now, c.notAfter)

RefIssues(c, issuer) == RefEquivalent(issuer.subject, c.issuer) /\ Verifies(c, issuer.spki)

\* The certificates of b with the indices p form a valid path under the anchor a.
RefTrusted(b, p, a) ==
    LET c(k) == b.certs[p[k] + 1]
        constraints(k) == Extension(c(k), "nameConstraints")
    IN /\ p[1] = 0 /\ IsInjective(p)
       /\ \A k \in 1 .. Len(p) : RefReady(c(k), b.now)
       /\ CheckEndEntity(c(1)) /\ RefHostname(c(1), b.host)
       /\ \A k \in 2 .. Len(p) :
             /\ RefIssues(c(k - 1), c(k)) /\ CheckAuthority(c(k))
             /\ LET limit == Extension(c(k), "basicConstraints").pathLen
                IN limit = -1 \/ k - 2 <= limit
             /\ HasExtension(c(k), "nameConstraints") =>
                   \A j \in 1 .. k - 1 : RefNamesAdmitted(constraints(k), SubjectAltNames(c(j)))
       /\ RefIssues(c(Len(p)), a)
       /\ AnchorReads(a)
       /\ \A j \in 1 .. Len(p) : RefNamesAdmitted(AnchorConstraints(a), SubjectAltNames(c(j)))

\* The anchors of b that may answer for certificate c.  Of a slice it is the first
\* that issued c, unless a malformed name stands before it; of a store any that
\* issued c.
RefDeciding(b, c) ==
    LET n == 1 .. Len(b.anchors)
        issuing == {i \in n : RefIssues(c, b.anchors[i])}
        blocked(i) == \E j \in 1 .. i - 1 :
                         b.anchors[j].subject # c.issuer /\ ~ParsesName(b.anchors[j].subject)
    IN {b.anchors[i] : i \in {i \in issuing : b.store \/ (i = Min(issuing) /\ ~blocked(i))}}

\* A chain is accepted only if the certificates on the path are valid under one of
\* the anchors by the reference definitions: names by their labels, name
\* constraints by RFC 5280, distinguished names by their words, validity by the
\* calendar, and an anchor from a certificate keeps its name constraints.
AcceptedChainIsValid ==
    (IsBundle /\ result = "Ok") =>
        \E a \in Range(bundle.anchors) : RefTrusted(bundle, PathOf(frames), a)

\* A chain is refused only if every path in it fails under an anchor that may
\* answer for its last certificate, or none does: the anchor that
\* verifies_against_anchor or TrustStore::verify_subject comes to decides, and a
\* second one that would admit the path is not tried.
ValidChainIsAccepted ==
    (IsBundle /\ result = "Err" /\ Len(bundle.certs) <= MAX_LEN
        /\ \A c \in Range(bundle.certs) : CertParses(c)) =>
        \A len \in 1 .. Len(bundle.certs) :
            \A p \in [1 .. len -> 0 .. Len(bundle.certs) - 1] :
                LET deciding == RefDeciding(bundle, bundle.certs[p[len] + 1])
                IN deciding = {} \/ \E a \in deciding : ~RefTrusted(bundle, p, a)

\* The store's index over digests, which may collide, misses no anchor however the
\* sort left those of one name: it has one for a certificate exactly if one of the
\* anchors issued it by the reference, and the one it has did
\* (TrustStore::verify_subject).
StoreFindsIssuer ==
    (IsBundle /\ bundle.store /\ result = "None" /\ world.parsed) =>
        \A filed \in Filings(bundle.anchors), c \in Range(bundle.certs) :
            LET found == StoreMatch(filed, c)
            IN /\ found = <<>> <=> \A a \in Range(bundle.anchors) : ~RefIssues(c, a)
               /\ \A a \in Range(found) : RefIssues(c, a)
=============================================================================
