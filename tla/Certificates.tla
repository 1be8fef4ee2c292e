---------------------------- MODULE Certificates ----------------------------
(***************************************************************************)
(* X.509 certificates (identity/cert, identity/chain/extensions.rs,         *)
(* identity/mod.rs): what Cert::parse admits, validity periods, signature   *)
(* algorithms, the extensions and the checks of a leaf and of an issuer.    *)
(*                                                                          *)
(* A certificate is a record of its decoded fields; DER itself is left out. *)
(***************************************************************************)
EXTENDS DistinguishedNames

CONSTANT FILTER_BITS    \* the bits of OidFilter, 64 in the code

ASSUME CertificatesAssumption == FILTER_BITS \in Nat \ {0}

-----------------------------------------------------------------------------
(* UnixTime.  A time is encoded as [tag, year, month, day, second], the year  *)
(* in two digits for UTCTime; it is decoded to [days, second].                *)

IsLeap(y) == (y % 4 = 0 /\ y % 100 # 0) \/ y % 400 = 0

LeapsBefore(y) == (y - 1) \div 4 - (y - 1) \div 100 + (y - 1) \div 400

MONTH_DAYS == <<31, 28, 31, 30, 31, 30, 31, 31, 30, 31, 30, 31>>

DAYS_BEFORE_MONTH == <<0, 31, 59, 90, 120, 151, 181, 212, 243, 273, 304, 334>>

MonthDays(y, m) == IF m = 2 /\ IsLeap(y) THEN 29 ELSE MONTH_DAYS[m]

\* from_utc: two digits stand for 1950 to 2049.
Year(t) == IF t.tag = "Utc" THEN (IF t.year < 50 THEN 2000 ELSE 1900) + t.year ELSE t.year

\* from_x509: GeneralizedTime only from 2050 on.
TimeParses(t) ==
    /\ t.tag \in {"Utc", "Generalized"}
    /\ t.tag = "Generalized" => t.year >= 2050
    /\ Year(t) \in 1950 .. 9999 /\ t.month \in 1 .. 12
    /\ t.day \in 1 .. MonthDays(Year(t), t.month)
    /\ t.second \in 0 .. 86399

\* from_components
UnixTime(t) ==
    LET y == Year(t)
    IN [days |-> (y - 1970) * 365 + LeapsBefore(y) - LeapsBefore(1970)
                 + DAYS_BEFORE_MONTH[t.month] + (IF t.month > 2 /\ IsLeap(y) THEN 1 ELSE 0)
                 + t.day - 1,
        second |-> t.second]

NotAfter(s, t) == s.days < t.days \/ (s.days = t.days /\ s.second <= t.second)

\* The days from 1970, counted year by year and month by month.
RefUnixTime(t) ==
    LET y == Year(t)
        years(from, to) == 365 * (to - from) + Cardinality({k \in from .. to - 1 : IsLeap(k)})
        months == MapThenSumSet(LAMBDA m : MonthDays(y, m), 1 .. t.month - 1)
    IN [days |-> (IF y >= 1970 THEN years(1970, y) ELSE -years(y, 1970)) + months + t.day - 1,
        second |-> t.second]

\* The calendar order.
RefNotAfter(s, t) ==
    LET fields(u) == <<Year(u), u.month, u.day, u.second>>
        differ == {i \in 1 .. 4 : fields(s)[i] # fields(t)[i]}
    IN differ = {} \/ fields(s)[Min(differ)] < fields(t)[Min(differ)]

-----------------------------------------------------------------------------
(* Algorithms: [oid, params, pss].  params is "absent", "null", "pss" or a    *)
(* named curve; pss holds the encoded fields of RSA-PSS, "default" and -1 for *)
(* those left out.                                                            *)

\* PssParameters::parse: a default may not be encoded, the trailer not at all.
PssParses(p) == p.hash # "sha1" /\ p.mask # "sha1" /\ p.salt # 20 /\ ~p.trailer

Pss(p) ==
    [hash |-> IF p.hash = "default" THEN "sha1" ELSE p.hash,
     mask |-> IF p.mask = "default" THEN "sha1" ELSE p.mask,
     salt |-> IF p.salt = -1 THEN 20 ELSE p.salt]

RsaPkcs1 == {"rsaSha256", "rsaSha384", "rsaSha512"}

\* algorithm::Signature::parse
SignatureParses(alg) ==
    CASE alg.oid \in RsaPkcs1 -> alg.params \in {"absent", "null"}
      [] alg.oid \in {"ecdsaSha256", "ecdsaSha384", "ed25519"} -> alg.params = "absent"
      [] alg.oid = "rsaPss" -> alg.params = "pss" /\ PssParses(alg.pss)
      [] OTHER -> TRUE

\* algorithm::PublicKey::parse; an RSA-PSS key may leave its parameters out.
PublicKeyParses(alg) ==
    CASE alg.oid = "rsa" -> alg.params = "null"
      [] alg.oid = "rsaPss" -> alg.params = "absent" \/ (alg.params = "pss" /\ PssParses(alg.pss))
      [] alg.oid = "ec" -> alg.params \notin {"absent", "null"}
      [] alg.oid = "ed25519" -> alg.params = "absent"
      [] OTHER -> TRUE

SALTS == [sha256 |-> 32, sha384 |-> 48, sha512 |-> 64]

\* PssParameters::profile
PssSupported(p) == p.hash = p.mask /\ p.hash \in DOMAIN SALTS /\ p.salt = SALTS[p.hash]

\* PssParameters::permits
Permits(k, p) == k.hash = p.hash /\ k.mask = p.mask /\ p.salt >= k.salt

\* Signature::verification_profile finds an algorithm to verify with.
Verifiable(alg, key) ==
    \/ alg.oid \in RsaPkcs1 /\ key.oid = "rsa"
    \/ alg.oid = "rsaPss" /\ key.oid = "rsa" /\ PssSupported(Pss(alg.pss))
    \/ /\ alg.oid = "rsaPss" /\ key.oid = "rsaPss" /\ PssSupported(Pss(alg.pss))
       /\ key.params = "pss" => Permits(Pss(key.pss), Pss(alg.pss))
    \/ alg.oid = "ecdsaSha256" /\ key.oid = "ec" /\ key.params = "P256"
    \/ alg.oid = "ecdsaSha384" /\ key.oid = "ec" /\ key.params = "P384"
    \/ alg.oid = "ed25519" /\ key.oid = "ed25519"

\* Signed::verify_signature.  A signature names the key that made it.
Verifies(c, spki) == Verifiable(c.alg, spki.alg) /\ c.signer = spki.key

-----------------------------------------------------------------------------
(* Extensions: a sequence of [oid, critical, value]. *)

Handled == {"keyUsage", "san", "basicConstraints", "nameConstraints", "eku"}

OID_HASH == [keyUsage |-> 0, san |-> 1, basicConstraints |-> 2, nameConstraints |-> 3, eku |-> 4,
             private |-> 5, other |-> 6]

\* OidFilter::bit
OidBit(oid) == OID_HASH[oid] % FILTER_BITS

\* MUTANT: a bit that is set is taken for a duplicate.
AdmitOidByBit(exts, acc, i) ==
    [seen |-> acc.seen \cup {OidBit(exts[i].oid)},
     ok |-> acc.ok /\ OidBit(exts[i].oid) \notin acc.seen]

\* OidFilter::admit: the prefix is searched only if the bit was set before.
AdmitOid(exts, acc, i) ==
    [seen |-> acc.seen \cup {OidBit(exts[i].oid)},
     ok |-> /\ acc.ok
            /\ OidBit(exts[i].oid) \in acc.seen => \A j \in 1 .. i - 1 : exts[j].oid # exts[i].oid]

\* ExtensionIter: no duplicates, not too many, and critical never encoded FALSE.
ExtensionsIterate(exts) ==
    /\ Len(exts) <= MAX_EXTENSION_VALUES
    /\ \A i \in 1 .. Len(exts) : exts[i].critical # "false"
    /\ FoldLeft(LAMBDA acc, i : AdmitOid(exts, acc, i), [seen |-> {}, ok |-> TRUE],
                [i \in 1 .. Len(exts) |-> i]).ok

\* No extension comes twice.
RefExtensionsDistinct(exts) ==
    /\ Len(exts) <= MAX_EXTENSION_VALUES
    /\ \A i \in 1 .. Len(exts) : exts[i].critical # "false"
    /\ Cardinality({exts[i].oid : i \in 1 .. Len(exts)}) = Len(exts)

\* The parsers of the values: a path length only for a CA, usages not empty.
ValueParses(e) ==
    CASE e.oid = "basicConstraints" -> e.value.pathLen # -1 => e.value.ca
      [] e.oid = "keyUsage" -> e.value # {}
      [] e.oid = "eku" -> Cardinality(e.value) \in 1 .. MAX_EXTENSION_VALUES
      [] e.oid = "nameConstraints" -> ValidConstraints(e.value)
      [] e.oid = "san" -> ValidGeneralNames(e.value, FALSE)
      [] OTHER -> TRUE

EntriesParse(exts) ==
    \A i \in 1 .. Len(exts) :
        (exts[i].critical = "true" => exts[i].oid \in Handled) /\ ValueParses(exts[i])

\* Profile::parse
ProfileParses(c) == ExtensionsIterate(c.exts) /\ EntriesParse(c.exts)

HasExtension(c, oid) == \E i \in 1 .. Len(c.exts) : c.exts[i].oid = oid

Extension(c, oid) == c.exts[Max({i \in 1 .. Len(c.exts) : c.exts[i].oid = oid})].value

\* The validated subjectAltName contents, empty without one.
SubjectAltNames(c) == IF HasExtension(c, "san") THEN Extension(c, "san") ELSE <<>>

IsCa(c) == HasExtension(c, "basicConstraints") /\ Extension(c, "basicConstraints").ca

-----------------------------------------------------------------------------
(* The checks.  A host is a DNS name [ip, text] or the text of an address. *)

HostAddress(host) == IF host.ip THEN ParseIp(host) ELSE NoAddress

\* Profile::check_hostname: an address is compared with addresses only.
CheckHostname(c, host) ==
    LET names == Range(SubjectAltNames(c))
    IN IF HostAddress(host) # NoAddress
       THEN \E g \in names : g.kind = "Ip" /\ g.value = HostAddress(host)
       ELSE \E g \in names : g.kind = "Dns" /\ MatchesDns(host.text, g.value)

\* Profile::check_end_entity and check_server_auth
CheckEndEntity(c) ==
    /\ ~IsCa(c)
    /\ HasExtension(c, "keyUsage") => "digitalSignature" \in Extension(c, "keyUsage")
    /\ HasExtension(c, "eku") => "serverAuth" \in Extension(c, "eku")

\* Profile::check_leaf
CheckLeaf(c, host) == CheckEndEntity(c) /\ CheckHostname(c, host)

\* Profile::check_issuer_is_ca and check_ca_eku
CheckAuthority(c) ==
    /\ IsCa(c)
    /\ HasExtension(c, "keyUsage") => "keyCertSign" \in Extension(c, "keyUsage")
    /\ HasExtension(c, "eku") => Extension(c, "eku") \cap {"serverAuth", "any"} # {}

\* PathCert::prepare
Prepares(c, now) ==
    /\ ProfileParses(c)
    /\ NotAfter(UnixTime(c.notBefore), now) /\ NotAfter(now, UnixTime(c.notAfter))

\* Cert::parse_tbs: the encoded version is 1 or 2, for v2 and v3, or absent.
VersionParses(c) ==
    /\ c.version \in 1 .. 3
    /\ c.exts # <<>> => c.version = 3
    /\ c.uids => c.version >= 2

\* Cert::parse
CertParses(c) ==
    /\ VersionParses(c)
    /\ c.serial \in 1 .. 20    \* its bytes, 0 for the number zero
    /\ SignatureParses(c.alg) /\ c.outerAlg = c.alg
    /\ PreparesName(c.issuer) /\ ParsesName(c.subject)
    /\ TimeParses(c.notBefore) /\ TimeParses(c.notAfter)
    /\ NotAfter(UnixTime(c.notBefore), UnixTime(c.notAfter))
    /\ PublicKeyParses(c.spki.alg)
=============================================================================
