-------------------------- MODULE MCPathValidation --------------------------
(* Small chains for TLC: the worlds of MCChainSearch, and certificates that   *)
(* differ from a valid chain in one respect, through every case of it.        *)
EXTENDS PathValidation, MCChainSearch

\* Every text over an alphabet up to a length.
Texts(chars, length) == UNION {[1 .. n -> chars] : n \in 0 .. length}

-----------------------------------------------------------------------------
(* A valid chain. *)

Attribute(oid, tag, text) == [oid |-> oid, tag |-> tag, text |-> text]

Name(text) == <<<<Attribute("cn", "UTF8", text)>>>>

Utc(year, month, day, second) ==
    [tag |-> "Utc", year |-> year, month |-> month, day |-> day, second |-> second]

Generalized(year, month, day, second) ==
    [tag |-> "Generalized", year |-> year, month |-> month, day |-> day, second |-> second]

NoPss == [hash |-> "default", mask |-> "default", salt |-> -1, trailer |-> FALSE]

Algorithm(oid, params) == [oid |-> oid, params |-> params, pss |-> NoPss]

Ed25519 == Algorithm("ed25519", "absent")

Spki(key) == [alg |-> Ed25519, key |-> key]

Ext(oid, value) == [oid |-> oid, critical |-> "absent", value |-> value]

Dns(text) == [kind |-> "Dns", value |-> text]

Ip(bits) == [kind |-> "Ip", value |-> bits]

Other == [kind |-> "Other", value |-> <<>>]

San(names) == Ext("san", names)

Ca(pathLen) == Ext("basicConstraints", [ca |-> TRUE, pathLen |-> pathLen])

Constraints(permitted, excluded) == [permitted |-> permitted, excluded |-> excluded]

Cert(subject, key, issuer, signer, exts) ==
    [version |-> 3, serial |-> 1, alg |-> Ed25519, outerAlg |-> Ed25519, issuer |-> issuer,
     subject |-> subject, notBefore |-> Utc(20, 1, 1, 0), notAfter |-> Utc(30, 1, 1, 0),
     spki |-> Spki(key), signer |-> signer, exts |-> exts, uids |-> FALSE]

Anchor(subject, key) ==
    [subject |-> subject, spki |-> Spki(key), source |-> "Unconstrained",
     constraints |-> NoConstraints, exts |-> <<>>]

Host(text) == [ip |-> FALSE, text |-> text]

HostName == <<"a", ".", "b">>

LeafExts == <<San(<<Dns(HostName)>>)>>

Leaf == Cert(Name(<<"a">>), "k0", Name(<<"b">>), "k1", LeafExts)

Issuer == Cert(Name(<<"b">>), "k1", Name(<<"A", "B">>), "k2", <<Ca(-1)>>)

Root == Anchor(Name(<<"A", "B">>), "k2")

Bundle(certs, anchors) ==
    [certs |-> certs, anchors |-> anchors, host |-> Host(HostName), now |-> Utc(25, 6, 15, 7),
     store |-> TRUE]

Valid == Bundle(<<Leaf, Issuer>>, <<Root>>)

\* The leaf directly under the anchor.
Short == Bundle(<<Leaf>>, <<Anchor(Name(<<"b">>), "k1")>>)

WithSan(b, names) == [b EXCEPT !.certs[1].exts = <<San(names)>>]

-----------------------------------------------------------------------------
(* Hosts and names. *)

\* Short texts of any shape and longer ones of three labels.
References ==
    Texts({"A", "."}, 3) \cup
    {<<x, ".", y, ".", z>> : x \in {"A", "b"}, y \in {"A", "b"}, z \in {"A", "b"}} \cup
    {<<"A", ".", "A", ".", "A", ".">>, <<"A", ".", ".", "A">>, <<"b">>, <<"b", ".", "A">>, <<"NUL">>}

Presented ==
    (Texts({"a", ".", "*"}, 3) \ {<<>>}) \cup
    {<<x, ".", y, ".", z>> : x \in {"a", "*"}, y \in {"a", "*"}, z \in {"a", "*"}} \cup
    {<<"*", ".", "a", ".", "a", ".">>, <<"*", "*", ".", "a", ".", "a">>,
     <<"a", "*", ".", "a", ".", "a">>, <<"*", ".", "*", ".", "a", ".", "a">>,
     <<"*", ".", "a", ".">>, <<"a", ".", ".", "a">>, <<"*", ".", ".", "a">>, <<"a", ".", "NUL">>,
     <<"high">>}

Hosts ==
    {[WithSan(Short, <<Dns(p)>>) EXCEPT !.host = Host(r)] : r \in References, p \in Presented}

Token(parts) == [quad |-> Len(parts) > 1, parts |-> parts]

V6(head, compressed, tail) ==
    [ip |-> TRUE, text |-> <<"1">>, v6 |-> TRUE, parts |-> <<>>, head |-> head,
     compressed |-> compressed, tail |-> tail]

V4(parts) ==
    [ip |-> TRUE, text |-> <<"1">>, v6 |-> FALSE, parts |-> parts, head |-> <<>>,
     compressed |-> FALSE, tail |-> <<>>]

AddressBits(n) == [1 .. n -> {0, 1}]

Tokens ==
    {Token(<<<<0, 1>>>>), Token(<<<<1, 1>>>>), Token(<<<<1>>, <<0>>, <<0>>, <<1>>>>),
     Token(<<<<1>>, <<0>>>>)}    \* an IPv4 address of two parts

Literals ==
    {V6(h, c, t) : h \in Texts(Tokens, 2), c \in BOOLEAN, t \in Texts(Tokens, 1)} \cup
    {V6(h, FALSE, <<>>) : h \in Texts({Token(<<<<0, 1>>>>), Token(<<<<1, 1>>>>)}, 5)} \cup
    {V4(p) : p \in Texts({<<0>>, <<1>>}, 5)}

Addresses ==
    {[WithSan(Short, <<Dns(<<"a">>), Ip(a)>>) EXCEPT !.host = h] :
        h \in Literals, a \in {<<0, 1, 0, 0, 0, 0, 1, 1>>, <<0, 1, 0, 1, 1, 0, 0, 1>>,
                               <<0, 1, 1, 0, 0, 1, 0, 0>>, <<0, 1, 1, 1>>, <<1, 0>>}}

-----------------------------------------------------------------------------
(* Name constraints, held by the issuer or by the anchor. *)

Constrained(nc, names) ==
    {WithSan([Valid EXCEPT !.certs[2].exts = <<Ca(-1), Ext("nameConstraints", nc)>>], names)} \cup
    {WithSan([Short EXCEPT !.anchors[1].source = "NameConstraints",
                           !.anchors[1].constraints = nc, !.store = store], names) :
        store \in BOOLEAN}

Subtrees ==
    UNION {{[b EXCEPT !.host = Host(n)] : b \in Constrained(nc, <<Dns(n)>>)} :
        n \in (Texts({"a", "."}, 3) \ {<<>>}) \cup
              {<<"b">>, <<"b", "a">>, <<"b", ".", "a">>, <<"a", ".", "b">>, <<"b", ".", "b", ".", "a">>,
               <<"a", "a", ".", "a">>},
        nc \in UNION {{Constraints(<<Dns(c)>>, <<>>), Constraints(<<>>, <<Dns(c)>>)} :
            c \in {<<"A">>, <<".", "A">>, <<"A", ".", "A">>, <<".", "b", ".", "A">>, <<"A", "A">>,
                   <<".">>, <<"A", ".">>, <<"*", ".", "A">>}}}

Networks ==
    UNION {Constrained(nc, <<Dns(HostName), Ip(a)>>) :
        a \in {b \o <<0, 1>> : b \in AddressBits(2)},
        nc \in UNION {{Constraints(<<Ip(n \o m)>>, <<>>), Constraints(<<>>, <<Ip(n \o m)>>)} :
            n \in {<<0, 0, 0, 0>>, <<1, 0, 1, 1>>}, m \in AddressBits(4)}}

\* Lists of several kinds in every order.
Mixed ==
    LET dns == Dns(<<"b">>)
        ip == Ip(<<1, 0, 0, 0, 1, 0, 0, 0>>)
        lists == {<<>>, <<dns>>, <<ip>>, <<Other>>, <<dns, ip>>, <<ip, dns>>, <<Other, dns>>,
                  <<ip, dns, Dns(<<"A">>)>>}
    IN UNION {Constrained(Constraints(permitted, excluded), names) :
        permitted \in lists, excluded \in lists,
        names \in {<<Dns(HostName)>>, <<Dns(HostName), Ip(<<1, 1, 0, 0>>)>>,
                   <<Dns(HostName), Ip(<<0, 1, 0, 0>>), Other>>,
                   <<Dns(HostName), Dns(<<"a">>), Ip(<<1, 0, 0, 0, 0, 0, 0, 0>>)>>}}

-----------------------------------------------------------------------------
(* Distinguished names and the store. *)

Words ==
    {<<>>, <<" ">>, <<"a">>, <<"A">>, <<" ", "a">>, <<"a", " ", " ">>, <<"a", " ", "b">>,
     <<"A", "tab", " ", "B">>, <<"a", "b">>, <<"a", "del", "b">>, <<" ", "mark">>, <<"mark">>,
     <<"a", " ", " ", "mark">>, <<"a", " ", "mark">>, <<"bad">>}

Attributes ==
    {Attribute("cn", "UTF8", w) : w \in Words} \cup
    {Attribute("cn", "Printable", <<"a">>), Attribute("cn", "Printable", <<"@">>),
     Attribute("cn", "IA5", <<"a">>), Attribute("dc", "IA5", <<"A">>), Attribute("dc", "IA5", <<"a">>),
     Attribute("dc", "UTF8", <<"A">>), Attribute("dc", "UTF8", <<"a">>),
     Attribute("em", "Printable", <<"@">>), Attribute("em", "IA5", <<"@">>)}

FewAttributes ==
    {Attribute("cn", "UTF8", <<"a">>), Attribute("cn", "Printable", <<"A", " ">>),
     Attribute("dc", "IA5", <<"b">>)}

SomeNames ==
    {<<<<a>>>> : a \in Attributes} \cup {<<r>> : r \in Texts(FewAttributes, 2)} \cup
    {<<<<a, a, a>>>> : a \in FewAttributes} \cup    \* too many
    {<<<<a>>, <<b>>>> : a, b \in FewAttributes} \cup {<<>>}

\* The name of an issuer and the subject of the anchor or of the next certificate.
Naming ==
    UNION {{[Short EXCEPT !.certs[1].issuer = x, !.anchors[1].subject = y, !.store = store] :
        store \in {PreparesName(y), ParsesName(y)}} : x, y \in SomeNames} \cup
    {[Valid EXCEPT !.certs[1].issuer = x, !.certs[2].subject = y] :
        x \in SomeNames, y \in {<<<<a>>>> : a \in FewAttributes}}

\* Anchors whose digests may collide, each with a key of its own.
Stores ==
    {[Short EXCEPT !.certs[1].issuer = <<<<x>>>>, !.certs[1].signer = signer,
                   !.anchors = <<Anchor(<<<<a>>>>, "k1"), Anchor(<<<<b>>>>, "k2"),
                                 Anchor(<<<<c>>>>, "k3")>>] :
        x, a, b, c \in {Attribute("cn", "UTF8", w) : w \in {<<"a">>, <<"b">>, <<"A", " ", "b">>, <<"mark">>}},
        signer \in {"k2", "k3"}}

\* Anchors that share names and keys and differ in their constraints, with names
\* that do not parse among them; one of these can still be filed in a store.
Shared ==
    LET unprintable == <<<<Attribute("em", "Printable", <<"@">>)>>>>
        excluding(a) == [a EXCEPT !.source = "NameConstraints",
                                  !.constraints = Constraints(<<>>, <<Dns(<<"b">>)>>)]
        plain == {Anchor(subject, "k1") : subject \in {Name(<<"b">>), Name(<<"B">>), unprintable}}
                 \cup {Anchor(Name(<<"b">>), "k2"), Anchor(Name(<<"bad">>), "k1")}
        anchors == plain \cup {excluding(a) : a \in {Anchor(Name(<<"b">>), "k1"), Anchor(Name(<<"B">>), "k1")}}
    IN {[Short EXCEPT !.certs[1].issuer = issuer, !.anchors = <<a, b, c>>, !.store = store] :
            issuer \in {Name(<<"b">>), unprintable}, a, b \in anchors,
            c \in {Anchor(Name(<<"b">>), "k1"), excluding(Anchor(Name(<<"B">>), "k1"))},
            store \in BOOLEAN} \cup
       {[Valid EXCEPT !.anchors = <<a, b>>, !.store = store] :
            a, b \in {Root, excluding(Root), Anchor(Name(<<"b">>), "k1"), Anchor(unprintable, "k2")},
            store \in BOOLEAN}

-----------------------------------------------------------------------------
(* Times, extensions, algorithms and the fields of a certificate. *)

Dates ==
    {Utc(50, 1, 1, 0), Utc(69, 12, 31, 86399), Utc(70, 1, 1, 0), Utc(0, 2, 28, 0), Utc(0, 2, 29, 1),
     Utc(0, 3, 1, 0), Utc(23, 2, 29, 0), Utc(49, 12, 31, 86399), Generalized(2049, 12, 31, 0),
     Generalized(2050, 1, 1, 0), Generalized(2100, 2, 28, 86399), Generalized(2100, 2, 29, 0),
     Generalized(2100, 3, 1, 0), Generalized(2400, 2, 29, 5), Generalized(9999, 12, 31, 0),
     [tag |-> "Other", year |-> 20, month |-> 1, day |-> 1, second |-> 0]}

Times ==
    {[Short EXCEPT !.certs[1].notBefore = from, !.certs[1].notAfter = to, !.now = now] :
        from \in Dates, to \in Dates, now \in {t \in Dates : TimeParses(t) /\ Year(t) < 9999}}

LeafExtensions ==
    {San(<<Dns(HostName)>>), [San(<<Dns(HostName)>>) EXCEPT !.critical = "true"], San(<<>>),
     Ext("basicConstraints", [ca |-> FALSE, pathLen |-> -1]), Ca(-1),
     Ext("keyUsage", {"keyCertSign"}), Ext("keyUsage", {"digitalSignature"}), Ext("keyUsage", {}),
     Ext("eku", {"any"}), Ext("eku", {"serverAuth"}), Ext("private", 0),
     [Ext("other", 0) EXCEPT !.critical = "true"], [Ext("private", 0) EXCEPT !.critical = "false"]}

IssuerExtensions ==
    {Ca(-1), Ca(0), Ext("basicConstraints", [ca |-> FALSE, pathLen |-> -1]),
     Ext("basicConstraints", [ca |-> FALSE, pathLen |-> 0]), Ext("keyUsage", {"keyCertSign"}),
     Ext("keyUsage", {"digitalSignature"}), Ext("eku", {"any"}), Ext("eku", {"clientAuth"}),
     Ext("private", 0), Ext("nameConstraints", Constraints(<<Dns(<<"b">>)>>, <<>>)),
     Ext("nameConstraints", NoConstraints)}

Extensions ==
    {[Short EXCEPT !.certs[1].exts = e] : e \in Texts(LeafExtensions, 2)} \cup
    {[Short EXCEPT !.certs[1].exts = LeafExts \o e] : e \in Texts(LeafExtensions, 2)} \cup
    {[Short EXCEPT !.certs[1].exts = <<San(<<Dns(HostName)>>)>> \o e] :
        e \in [1 .. 4 -> {Ext("private", 0), Ext("other", 0), Ext("eku", {"serverAuth"})}]} \cup
    {[Valid EXCEPT !.certs[2].exts = e] : e \in Texts(IssuerExtensions, 2)} \cup
    {[Valid EXCEPT !.certs[2].exts = <<Ca(-1)>> \o e] : e \in Texts(IssuerExtensions, 2)} \cup
    {[Short EXCEPT !.anchors[1].source = "Certificate", !.anchors[1].exts = e,
                   !.store = store] :
        e \in Texts(IssuerExtensions, 2), store \in BOOLEAN}

Pss256 == [hash |-> "sha256", mask |-> "sha256", salt |-> 32, trailer |-> FALSE]

PssParameterSets ==
    {NoPss, Pss256, [Pss256 EXCEPT !.salt = 20], [Pss256 EXCEPT !.salt = 16],
     [Pss256 EXCEPT !.salt = 48], [Pss256 EXCEPT !.mask = "default"], [Pss256 EXCEPT !.hash = "sha1"],
     [Pss256 EXCEPT !.trailer = TRUE]}

WithPss(pss) == [oid |-> "rsaPss", params |-> "pss", pss |-> pss]

SignatureAlgorithms ==
    {Algorithm(oid, params) : oid \in RsaPkcs1 \cup {"ecdsaSha256", "ecdsaSha384", "ed25519", "odd"},
                              params \in {"absent", "null"}} \cup
    {WithPss(pss) : pss \in PssParameterSets} \cup {Algorithm("rsaPss", "absent")}

KeyAlgorithms ==
    {Algorithm(oid, params) : oid \in {"rsa", "rsaPss", "ed25519", "odd"}, params \in {"absent", "null"}} \cup
    {Algorithm("ec", params) : params \in {"P256", "P384", "P521", "absent"}} \cup
    {WithPss(pss) : pss \in PssParameterSets}

Algorithms ==
    {[Valid EXCEPT !.certs[1].alg = s, !.certs[1].outerAlg = s, !.certs[2].spki.alg = k] :
        s \in SignatureAlgorithms, k \in KeyAlgorithms}

Fields ==
    {[Short EXCEPT !.certs[1].version = v, !.certs[1].uids = u, !.certs[1].serial = n] :
        v \in 0 .. 4, u \in BOOLEAN, n \in {0, 1, 20, 21}} \cup
    {[Short EXCEPT !.certs[1].outerAlg = Algorithm("ed25519", "null")],
     [Short EXCEPT !.certs = <<>>],
     Bundle([i \in 1 .. 5 |-> IF i = 1 THEN Leaf ELSE Issuer], <<Root>>)}

-----------------------------------------------------------------------------
(* Chains of four: any certificate may carry any key and be signed by any. *)

Crossed ==
    LET name == Name(<<"b">>)
        authority(key, signer, pathLen) ==
            [Issuer EXCEPT !.subject = name, !.issuer = name, !.spki.key = key, !.signer = signer,
                           !.exts = <<Ca(pathLen)>>]
    IN {Bundle(<<[Leaf EXCEPT !.signer = s0], authority(q1, s1, l1), authority("k2", s2, l2),
                 authority("k3", s3, -1)>>, <<Anchor(name, "k9")>>) :
            s0 \in {"k1", "k2"}, s1, s2 \in {"k2", "k3", "k9"}, s3 \in {"k1", "k2", "k9"},
            q1 \in {"k1", "k3"}, l1 \in {-1, 0}, l2 \in {-1, 1}}

MCBundles ==
    {Hosts, Addresses, Subtrees, Networks, Mixed, Naming, Stores, Shared, Times, Extensions,
     Algorithms, Fields, Crossed}
=============================================================================
