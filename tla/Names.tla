------------------------------- MODULE Names -------------------------------
(***************************************************************************)
(* The names a certificate is issued for: hostname matching                 *)
(* (identity/hostname.rs), general names and the subtrees of a              *)
(* nameConstraints extension (identity/cert/ext/scope.rs).                  *)
(*                                                                          *)
(* A text is a sequence of characters, because the code scans bytes; the    *)
(* alphabet is small.  An address is a sequence of bits.  A definition      *)
(* whose name begins with "Ref" is not the code's: it says what the code    *)
(* should compute, in terms of labels and prefixes instead of bytes.        *)
(***************************************************************************)
EXTENDS Integers, Sequences, SequencesExt, FiniteSetsExt

CONSTANTS
    BYTE_BITS,             \* bits of an address byte, 8 in the code
    V6_GROUPS,             \* groups of an IPv6 address, 8 in the code
    MAX_EXTENSION_VALUES   \* entries of an extension, 64 in the code

V4_PARTS == 4

ASSUME NamesAssumption ==
    /\ BYTE_BITS \in Nat \ {0} /\ V6_GROUPS \in Nat /\ V6_GROUPS > 2
    /\ MAX_EXTENSION_VALUES \in Nat \ {0}

UPPER == [A |-> "a", B |-> "b"]

Lower(c) == IF c \in DOMAIN UPPER THEN UPPER[c] ELSE c

AlphaNumeric == {"a", "b", "A", "B"}

\* "NUL" is the zero byte, "high" a byte that is not ASCII.
TextBytesOk(s) == ~Contains(s, "NUL") /\ ~Contains(s, "high")

FoldCase(s) == [i \in 1 .. Len(s) |-> Lower(s[i])]

\* ascii_case_eq
CaseEq(s, t) == FoldCase(s) = FoldCase(t)

\* s.split('.')
Labels(s) ==
    FoldLeft(LAMBDA labels, c :
                IF c = "." THEN Append(labels, <<>>)
                ELSE [labels EXCEPT ![Len(labels)] = Append(@, c)],
             <<<<>>>>, s)

-----------------------------------------------------------------------------
(* Hostname. *)

TrimTrailingDot(s) == IF s # <<>> /\ Last(s) = "." THEN Front(s) ELSE s

ValidName(s) ==
    /\ s # <<>> /\ ~Contains(s, "NUL")
    /\ Head(s) # "." /\ Last(s) # "."
    /\ \A i \in 1 .. Len(s) - 1 : ~(s[i] = "." /\ s[i + 1] = ".")

HasDot(s) == Contains(s, ".")

FirstDot(s) == Min({i \in 1 .. Len(s) : s[i] = "."})

\* split_first_label; a name without a dot is one label.
FirstLabel(s) == IF HasDot(s) THEN SubSeq(s, 1, FirstDot(s) - 1) ELSE s

AfterLabel(s) == SubSeq(s, FirstDot(s) + 1, Len(s))

\* MUTANT: a wildcard may stand for a name directly below a top-level domain.
MatchesDnsTopLevel(reference, presented) ==
    LET p == TrimTrailingDot(presented)
        r == TrimTrailingDot(reference)
    IN /\ ValidName(p) /\ ValidName(r)
       /\ IF HasDot(p) /\ FirstLabel(p) = <<"*">>
          THEN HasDot(r) /\ FirstLabel(r) # <<>> /\ CaseEq(AfterLabel(r), AfterLabel(p))
          ELSE ~Contains(FirstLabel(p), "*") /\ CaseEq(p, r)

\* Hostname::matches_dns
MatchesDns(reference, presented) ==
    LET p == TrimTrailingDot(presented)
        r == TrimTrailingDot(reference)
    IN /\ ValidName(p) /\ ValidName(r)
       /\ IF HasDot(p) /\ FirstLabel(p) = <<"*">>
          THEN /\ HasDot(AfterLabel(p))
               /\ HasDot(r) /\ FirstLabel(r) # <<>>
               /\ CaseEq(AfterLabel(r), AfterLabel(p))
          ELSE ~Contains(FirstLabel(p), "*") /\ CaseEq(p, r)

\* The labels correspond one to one; the first of at least three presented may
\* be a wildcard and is otherwise free of them.
RefMatchesDns(reference, presented) ==
    LET p == Labels(TrimTrailingDot(presented))
        r == Labels(TrimTrailingDot(reference))
    IN /\ Len(p) = Len(r)
       /\ \A i \in 1 .. Len(p) : p[i] # <<>> /\ r[i] # <<>>
       /\ \A i \in 2 .. Len(p) : CaseEq(p[i], r[i])
       /\ \/ p[1] = <<"*">> /\ Len(p) > 2
          \/ ~Contains(p[1], "*") /\ CaseEq(p[1], r[1])

\* A label of letters, digits and inner hyphens.
LdhLabel(l) ==
    /\ l # <<>> /\ l[1] \in AlphaNumeric /\ Last(l) \in AlphaNumeric
    /\ \A i \in 1 .. Len(l) : l[i] \in AlphaNumeric \cup {"-"}

-----------------------------------------------------------------------------
(* Addresses.  The text of an address is a record: v6, parts (the dotted      *)
(* numbers of an IPv4 address), or head and tail, the tokens around "::".     *)
(* A token is the bits of one group or the parts of an embedded IPv4 address. *)

NoAddress == <<>>

\* parse_ipv4: exactly four parts.
ParseIpv4(parts) == IF Len(parts) = V4_PARTS THEN FlattenSeq(parts) ELSE NoAddress

TokenOk(t) == t.quad => ParseIpv4(t.parts) # NoAddress

\* An embedded IPv4 address counts as two groups.
TokenGroups(t) == IF t.quad THEN 2 ELSE 1

Groups(tokens) == FoldLeft(LAMBDA n, t : n + TokenGroups(t), 0, tokens)

\* parse_v6_part: an IPv4 address ends its part; 16 bytes at most.
PartOk(tokens) ==
    /\ \A i \in 1 .. Len(tokens) : TokenOk(tokens[i]) /\ (tokens[i].quad => i = Len(tokens))
    /\ Groups(tokens) <= V6_GROUPS

TokenBits(tokens) == FlattenSeq([i \in 1 .. Len(tokens) |-> FlattenSeq(tokens[i].parts)])

Zeros(n) == [i \in 1 .. n |-> 0]

\* parse_ipv6
ParseIpv6(h) ==
    LET total == Groups(h.head) + Groups(h.tail)
        parsed == PartOk(h.head) /\ PartOk(h.tail)
    IN IF parsed /\ h.compressed /\ total < V6_GROUPS
       THEN TokenBits(h.head) \o Zeros((V6_GROUPS - total) * 2 * BYTE_BITS) \o TokenBits(h.tail)
       ELSE IF parsed /\ ~h.compressed /\ Groups(h.head) = V6_GROUPS /\ h.tail = <<>>
       THEN TokenBits(h.head)
       ELSE NoAddress

\* Hostname::parse_ip
ParseIp(h) == IF h.v6 THEN ParseIpv6(h) ELSE ParseIpv4(h.parts)

V4_BITS == V4_PARTS * BYTE_BITS

V6_BITS == V6_GROUPS * 2 * BYTE_BITS

-----------------------------------------------------------------------------
(* General names and subtrees: [kind, value], "Dns", "Ip" or "Other". *)

ValidDnsConstraint(s) ==
    LET base == IF s # <<>> /\ s[1] = "." THEN Tail(s) ELSE s
    IN base # <<>> /\ \A i \in 1 .. Len(Labels(base)) : LdhLabel(Labels(base)[i])

NetworkOf(v) == SubSeq(v, 1, Len(v) \div 2)

MaskOf(v) == SubSeq(v, Len(v) \div 2 + 1, Len(v))

\* contiguous_ip_mask: no one after a zero.
ContiguousMask(mask) == \A i, j \in 1 .. Len(mask) : i < j /\ mask[i] = 0 => mask[j] = 0

\* validate_general_name
ValidGeneralName(g, constraint) ==
    CASE g.kind = "Dns" ->
            /\ g.value # <<>> /\ TextBytesOk(g.value)
            /\ constraint => ValidDnsConstraint(g.value)
      [] g.kind = "Ip" ->
            IF constraint
            THEN Len(g.value) \in {2 * V4_BITS, 2 * V6_BITS} /\ ContiguousMask(MaskOf(g.value))
            ELSE Len(g.value) \in {V4_BITS, V6_BITS}
      [] g.kind = "Other" -> TRUE

\* GeneralNames::parse, Subtrees::parse
ValidGeneralNames(names, constraint) ==
    /\ Len(names) \in 1 .. MAX_EXTENSION_VALUES
    /\ \A i \in 1 .. Len(names) : ValidGeneralName(names[i], constraint)

\* NameConstraints::parse; a list that is absent is empty here.
ValidConstraints(nc) ==
    /\ nc.permitted # <<>> \/ nc.excluded # <<>>
    /\ nc.permitted # <<>> => ValidGeneralNames(nc.permitted, TRUE)
    /\ nc.excluded # <<>> => ValidGeneralNames(nc.excluded, TRUE)

\* dns_in_subtree: by bytes from the end of the name.
DnsInSubtree(name, constraint) ==
    LET subdomainsOnly == constraint # <<>> /\ constraint[1] = "."
        base == IF subdomainsOnly THEN Tail(constraint) ELSE constraint
    IN \/ ~subdomainsOnly /\ CaseEq(name, base)
       \/ /\ Len(name) > Len(base)
          /\ name[Len(name) - Len(base)] = "."
          /\ CaseEq(SubSeq(name, Len(name) - Len(base) + 1, Len(name)), base)

\* The labels of the base end the labels of the name; a leading dot asks for more.
RefDnsInSubtree(name, constraint) ==
    LET more == constraint[1] = "."
        base == Labels(IF more THEN Tail(constraint) ELSE constraint)
        n == Labels(name)
    IN /\ Len(n) >= Len(base) + (IF more THEN 1 ELSE 0)
       /\ \A i \in 1 .. Len(base) : CaseEq(n[Len(n) - Len(base) + i], base[i])

\* ip_in_subtree: both sides masked.
IpInSubtree(address, networkAndMask) ==
    LET network == NetworkOf(networkAndMask)
        mask == MaskOf(networkAndMask)
    IN /\ Len(networkAndMask) = Len(address) * 2
       /\ \A i \in 1 .. Len(address) : address[i] * mask[i] = network[i] * mask[i]

\* The address begins with the prefix that the ones of the mask leave.
RefIpInSubtree(address, networkAndMask) ==
    LET mask == MaskOf(networkAndMask)
        prefix == Cardinality({i \in 1 .. Len(mask) : mask[i] = 1})
    IN /\ Len(address) = Len(mask)
       /\ SubSeq(address, 1, prefix) = SubSeq(networkAndMask, 1, prefix)

InSubtree(g, subtree) ==
    /\ g.kind = subtree.kind
    /\ IF g.kind = "Dns" THEN DnsInSubtree(g.value, subtree.value)
       ELSE IpInSubtree(g.value, subtree.value)

OfKind(subtrees, kind) == SelectSeq(subtrees, LAMBDA s : s.kind = kind)

\* NameConstraintsRef::Parsed reads the subtrees of a kind out of the lists;
\* a subtree that is neither a DNS name nor an address is unsupported.
Parsed(nc) ==
    [unsupported |-> \E s \in Range(nc.permitted) \cup Range(nc.excluded) : s.kind = "Other",
     permitted |-> [k \in {"Dns", "Ip"} |-> OfKind(nc.permitted, k)],
     excluded |-> [k \in {"Dns", "Ip"} |-> OfKind(nc.excluded, k)]]

\* PreparedNameConstraints::parse: one list of spans cut by four ends, each the
\* length of the list when its kind was appended.
Prepared(nc) ==
    LET append(spans, subtrees, kind) == spans \o OfKind(subtrees, kind)
        permittedDns == append(<<>>, nc.permitted, "Dns")
        permittedIp == append(permittedDns, nc.permitted, "Ip")
        excludedDns == append(permittedIp, nc.excluded, "Dns")
        spans == append(excludedDns, nc.excluded, "Ip")
        values(start, end) == SubSeq(spans, start + 1, end)
    IN [unsupported |-> Parsed(nc).unsupported,
        permitted |-> [Dns |-> values(0, Len(permittedDns)),
                       Ip |-> values(Len(permittedDns), Len(permittedIp))],
        excluded |-> [Dns |-> values(Len(permittedIp), Len(excludedDns)),
                      Ip |-> values(Len(excludedDns), Len(spans))]]

\* check_name_constraints for the names of one certificate.
NamesAdmitted(ref, names) ==
    /\ ~ref.unsupported
    /\ \A g \in Range(names) : g.kind \in {"Dns", "Ip"} =>
          /\ \A s \in Range(ref.excluded[g.kind]) : ~InSubtree(g, s)
          /\ \/ ref.permitted[g.kind] = <<>>
             \/ \E s \in Range(ref.permitted[g.kind]) : InSubtree(g, s)

RefInSubtree(g, subtree) ==
    /\ g.kind = subtree.kind
    /\ IF g.kind = "Dns" THEN RefDnsInSubtree(g.value, subtree.value)
       ELSE RefIpInSubtree(g.value, subtree.value)

\* RFC 5280 4.2.1.10 for the constraints nc: every name is outside every excluded
\* subtree and, where its kind is restricted, inside a permitted one.
RefNamesAdmitted(nc, names) ==
    /\ \A s \in Range(nc.permitted \o nc.excluded) : s.kind # "Other"
    /\ \A g \in Range(names) :
          /\ ~\E s \in Range(nc.excluded) : s.kind = g.kind /\ RefInSubtree(g, s)
          /\ (\E s \in Range(nc.permitted) : s.kind = g.kind) =>
                \E s \in Range(nc.permitted) : s.kind = g.kind /\ RefInSubtree(g, s)
=============================================================================
