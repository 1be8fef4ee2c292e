------------------------- MODULE DistinguishedNames -------------------------
(***************************************************************************)
(* Distinguished names (identity/cert/dn): the canonical form of a          *)
(* directory string, the comparison of names and the digest under which a   *)
(* trust store files its anchors.                                           *)
(*                                                                          *)
(* A name is a sequence of relative names, each a sequence (the order of    *)
(* the DER SET) of attributes [oid, tag, text].  The characters of a text:  *)
(* letters, " ", "tab" (mapped to a space), "del" (mapped to nothing),      *)
(* "mark" (a combining mark), "bad" (prohibited); "@" is in UTF8String but  *)
(* not in PrintableString.                                                  *)
(***************************************************************************)
EXTENDS Names

CONSTANTS
    MAX_ATTRIBUTES_PER_RDN,   \* 64 in the code
    DIGESTS                   \* the number of digests; few, so that some collide

ASSUME NameAssumption == MAX_ATTRIBUTES_PER_RDN \in Nat \ {0} /\ DIGESTS \in Nat \ {0}

-----------------------------------------------------------------------------
(* Profile: the canonical form of a directory string. *)

\* mapped, then case folding; normalisation leaves this alphabet as it is.
Normalized(s) ==
    LET kept == SelectSeq(s, LAMBDA c : c # "del")
    IN [i \in 1 .. Len(kept) |-> IF kept[i] = "tab" THEN " " ELSE Lower(kept[i])]

\* Units: a space that a combining mark follows is a character.
IsSpace(s, i) == s[i] = " " /\ ~(i < Len(s) /\ s[i + 1] = "mark")

\* Canonical::fill_start and fill_body: no space is kept at the start, a run of
\* inner spaces becomes two.
CanonicalStep(s, out, i) ==
    IF IsSpace(s, i) THEN [out EXCEPT !.spaces = IF out.started THEN 1 ELSE 0]
    ELSE IF ~out.started THEN [text |-> <<" ", s[i]>>, started |-> TRUE, spaces |-> 0]
    ELSE [out EXCEPT !.text = @ \o (IF out.spaces > 0 THEN <<" ", " ", s[i]>> ELSE <<s[i]>>),
                     !.spaces = 0]

Canonical(s) ==
    LET out == FoldLeft(LAMBDA acc, i : CanonicalStep(s, acc, i),
                        [text |-> <<>>, started |-> FALSE, spaces |-> 0],
                        [i \in 1 .. Len(s) |-> i])
    IN IF out.started THEN out.text \o <<" ">> ELSE <<" ", " ">>

Profile(s) == Canonical(Normalized(s))

\* Profile::is_valid
ProfileIsValid(s) == ~Contains(Normalized(s), "bad")

\* The words of a text: its maximal runs without a space.
RefWords(text) ==
    LET s == Normalized(text)
        word(i, j) ==
            /\ \A k \in i .. j : ~IsSpace(s, k)
            /\ i > 1 => IsSpace(s, i - 1)
            /\ j < Len(s) => IsSpace(s, j + 1)
        starts == {i \in 1 .. Len(s) : \E j \in i .. Len(s) : word(i, j)}
        start(k) == CHOOSE i \in starts : Cardinality({j \in starts : j <= i}) = k
    IN [k \in 1 .. Cardinality(starts) |->
           SubSeq(s, start(k), CHOOSE j \in start(k) .. Len(s) : word(start(k), j))]

-----------------------------------------------------------------------------
(* Attributes. *)

PRINTABLE == {"a", "b", "A", "B", " "}

IsDomainComponent(a) == a.oid = "dc" /\ a.tag = "IA5"

CaseIgnoreOid(a) == a.oid = "cn"

\* string_value: an error for a PrintableString that is not printable.
StringOk(a) == a.tag = "Printable" => Range(a.text) \subseteq PRINTABLE

IsCaseIgnore(a) == CaseIgnoreOid(a) /\ a.tag \in {"UTF8", "Printable"}

\* validate_attribute
ValidAttribute(a) == StringOk(a) /\ (IsCaseIgnore(a) => ProfileIsValid(a.text))

\* hash_attribute_into refuses only case-ignore strings.
HashableAttribute(a) == IsCaseIgnore(a) => StringOk(a) /\ ProfileIsValid(a.text)

\* attributes_equal
AttributesEqual(a, b) ==
    /\ a.oid = b.oid
    /\ IF IsDomainComponent(a) /\ IsDomainComponent(b) THEN FoldCase(a.text) = FoldCase(b.text)
       ELSE IF StringOk(a) /\ StringOk(b) /\ IsCaseIgnore(a) /\ IsCaseIgnore(b)
       THEN Profile(a.text) = Profile(b.text)
       ELSE ~IsCaseIgnore(a) /\ ~IsCaseIgnore(b) /\ a.tag = b.tag /\ a.text = b.text

-----------------------------------------------------------------------------
(* Relative names and names. *)

\* Rdn::scan with the visitors validate_attribute and hash_attribute_into.
ValidRdn(rdn) ==
    Len(rdn) \in 1 .. MAX_ATTRIBUTES_PER_RDN /\ \A i \in 1 .. Len(rdn) : ValidAttribute(rdn[i])

HashableRdn(rdn) ==
    Len(rdn) \in 1 .. MAX_ATTRIBUTES_PER_RDN /\ \A i \in 1 .. Len(rdn) : HashableAttribute(rdn[i])

\* DistinguishedName::parse, the subject of a certificate.
ParsesName(name) == \A i \in 1 .. Len(name) : ValidRdn(name[i])

\* DistinguishedName::prepared, an issuer or the subject of an anchor.
PreparesName(name) == \A i \in 1 .. Len(name) : HashableRdn(name[i])

\* The inner loop of rdns_equal: the first attribute of the right side that is
\* equal and not matched yet.
MatchAttribute(right, acc, a) ==
    LET found == {j \in (1 .. Len(right)) \ acc.matched : AttributesEqual(a, right[j])}
    IN IF acc.ok /\ found # {}
       THEN [matched |-> acc.matched \cup {Min(found)}, ok |-> TRUE]
       ELSE [acc EXCEPT !.ok = FALSE]

\* rdns_equal
RdnsEqual(left, right) ==
    /\ ValidRdn(left) /\ ValidRdn(right)
    /\ Len(left) = Len(right)
    /\ FoldLeft(LAMBDA acc, a : MatchAttribute(right, acc, a),
                [matched |-> {}, ok |-> TRUE], left).ok

\* DistinguishedName::equivalent, names_equal
Equivalent(x, y) ==
    \/ x = y
    \/ Len(x) = Len(y) /\ \A i \in 1 .. Len(x) : RdnsEqual(x[i], y[i])

\* The form under which two attributes are the same.
RefForm(a) ==
    IF IsDomainComponent(a) THEN <<a.oid, "folded", FoldCase(a.text)>>
    ELSE IF IsCaseIgnore(a) THEN <<a.oid, "words", RefWords(a.text)>>
    ELSE <<a.oid, a.tag, a.text>>

\* How often each form occurs in a relative name.
RefForms(rdn) ==
    [f \in {RefForm(rdn[i]) : i \in 1 .. Len(rdn)} |->
        Cardinality({i \in 1 .. Len(rdn) : RefForm(rdn[i]) = f})]

\* Two names are the same if they are equal, or both are well formed and agree
\* relative name by relative name on the forms and how often each occurs.
RefEquivalent(x, y) ==
    \/ x = y
    \/ /\ Len(x) = Len(y) /\ ParsesName(x) /\ ParsesName(y)
       /\ \A i \in 1 .. Len(x) : RefForms(x[i]) = RefForms(y[i])

-----------------------------------------------------------------------------
(* NameKey. *)

ORDINAL ==
    [A |-> 2, B |-> 3, a |-> 4, b |-> 5, del |-> 6, mark |-> 7, bad |-> 8, tab |-> 9,
     cn |-> 1, dc |-> 2, em |-> 3, UTF8 |-> 1, Printable |-> 2, IA5 |-> 3]
    @@ (" " :> 0) @@ ("@" :> 1)

Ordinal(c) == ORDINAL[c]

\* The digest of a byte string: some function of it.
Digest(bytes) == FoldLeft(LAMBDA h, b : (3 * h + b + 1) % DIGESTS, 0, bytes)

Bytes(text) == [i \in 1 .. Len(text) |-> Ordinal(text[i])]

\* hash_attribute
HashAttribute(a) ==
    Digest(<<Ordinal(a.oid)>> \o
        (IF IsDomainComponent(a) THEN <<1>> \o Bytes(FoldCase(a.text))
         ELSE IF IsCaseIgnore(a) THEN <<2>> \o Bytes(Profile(a.text))
         ELSE <<3, Ordinal(a.tag), Len(a.text)>> \o Bytes(a.text)))

\* hash_rdn: the number of attributes and the sum of their digests.
HashRdn(rdn) ==
    <<Len(rdn), FoldLeft(LAMBDA sum, a : (sum + HashAttribute(a)) % DIGESTS, 0, rdn)>>

\* NameKey::new
NameKey(name) ==
    Digest(FlattenSeq([i \in 1 .. Len(name) |-> HashRdn(name[i])]) \o <<Len(name)>>)

-----------------------------------------------------------------------------
(* The encoding. *)

Tlv(body) == <<Len(body)>> \o body

\* The bytes of a name, of which no two names share all.
Der(name) ==
    LET attribute(a) == Tlv(<<Ordinal(a.oid), Ordinal(a.tag)>> \o Tlv(Bytes(a.text)))
        rdn(r) == Tlv(FlattenSeq([i \in 1 .. Len(r) |-> attribute(r[i])]))
    IN FlattenSeq([i \in 1 .. Len(name) |-> rdn(name[i])])

\* The order of byte strings, <[u8]>::cmp.
BytesBefore(x, y) ==
    \/ IsStrictPrefix(x, y)
    \/ \E i \in 1 .. Min({Len(x), Len(y)}) :
          x[i] < y[i] /\ SubSeq(x, 1, i - 1) = SubSeq(y, 1, i - 1)
=============================================================================
