---------------------------- MODULE Negotiation ----------------------------
(***************************************************************************)
(* How a server settles on a protocol and on a key share: PreparedAlpn of  *)
(* wire/protocols.rs, which a Shared prepares once, and ClientKx of        *)
(* server/session/negotiation.rs, which reads supported_groups and         *)
(* key_share together in one pass.  Both are pure; ServerSession applies   *)
(* them to every hello.                                                    *)
(***************************************************************************)
EXTENDS Protocol

CONSTANT
    AlpnsByBytes    \* the protocol names, in the order of their bytes

ASSUME AlpnsAssumption ==
    /\ AlpnsByBytes \in Seq(STRING)
    /\ \A i, j \in DOMAIN AlpnsByBytes : AlpnsByBytes[i] = AlpnsByBytes[j] => i = j

\* What a list holds, and the smallest of a set of numbers.
Elems(seq) == {seq[i] : i \in DOMAIN seq}

Smallest(S) == CHOOSE x \in S : \A y \in S : x <= y

Alpns == Elems(AlpnsByBytes)

ByteRank(protocol) == CHOOSE i \in DOMAIN AlpnsByBytes : AlpnsByBytes[i] = protocol

-----------------------------------------------------------------------------
\* MUTANT: of a protocol listed twice the later entry comes first.
PrecedesLater(preferred, l, r) ==
    \/ ByteRank(preferred[l]) < ByteRank(preferred[r])
    \/ preferred[l] = preferred[r] /\ l > r

\* The comparison PreparedAlpn::prepare sorts by: the name, then the AlpnId.
Precedes(preferred, l, r) ==
    \/ ByteRank(preferred[l]) < ByteRank(preferred[r])
    \/ preferred[l] = preferred[r] /\ l < r

\* PreparedAlpn::prepare: AlpnIds sorted by name, of equal names the first.
ByName(preferred) ==
    LET ids == DOMAIN preferred
        kept == {id \in ids : \A k \in ids : preferred[k] = preferred[id] => ~Precedes(preferred, k, id)}
        before(id) == {k \in kept : Precedes(preferred, k, id)}
    IN [rank \in 1 .. Cardinality(kept) |-> CHOOSE id \in kept : Cardinality(before(id)) = rank - 1]

\* PreparedAlpn: the protocols in order of preference, and by name.
Prepare(preferred) == [preferred |-> preferred, byName |-> ByName(preferred)]

\* The slice's binary_search_by over by_name, from lo up to but not including
\* hi: the id of the entry it stops at, 0 when there is none.
BinarySearch(alpn, protocol) ==
    LET size == Len(alpn.byName)
        search[lo \in 0..size, hi \in 0..size] ==
          LET mid == (lo + hi) \div 2
              id == alpn.byName[mid + 1]
          IN IF lo >= hi THEN 0
             ELSE IF alpn.preferred[id] = protocol THEN id
             ELSE IF ByteRank(alpn.preferred[id]) < ByteRank(protocol) THEN search[mid + 1, hi]
             ELSE search[lo, mid]
    IN search[0, size]

\* PreparedAlpn::find.
Find(alpn, protocol) == BinarySearch(alpn, protocol)

\* ClientHelloOffers::select_alpn: the least AlpnId among the offers found.
SelectAlpn(alpn, offered) ==
    LET found == {Find(alpn, p) : p \in offered} \ {0}
    IN IF found = {} THEN None ELSE alpn.preferred[Smallest(found)]

\* An offer without a common protocol is an error, unless the server has none.
AlpnAcceptable(alpn, offered) ==
    alpn.preferred = <<>> \/ offered = {} \/ SelectAlpn(alpn, offered) # None

-----------------------------------------------------------------------------
\* local_group: the rank of a group this library knows.
LocalRank(group) == CHOOSE rank \in DOMAIN SupportedGroups : SupportedGroups[rank] = group

\* Whether a share replaces the one selected so far.
Better(group, selected) ==
    group \in Groups /\ (selected = None \/ LocalRank(group) < LocalRank(selected))

\* note_supported over the whole list: no known group is listed twice.
SupportedOnce(groups) ==
    \A i, j \in DOMAIN groups : groups[i] = groups[j] /\ groups[i] \in Groups => i = j

\* The outer loop of ClientKx::parse.  Each share is looked for among the
\* groups behind the one the share before it matched.
ShareStep(groups, kx, share) ==
    LET behind == {i \in (kx.cursor + 1)..Len(groups) : groups[i] = share}
    IN IF ~kx.ok \/ behind = {} \/ share \in kx.shared \cap Groups
       THEN [kx EXCEPT !.ok = FALSE]
       ELSE [kx EXCEPT !.cursor = Smallest(behind),
                       !.shared = @ \cup {share},
                       !.selected = IF Better(share, @) THEN share ELSE @]

\* ClientKx::retry_group: the first known group the client supports.
RetryGroup(groups) == FirstOffered(SupportedGroups, Elems(groups))

\* ClientKx::parse; selected is None when no share can be used.
ClientKx(groups, shares) ==
    LET retryGroup == RetryGroup(groups)
        start == [cursor |-> 0, shared |-> {}, selected |-> None, retryGroup |-> retryGroup,
                  ok |-> SupportedOnce(groups) /\ retryGroup # None]
        parsed[i \in 0..Len(shares)] ==
          IF i = 0 THEN start ELSE ShareStep(groups, parsed[i - 1], shares[i])
    IN parsed[Len(shares)]

\* What RFC 8446 asks of key_share, which ClientKx::parse enforces: the groups
\* of the shares are among supported_groups, in the same order and once each.
RefSharesInOrder(groups, shares) ==
    \E at \in [DOMAIN shares -> DOMAIN groups] :
        \A i \in DOMAIN shares :
            /\ groups[at[i]] = shares[i]
            /\ \A j \in 1..(i - 1) : at[j] < at[i]
=============================================================================
