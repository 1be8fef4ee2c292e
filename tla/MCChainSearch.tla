--------------------------- MODULE MCChainSearch ---------------------------
(* Small chains for TLC: a leaf and three certificates that may issue it and *)
(* each other in every way.                                                  *)
EXTENDS ChainSearch

Nothing == [c \in Certs |-> {}]

\* Every certificate but the leaf may issue any other.
Possible == {e \in Certs \X Certs : e[2] # 0 /\ e[1] # e[2]}

Chain(named, signed, pathLimit, forbids, anchored) ==
    [n |-> MAX_LEN, tooLong |-> FALSE, parsed |-> TRUE, leafOk |-> TRUE, prepared |-> Certs, named |-> named,
     signed |-> signed, ca |-> Certs \ {0}, pathLimit |-> pathLimit, forbids |-> forbids,
     anchored |-> anchored, anchorForbids |-> Nothing]

Unlimited == [c \in Certs |-> MAX_LEN]

\* Every way to sign, with names that all match.
Signatures ==
    {Chain(Possible, signed, Unlimited, Nothing, {3}) : signed \in SUBSET Possible}

\* Every way to sign up to an anchor that admits only the paths around 2.
Detours ==
    {[Chain(Possible, signed, Unlimited, Nothing, {1}) EXCEPT !.anchorForbids[1] = {2}] :
        signed \in SUBSET Possible}

\* Every constraint that can cut one order of the certificates but not another.
Limits ==
    {Chain(Possible, Possible \ cut, [Unlimited EXCEPT ![a] = l, ![b] = l],
           [Nothing EXCEPT ![a] = {b}], anchored) :
        cut \in SUBSET {<<0, 3>>, <<1, 3>>, <<2, 1>>}, a \in 1 .. 3, b \in 1 .. 3, l \in {0, 1},
        anchored \in {{}, {2}, {1, 3}}}

Full == Chain(Possible, Possible, Unlimited, Nothing, {3})

\* Chains that are refused for what they hold.
Odd ==
    {[Full EXCEPT !.tooLong = TRUE],
     [Full EXCEPT !.parsed = FALSE],
     [Full EXCEPT !.leafOk = FALSE],
     [Full EXCEPT !.n = 0],
     [Full EXCEPT !.n = 2],
     [Full EXCEPT !.prepared = {1, 2, 3}],
     [Full EXCEPT !.prepared = {0, 1, 3}],
     [Full EXCEPT !.ca = {1, 2}],
     [Full EXCEPT !.named = {<<0, 1>>, <<1, 3>>}],
     [Full EXCEPT !.anchorForbids[3] = {2}],
     [Full EXCEPT !.anchorForbids[3] = {0}]}

\* Seen::admit tells the states of chains this long apart; ChainSearchProofs
\* proves it for every length.
ASSUME IndexIsExact

MCWorlds == Signatures \cup Detours \cup Limits \cup Odd
=============================================================================
