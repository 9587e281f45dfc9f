----------------------------- MODULE MCTxStore -----------------------------
(***************************************************************************)
(* Instances of TxStore for TLC: a tree of blocks with seven transactions  *)
(* of the wallet.                                                          *)
(*                                                                         *)
(*   a1 -- a2 -- a3 -- a4 -- a5         a1 holds the coinbase cb, a2 the   *)
(*    |     \                           payment t and the ticket k, a3 the *)
(*    |      d3 -- d4                   payment c that spends t's change,  *)
(*    |                                 a4 the vote v for a3, a5 a payment *)
(*    b2 -- b3 -- b4 -- b5 -- b6        r to the wallet; d3 disapproves a2 *)
(*                                      and d4 holds t again; b2 holds u,  *)
(*   e1 -- e2 -- e3                     which spends what t spends; the e  *)
(*                                      blocks hold nothing of the wallet  *)
(***************************************************************************)
EXTENDS TxStore, TLC, FiniteSetsExt

CONSTANTS a1, a2, a3, a4, a5, d3, d4, b2, b3, b4, b5, b6, e1, e2, e3
CONSTANTS cb, t, u, c, k, v, r
CONSTANTS o1, o2, o3, o4, o5, o6, s1, x1, f1

MCBlock == {Genesis, a1, a2, a3, a4, a5, d3, d4, b2, b3, b4, b5, b6, e1, e2, e3}
MCTx == {cb, t, u, c, k, v, r}
MCOutpoint == {o1, o2, o3, o4, o5, o6, s1, x1, f1}
MCOwned == MCOutpoint \ {x1, f1}

Longest == {<<a1, a2, a3, a4, a5>>, <<a1, a2, d3, d4>>, <<a1, b2, b3, b4, b5, b6>>, <<e1, e2, e3>>}
MCChainTo ==
  [b \in MCBlock |->
    IF b = Genesis THEN <<>>
    ELSE LET s == CHOOSE s \in Longest : \E i \in DOMAIN s : s[i] = b
         IN  SubSeq(s, 1, CHOOSE i \in DOMAIN s : s[i] = b)]
MCTxsOf ==
  (a1 :> <<cb>>) @@ (a2 :> <<t, k>>) @@ (a3 :> <<c>>) @@ (a4 :> <<v>>)
  @@ (d4 :> <<t>>) @@ (b2 :> <<u>>) @@ (a5 :> <<r>>) @@ [b \in MCBlock |-> <<>>]
MCApproves == MCBlock \ {d3}
MCStakeDiff == [b \in MCBlock |-> IF b \in {b2, b3, b4, b5, b6} THEN 3 ELSE 2]

MCInputs ==
  (t :> {o1}) @@ (u :> {o1}) @@ (c :> {o2}) @@ (k :> {o4}) @@ (v :> {s1})
  @@ (cb :> {}) @@ (r :> {f1})
MCOutputs ==
  (cb :> {o1, o4}) @@ (t :> {o2}) @@ (u :> {x1}) @@ (c :> {o3}) @@ (k :> {s1})
  @@ (v :> {o5}) @@ (r :> {o6})
MCAmount ==
  (o1 :> 4) @@ (o2 :> 3) @@ (o3 :> 2) @@ (o4 :> 2) @@ (o5 :> 3) @@ (o6 :> 7)
  @@ [o \in MCOutpoint |-> 0]
MCWorth == [S \in SUBSET MCOutpoint |-> MapThenSumSet(LAMBDA o : IF o \in Ska THEN 0 ELSE MCAmount[o], S)]
MCPrice == [x \in {k} |-> 2]
MCVotesOn == [x \in {v} |-> a3]
MCExpiry == [x \in MCTx |-> IF x = c THEN 4 ELSE 0]

\* No chain is served to a session that starts once another replaced it.
MCFetched == {a1, a2, d4}
MCAnnounced == {a1, a2, a3, a4, a5, d3, d4, b3, b5, e3}

ASSUME InstanceAssumption == NoReturn /\ ValidChains /\ NoSpendsWithin /\ NoDisputes

\* With this instead a replaced chain may come back while a session starts, and
\* MarkerIsHonest does not hold: the marker is not rolled back with the records.
MCFetchedAgain == MCFetched \cup {b3}
=============================================================================
